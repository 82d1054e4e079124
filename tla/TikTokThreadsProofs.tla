------------------------- MODULE TikTokThreadsProofs -------------------------
(* Proofs about what the threads of TikTok requests share.  The pool, for any        *)
(* requests, threads, identities, pool size and ttls: who uses a session, and for    *)
(* how long one is kept.  The generator behind the signatures, for any threads,      *)
(* words and blocks: its index stays in the block, and the words of a key that       *)
(* nobody came between follow one another.  The signatures, for any hashes, times    *)
(* and ciphers that fit together: an X-Gnarly gives its payload back, whatever key    *)
(* its thread has drawn, and an X-Bogus adds up.                                     *)
EXTENDS TikTokPool, RequestSigning, SequenceFacts

-----------------------------------------------------------------------------
(* The pool.                                                                   *)

JobRecord == [state : JobStates, ident : Idents \cup {Nobody}, owner : Requests \cup {Nobody},
              age : 0 .. TokenTtl, token : {"none", "reused", "fresh"}]

ReqRecord == [state : {"idle", "warming", "first", "retry"}, ident : Idents \cup {Nobody},
              job : Jobs \cup {Nobody}]

Waits(r) == req[r].state # "idle"

\* The jobs that have an identity, whatever has become of others.
WithIdent == {"queued", "locking", "data"} \cup InSession

\* The types of what the searches change.  A request that waits has a job of its own,
\* be it the warm-up or a search, and a job that searches, will or has, an identity.
SearchTyped ==
    /\ hasToken \in [Idents -> BOOLEAN]
    /\ stamp \in [Idents -> 0 .. TokenTtl] /\ minted \in [Idents -> 0 .. TokenTtl]
    /\ lock \in [Idents -> Jobs \cup {Nobody}]
    /\ job \in [Jobs -> JobRecord] /\ req \in [Requests -> ReqRecord]
    /\ \A j \in Jobs : job[j].state \in WithIdent => job[j].ident \in Idents
    /\ \A r \in Requests : Waits(r) => req[r].job \in Jobs /\ job[req[r].job].owner = r

\* The pool and its refresher.
PoolTyped ==
    /\ cycle \in Seq(Idents) /\ Len(cycle) <= PoolSize
    /\ warmed \in [Idents -> 0 .. Window]
    /\ phase \in {"starting", "sleeping", "warming", "off"} /\ raised \in BOOLEAN
    /\ timer \in Nat
    /\ phase \in {"starting", "warming"} => timer <= MaxWarm
    /\ phase = "sleeping" => timer <= RefreshEvery
    /\ phase = "off" => raised = TRUE

\* The age that an identity of the pool may have reached by now.
AgeBound == (IF phase = "warming" THEN RefreshEvery + MaxWarm ELSE MaxWarm) + timer

\* Before the first refresh has ended there is no pool.
AgesInv ==
    /\ phase = "starting" => cycle = <<>>
    /\ raised \/ \A n \in DOMAIN cycle : warmed[cycle[n]] <= AgeBound

SearchInv == SearchTyped /\ SessionExclusive

-----------------------------------------------------------------------------
(* Lemmas: one thread, one request at a time.                                  *)

LEMMA Records ==
    /\ FreeJob \in JobRecord /\ IdleReq \in ReqRecord
    /\ \A age \in 0 .. TokenTtl : Older(age, TokenTtl) \in 0 .. TokenTtl
<1>1. 0 \in 0 .. TokenTtl /\ TokenTtl \in Nat
  BY ConstantsAssumption DEF ConstantsAssumption
<1>2. QED  BY <1>1 DEF FreeJob, JobRecord, JobStates, InSession, IdleReq, ReqRecord, Older

\* A request r and the thread that serves it, or will, move together.
LEMMA OwnMoves ==
    ASSUME SearchTyped, NEW r \in Requests, NEW q \in ReqRecord, NEW j \in Jobs,
           NEW d \in JobRecord,
           req' = [req EXCEPT ![r] = q], job' = [job EXCEPT ![j] = d],
           job[j].owner \in {r, Nobody}, d.state \in WithIdent => d.ident \in Idents,
           q.state # "idle" => q.job = j /\ d.owner = r,
           lock' = lock, stamp' \in [Idents -> 0 .. TokenTtl],
           minted' \in [Idents -> 0 .. TokenTtl], hasToken' \in [Idents -> BOOLEAN]
    PROVE  SearchTyped'
<1>1. Nobody \notin Requests
  BY ConstantsAssumption DEF ConstantsAssumption
<1>2. job' \in [Jobs -> JobRecord] /\ req' \in [Requests -> ReqRecord]
  BY DEF SearchTyped
<1>3. \A i \in Jobs : job'[i].state \in WithIdent => job'[i].ident \in Idents
  BY DEF SearchTyped
<1>4. ASSUME NEW u \in Requests, Waits(u)'
      PROVE  req'[u].job \in Jobs /\ job'[req'[u].job].owner = u
  <2>1. CASE u = r
    BY <1>4, <2>1 DEF SearchTyped, Waits
  <2>2. CASE u # r
    <3>1. req'[u] = req[u] /\ Waits(u)
      BY <1>4, <2>2 DEF SearchTyped, Waits
    <3>2. req[u].job \in Jobs /\ job[req[u].job].owner = u /\ req[u].job # j
      BY <1>1, <2>2, <3>1 DEF SearchTyped
    <3>3. QED  BY <3>1, <3>2 DEF SearchTyped
  <2>3. QED  BY <2>1, <2>2
<1>5. lock' \in [Idents -> Jobs \cup {Nobody}]
  BY DEF SearchTyped
<1>6. QED  BY <1>2, <1>3, <1>4, <1>5 DEF SearchTyped

\* A thread moves, and the request that waits for it, if any, goes on waiting.
LEMMA ThreadMoves ==
    ASSUME SearchTyped, NEW j \in Jobs, NEW d \in JobRecord, job' = [job EXCEPT ![j] = d],
           d.owner = job[j].owner, d.state \in WithIdent => d.ident \in Idents, req' = req,
           lock' \in [Idents -> Jobs \cup {Nobody}], stamp' \in [Idents -> 0 .. TokenTtl],
           minted' \in [Idents -> 0 .. TokenTtl], hasToken' \in [Idents -> BOOLEAN]
    PROVE  SearchTyped'
<1>1. job' \in [Jobs -> JobRecord] /\ req' \in [Requests -> ReqRecord]
  BY DEF SearchTyped
<1>2. \A i \in Jobs : job'[i].state \in WithIdent => job'[i].ident \in Idents
  BY DEF SearchTyped
<1>3. \A i \in Jobs : job'[i].owner = job[i].owner
  BY DEF SearchTyped
<1>4. \A r \in Requests : Waits(r)' => req'[r].job \in Jobs /\ job'[req'[r].job].owner = r
  BY <1>3 DEF SearchTyped, Waits
<1>5. QED  BY <1>1, <1>2, <1>4 DEF SearchTyped

\* A thread neither enters nor leaves its session.
LEMMA StaysOutOrIn ==
    ASSUME SearchInv, NEW j \in Jobs, NEW d, job' = [job EXCEPT ![j] = d], lock' = lock,
           d.state \in InSession <=> job[j].state \in InSession,
           d.state \in InSession => d.ident = job[j].ident
    PROVE  SessionExclusive'
<1>1. \A i \in Jobs : /\ job'[i].state \in InSession <=> job[i].state \in InSession
                      /\ job[i].state \in InSession => job'[i].ident = job[i].ident
  BY DEF SearchInv, SearchTyped
<1>2. \A i \in Idents : lock[i] # Nobody => lock[i] \in Jobs
  BY DEF SearchInv, SearchTyped
<1>3. QED  BY <1>1, <1>2 DEF SearchInv, SessionExclusive

\* A thread leaves its session, and the lock with it.
LEMMA LeavesSession ==
    ASSUME SearchInv, NEW j \in Jobs, job[j].state \in InSession, NEW d,
           d.state \notin InSession, job' = [job EXCEPT ![j] = d],
           lock' = [lock EXCEPT ![job[j].ident] = Nobody]
    PROVE  SessionExclusive'
<1>1. Nobody \notin Jobs
  BY ConstantsAssumption DEF ConstantsAssumption
<1>2. job[j].ident \in Idents /\ lock[job[j].ident] = j
  BY DEF SearchInv, SearchTyped, SessionExclusive, InSession, WithIdent
<1>3. job'[j].state \notin InSession /\ \A i \in Jobs \ {j} : job'[i] = job[i]
  BY DEF SearchInv, SearchTyped
<1>4. ASSUME NEW i \in Jobs, job'[i].state \in InSession
      PROVE  lock'[job'[i].ident] = i
  <2>1. i # j /\ job'[i] = job[i] /\ job[i].state \in InSession
    BY <1>3, <1>4
  <2>2. lock[job[i].ident] = i /\ job[i].ident \in Idents
    BY <2>1 DEF SearchInv, SearchTyped, SessionExclusive, InSession, WithIdent
  <2>3. QED  BY <1>2, <2>1, <2>2 DEF SearchInv, SearchTyped
<1>5. ASSUME NEW i \in Idents, lock'[i] # Nobody
      PROVE  job'[lock'[i]].state \in InSession /\ job'[lock'[i]].ident = i
  <2>1. i # job[j].ident /\ lock'[i] = lock[i] /\ lock[i] \in Jobs
    BY <1>2, <1>5 DEF SearchInv, SearchTyped
  <2>2. job[lock[i]].state \in InSession /\ job[lock[i]].ident = i
    BY <1>5, <2>1 DEF SearchInv, SessionExclusive
  <2>3. QED  BY <1>3, <2>1, <2>2
<1>6. QED  BY <1>4, <1>5 DEF SessionExclusive

-----------------------------------------------------------------------------
(* The steps of a search.                                                      *)

\* A thread is taken for a request.
LEMMA SubmitKeeps ==
    ASSUME SearchInv, NEW r \in Requests, NEW i \in Idents, NEW state \in {"first", "retry"},
           Submit(r, i, state), lock' = lock, stamp' \in [Idents -> 0 .. TokenTtl],
           minted' \in [Idents -> 0 .. TokenTtl], hasToken' \in [Idents -> BOOLEAN]
    PROVE  SearchInv'
<1>1. PICK j \in Jobs :
        /\ job[j] = FreeJob
        /\ job' = [job EXCEPT ![j].state = "queued", ![j].ident = i, ![j].owner = r]
        /\ req' = [req EXCEPT ![r] = [state |-> state, ident |-> i, job |-> j]]
  BY DEF Submit
<1> DEFINE d == [FreeJob EXCEPT !.state = "queued", !.ident = i, !.owner = r]
           q == [state |-> state, ident |-> i, job |-> j]
<1>2. d \in JobRecord /\ q \in ReqRecord
  BY Records DEF JobRecord, ReqRecord, JobStates
<1>3. job' = [job EXCEPT ![j] = d] /\ req' = [req EXCEPT ![r] = q]
  BY <1>1 DEF SearchInv, SearchTyped
<1>4. job[j].owner = Nobody /\ job[j].state = "free"
  BY <1>1 DEF FreeJob
<1>5. d.owner = r /\ d.ident = i /\ d.state = "queued" /\ q.job = j
  BY DEF FreeJob
<1> HIDE DEF d, q
<1>6. SearchTyped'
  BY <1>2, <1>3, <1>4, <1>5, OwnMoves DEF SearchInv
<1>7. SessionExclusive'
  BY <1>3, <1>4, <1>5, StaysOutOrIn DEF InSession
<1>8. QED  BY <1>6, <1>7 DEF SearchInv

\* Identities that nothing refers to are warmed anew.
LEMMA NewTyped ==
    ASSUME SearchTyped, NEW new \in SUBSET Idents, NEW age, NewIdentities(new, age)
    PROVE  /\ lock' = lock /\ stamp' \in [Idents -> 0 .. TokenTtl]
           /\ minted' \in [Idents -> 0 .. TokenTtl] /\ hasToken' \in [Idents -> BOOLEAN]
<1>1. 0 \in 0 .. TokenTtl /\ TokenTtl \in 0 .. TokenTtl
  BY ConstantsAssumption DEF ConstantsAssumption
<1>2. hasToken' \in [Idents -> BOOLEAN]
  BY DEF NewIdentities
<1>3. stamp' \in [Idents -> 0 .. TokenTtl] /\ minted' \in [Idents -> 0 .. TokenTtl]
  BY <1>1 DEF NewIdentities, SearchTyped
<1>4. QED  BY <1>2, <1>3 DEF NewIdentities

\* The job that a request waits for.
LEMMA Served ==
    ASSUME SearchTyped, NEW r \in Requests, Waits(r)
    PROVE  /\ req[r].job \in Jobs /\ job[req[r].job].owner = r
           /\ job[req[r].job] \in JobRecord
  BY DEF SearchTyped

\* A request and its job outside sessions move together, and nothing else does.
LEMMA OutsideSessions ==
    ASSUME SearchInv, NEW r \in Requests, NEW q \in ReqRecord, NEW j \in Jobs,
           NEW d \in JobRecord,
           req' = [req EXCEPT ![r] = q], job' = [job EXCEPT ![j] = d],
           job[j].owner \in {r, Nobody}, d.state \in WithIdent => d.ident \in Idents,
           q.state # "idle" => q.job = j /\ d.owner = r,
           job[j].state \notin InSession, d.state \notin InSession, UNCHANGED identVars
    PROVE  SearchInv'
<1>1. SearchTyped'
  BY OwnMoves DEF SearchInv, SearchTyped, identVars
<1>2. SessionExclusive'
  BY StaysOutOrIn DEF identVars
<1>3. QED  BY <1>1, <1>2 DEF SearchInv

LEMMA SearchKeeps ==
    ASSUME SearchInv, PoolTyped, NEW r \in Requests, Search(r) \/ SearchWarmed(r) \/ WarmFails(r)
    PROVE  SearchInv'
<1>1. CASE SearchPooled(r)
  <2>1. Head(cycle) \in Idents
    BY <1>1 DEF SearchPooled, PoolTyped
  <2>2. Submit(r, Head(cycle), "first") /\ UNCHANGED identVars
    BY <1>1 DEF SearchPooled
  <2>3. QED  BY <2>1, <2>2, SubmitKeeps DEF identVars, SearchInv, SearchTyped
<1>2. CASE WarmOnDemand(r)
  <2>1. PICK j \in Jobs :
          /\ job[j] = FreeJob
          /\ job' = [job EXCEPT ![j].state = "warming", ![j].owner = r]
          /\ req' = [req EXCEPT ![r].state = "warming", ![r].job = j]
    BY <1>2 DEF WarmOnDemand
  <2> DEFINE d == [FreeJob EXCEPT !.state = "warming", !.owner = r]
             q == [req[r] EXCEPT !.state = "warming", !.job = j]
  <2>2. d \in JobRecord /\ d.owner = r /\ d.state = "warming"
    BY Records DEF FreeJob, JobRecord, JobStates
  <2>3. q \in ReqRecord /\ q.job = j
    BY DEF SearchInv, SearchTyped, ReqRecord
  <2>4. job' = [job EXCEPT ![j] = d] /\ req' = [req EXCEPT ![r] = q] /\ UNCHANGED identVars
    <3>1. job \in [Jobs -> JobRecord] /\ req \in [Requests -> ReqRecord]
      BY DEF SearchInv, SearchTyped
    <3>2. job' = [job EXCEPT ![j] = d]
      BY <2>1, <3>1
    <3>3. req' = [req EXCEPT ![r] = q]
      BY <2>1, <3>1
    <3>4. QED  BY <1>2, <3>2, <3>3 DEF WarmOnDemand
  <2>5. job[j].owner = Nobody /\ job[j].state = "free"
    BY <2>1 DEF FreeJob
  <2> HIDE DEF d, q
  <2>6. QED  BY <2>2, <2>3, <2>4, <2>5, OutsideSessions DEF InSession, WithIdent
<1>3. CASE SearchWarmed(r)
  <2> DEFINE j == req[r].job
             d == [job[j] EXCEPT !.state = "queued"]
             q == [req[r] EXCEPT !.state = "first", !.ident = job[j].ident]
  <2>1. j \in Jobs /\ job[j].owner = r /\ job[j] \in JobRecord /\ job[j].state = "data"
    BY <1>3, Served DEF SearchWarmed, Waits, SearchInv
  <2>2. job[j].ident \in Idents
    BY <2>1 DEF SearchInv, SearchTyped, WithIdent
  <2>3. d \in JobRecord /\ d.owner = r /\ d.state = "queued" /\ d.ident \in Idents
    BY <2>1, <2>2 DEF JobRecord, JobStates
  <2>4. q \in ReqRecord /\ q.job = j
    <3>1. req[r] \in ReqRecord
      BY DEF SearchInv, SearchTyped
    <3>2. QED  BY <2>2, <3>1 DEF ReqRecord
  <2>5. job' = [job EXCEPT ![j] = d] /\ req' = [req EXCEPT ![r] = q] /\ UNCHANGED identVars
    BY <1>3 DEF SearchWarmed
  <2> HIDE DEF d, q, j
  <2>6. QED  BY <2>1, <2>3, <2>4, <2>5, OutsideSessions DEF InSession
<1>4. CASE WarmFails(r)
  <2> DEFINE j == req[r].job
  <2>1. j \in Jobs /\ job[j].owner = r /\ job[j].state \in {"empty", "raised"}
    BY <1>4, Served DEF WarmFails, Waits, SearchInv
  <2>2. FreeJob.state = "free" /\ IdleReq.state = "idle"
    BY DEF FreeJob, IdleReq
  <2>3. job' = [job EXCEPT ![j] = FreeJob] /\ req' = [req EXCEPT ![r] = IdleReq]
        /\ UNCHANGED identVars
    BY <1>4 DEF WarmFails
  <2> HIDE DEF j
  <2>4. QED  BY <2>1, <2>2, <2>3, Records, OutsideSessions DEF InSession, WithIdent
<1>5. QED  BY <1>1, <1>2, <1>3, <1>4 DEF Search

LEMMA FinishKeeps ==
    ASSUME SearchInv, NEW r \in Requests, Finish(r)
    PROVE  SearchInv'
<1> DEFINE j == req[r].job
<1>1. j \in Jobs /\ job[j].owner = r
  BY Served DEF Finish, Waits, SearchInv
<1>2. /\ job' = [job EXCEPT ![j] = FreeJob] /\ req' = [req EXCEPT ![r] = IdleReq]
      /\ job[j].state \notin InSession /\ UNCHANGED identVars
  BY DEF Finish, InSession
<1> HIDE DEF j
<1>3. FreeJob.state = "free" /\ IdleReq.state = "idle"
  BY DEF FreeJob, IdleReq
<1>4. QED  BY <1>1, <1>2, <1>3, Records, OutsideSessions DEF InSession, WithIdent

LEMMA EmptyResultKeeps ==
    ASSUME SearchInv, PoolTyped, NEW r \in Requests, EmptyResult(r)
    PROVE  SearchInv'
<1> DEFINE j == req[r].job
           d == [FreeJob EXCEPT !.state = "queued", !.ident = Head(cycle), !.owner = r]
           q == [req[r] EXCEPT !.state = "retry", !.ident = Head(cycle)]
<1>1. j \in Jobs /\ job[j].owner = r /\ job[j].state = "empty" /\ req[r] \in ReqRecord
  BY Served DEF EmptyResult, Waits, SearchInv, SearchTyped
<1>2. /\ lock' = lock /\ stamp' \in [Idents -> 0 .. TokenTtl]
      /\ minted' \in [Idents -> 0 .. TokenTtl] /\ hasToken' \in [Idents -> BOOLEAN]
  <2>1. 0 \in 0 .. TokenTtl
    BY ConstantsAssumption DEF ConstantsAssumption
  <2>2. QED  BY <2>1 DEF EmptyResult, SearchInv, SearchTyped
<1>3. CASE job' = [job EXCEPT ![j] = FreeJob] /\ req' = [req EXCEPT ![r] = IdleReq]
  <2>1. FreeJob.state = "free" /\ IdleReq.state = "idle"
    BY DEF FreeJob, IdleReq
  <2> HIDE DEF j
  <2>2. SearchTyped'
    BY <1>1, <1>2, <1>3, <2>1, Records, OwnMoves DEF SearchInv, WithIdent, InSession
  <2>3. SessionExclusive'
    BY <1>1, <1>2, <1>3, <2>1, StaysOutOrIn DEF InSession
  <2>4. QED  BY <2>2, <2>3 DEF SearchInv
<1>4. CASE /\ cycle # <<>> /\ job' = [job EXCEPT ![j] = d]
           /\ req' = [req EXCEPT ![r].state = "retry", ![r].ident = Head(cycle)]
  <2>1. Head(cycle) \in Idents
    BY <1>4 DEF PoolTyped
  <2>2. d \in JobRecord /\ d.owner = r /\ d.ident \in Idents /\ d.state = "queued"
    BY <2>1, Records DEF FreeJob, JobRecord, JobStates
  <2>3. q \in ReqRecord /\ q.job = j /\ req' = [req EXCEPT ![r] = q]
    BY <1>1, <1>4, <2>1 DEF ReqRecord
  <2> HIDE DEF j, d, q
  <2>4. SearchTyped'
    BY <1>1, <1>2, <1>4, <2>2, <2>3, OwnMoves DEF SearchInv
  <2>5. SessionExclusive'
    BY <1>1, <1>2, <1>4, <2>2, StaysOutOrIn DEF InSession
  <2>6. QED  BY <2>4, <2>5 DEF SearchInv
<1>5. QED  BY <1>3, <1>4 DEF EmptyResult

\* wait_for gives up: a thread that has its session keeps it.
LEMMA TimesOutKeeps ==
    ASSUME SearchInv, NEW r \in Requests, TimesOut(r)
    PROVE  SearchInv'
<1> DEFINE j == req[r].job
           d == IF job[j].state = "queued" THEN FreeJob ELSE [job[j] EXCEPT !.owner = Nobody]
<1>1. j \in Jobs /\ job[j].owner = r /\ job[j] \in JobRecord
  BY Served DEF TimesOut, Bounded, Waits, SearchInv
<1>2. d \in JobRecord /\ (d.state \in WithIdent => d.ident \in Idents)
      /\ (d.state \in InSession <=> job[j].state \in InSession)
      /\ (d.state \in InSession => d.ident = job[j].ident)
  BY <1>1, Records DEF JobRecord, FreeJob, InSession, SearchInv, SearchTyped, WithIdent
<1>3. job' = [job EXCEPT ![j] = d] /\ req' = [req EXCEPT ![r] = IdleReq] /\ UNCHANGED identVars
  BY DEF TimesOut
<1>4. IdleReq.state = "idle"
  BY DEF IdleReq
<1> HIDE DEF j, d
<1>5. SearchTyped'
  BY <1>1, <1>2, <1>3, <1>4, Records, OwnMoves DEF SearchInv, SearchTyped, identVars
<1>6. SessionExclusive'
  BY <1>1, <1>2, <1>3, StaysOutOrIn DEF identVars
<1>7. QED  BY <1>5, <1>6 DEF SearchInv

-----------------------------------------------------------------------------
(* The steps of a thread.                                                      *)

\* A warm-up on demand ends: its job outside sessions gets an identity, or none.
LEMMA WarmsKeeps ==
    ASSUME SearchInv, NEW j \in Jobs, Warms(j) \/ WarmsNone(j)
    PROVE  SearchInv'
<1>1. PICK i \in Idents \cup {Nobody}, result \in {"data", "empty", "raised"} :
        /\ job' = [job EXCEPT ![j] = [job[j] EXCEPT !.state = result, !.ident = i]]
        /\ result = "data" => i \in Idents
  <2>1. CASE Warms(j)
    <3>1. PICK i \in Unused : job' = [job EXCEPT ![j].state = "data", ![j].ident = i]
      BY <2>1 DEF Warms
    <3>2. i \in Idents
      BY DEF Unused
    <3>3. job' = [job EXCEPT ![j] = [job[j] EXCEPT !.state = "data", !.ident = i]]
      BY <3>1
    <3>4. QED  BY <3>2, <3>3
  <2>2. CASE WarmsNone(j)
    <3>1. PICK result \in {"empty", "raised"} : job' = [job EXCEPT ![j].state = result]
      BY <2>2 DEF WarmsNone
    <3>2. job[j].ident \in Idents \cup {Nobody}
      BY DEF SearchInv, SearchTyped, JobRecord
    <3>3. job' = [job EXCEPT ![j] = [job[j] EXCEPT !.state = result, !.ident = job[j].ident]]
      BY <3>1 DEF SearchInv, SearchTyped, JobRecord
    <3>4. QED  BY <3>2, <3>3
  <2>3. QED  BY <2>1, <2>2
<1> DEFINE d == [job[j] EXCEPT !.state = result, !.ident = i]
<1>2. d \in JobRecord /\ d.owner = job[j].owner /\ d.state = result /\ d.ident = i
  <2>1. job[j] \in JobRecord
    BY DEF SearchInv, SearchTyped
  <2>2. result \in JobStates
    BY DEF JobStates
  <2>3. QED  BY <2>1, <2>2 DEF JobRecord
<1>3. job[j].state = "warming" /\ req' = req
  BY DEF Warms, WarmsNone
<1>4. /\ lock' = lock /\ stamp' \in [Idents -> 0 .. TokenTtl]
      /\ minted' \in [Idents -> 0 .. TokenTtl] /\ hasToken' \in [Idents -> BOOLEAN]
  <2>1. CASE Warms(j)
    <3>1. PICK new \in Unused : NewIdentities({new}, 0)
      BY <2>1 DEF Warms
    <3>2. {new} \in SUBSET Idents
      BY DEF Unused
    <3>3. QED  BY <3>1, <3>2, NewTyped DEF SearchInv
  <2>2. CASE WarmsNone(j)
    BY <2>2 DEF WarmsNone, identVars, SearchInv, SearchTyped
  <2>3. QED  BY <2>1, <2>2
<1>5. job' = [job EXCEPT ![j] = d] /\ (d.state \in WithIdent => d.ident \in Idents)
  BY <1>1, <1>2 DEF WithIdent, InSession
<1> HIDE DEF d
<1>6. SearchTyped'
  BY <1>2, <1>3, <1>4, <1>5, ThreadMoves DEF SearchInv, SearchTyped
<1>7. SessionExclusive'
  BY <1>2, <1>3, <1>4, <1>5, StaysOutOrIn DEF InSession
<1>8. QED  BY <1>6, <1>7 DEF SearchInv

LEMMA StartsKeeps ==
    ASSUME SearchInv, NEW j \in Jobs, Starts(j) \/ TakesToken(j) \/ MintsToken(j)
    PROVE  SearchInv'
<1>1. job[j] \in JobRecord /\ 0 \in 0 .. TokenTtl /\ TokenTtl \in 0 .. TokenTtl
  BY ConstantsAssumption DEF ConstantsAssumption, SearchInv, SearchTyped
<1>2. PICK state \in {"locking", "search"}, token \in {"none", "reused", "fresh"},
           age \in 0 .. TokenTtl :
        /\ job' = [job EXCEPT ![j] = [job[j] EXCEPT !.state = state, !.token = token, !.age = age]]
        /\ state \in InSession <=> job[j].state \in InSession
        /\ job[j].state \in WithIdent
  <2>1. CASE Starts(j)
    <3>1. job' = [job EXCEPT ![j] = [job[j] EXCEPT !.state = "locking", !.token = job[j].token,
                                                   !.age = job[j].age]]
      BY <1>1, <2>1 DEF Starts, JobRecord
    <3>2. job[j].token \in {"none", "reused", "fresh"} /\ job[j].age \in 0 .. TokenTtl
      BY <1>1 DEF JobRecord
    <3>3. job[j].state = "queued"
      BY <2>1 DEF Starts
    <3>4. QED  BY <3>1, <3>2, <3>3 DEF InSession, WithIdent
  <2>2. CASE TakesToken(j)
    <3>1. minted[job[j].ident] \in 0 .. TokenTtl
      BY <2>2 DEF TakesToken, SearchInv, SearchTyped, WithIdent, InSession
    <3>2. job' = [job EXCEPT ![j] = [job[j] EXCEPT !.state = "search", !.token = "reused",
                                                   !.age = minted[job[j].ident]]]
      BY <2>2 DEF TakesToken
    <3>3. job[j].state = "locked"
      BY <2>2 DEF TakesToken
    <3>4. QED  BY <3>1, <3>2, <3>3 DEF InSession, WithIdent
  <2>3. CASE MintsToken(j)
    <3>1. PICK token \in {"fresh", "none"} :
            job' = [job EXCEPT ![j] = [job[j] EXCEPT !.state = "search", !.token = token,
                                                     !.age = 0]]
      BY <2>3 DEF MintsToken
    <3>2. job[j].state = "locked"
      BY <2>3 DEF MintsToken
    <3>3. QED  BY <1>1, <3>1, <3>2 DEF InSession, WithIdent
  <2>4. QED  BY <2>1, <2>2, <2>3
<1> DEFINE d == [job[j] EXCEPT !.state = state, !.token = token, !.age = age]
<1>3. d \in JobRecord /\ d.owner = job[j].owner /\ d.ident = job[j].ident /\ d.state = state
  BY <1>1 DEF JobRecord, JobStates, InSession
<1>4. d.ident \in Idents
  BY <1>2, <1>3 DEF SearchInv, SearchTyped
<1>5. /\ req' = req /\ lock' = lock /\ lock' \in [Idents -> Jobs \cup {Nobody}]
      /\ hasToken' \in [Idents -> BOOLEAN]
  BY DEF Starts, TakesToken, MintsToken, identVars, SearchInv, SearchTyped
<1>6. stamp' \in [Idents -> 0 .. TokenTtl] /\ minted' \in [Idents -> 0 .. TokenTtl]
  BY <1>1 DEF Starts, TakesToken, MintsToken, identVars, SearchInv, SearchTyped
<1>7. job' = [job EXCEPT ![j] = d]
  BY <1>2
<1> HIDE DEF d
<1>8. SearchTyped'
  BY <1>3, <1>4, <1>5, <1>6, <1>7, ThreadMoves DEF SearchInv
<1>9. SessionExclusive'
  BY <1>2, <1>3, <1>5, <1>7, StaysOutOrIn
<1>10. QED  BY <1>8, <1>9 DEF SearchInv

\* with ident.lock: the session becomes the thread's own.
LEMMA LocksKeeps ==
    ASSUME SearchInv, NEW j \in Jobs, Locks(j)
    PROVE  SearchInv'
<1> DEFINE d == [job[j] EXCEPT !.state = "locked"]
           i == job[j].ident
<1>1. /\ job[j] \in JobRecord /\ job[j].state = "locking" /\ i \in Idents
      /\ lock[i] = Nobody /\ Nobody \notin Jobs
  BY ConstantsAssumption DEF ConstantsAssumption, Locks, LockIsFree, SearchInv, SearchTyped, WithIdent, InSession
<1>2. d \in JobRecord /\ d.owner = job[j].owner /\ d.ident = i /\ d.state = "locked"
  BY <1>1 DEF JobRecord, JobStates, InSession
<1>3. job' = [job EXCEPT ![j] = d] /\ lock' = [lock EXCEPT ![i] = j]
      /\ UNCHANGED <<cycle, hasToken, stamp, minted, warmed, req>>
  BY DEF Locks
<1> HIDE DEF d, i
<1>4. lock' \in [Idents -> Jobs \cup {Nobody}]
  BY <1>1, <1>3 DEF SearchInv, SearchTyped
<1>5. SearchTyped'
  BY <1>1, <1>2, <1>3, <1>4, ThreadMoves DEF SearchInv, SearchTyped
<1>6. job' \in [Jobs -> JobRecord] /\ job'[j] = d /\ \A k \in Jobs \ {j} : job'[k] = job[k]
  BY <1>2, <1>3 DEF SearchInv, SearchTyped
<1>7. lock'[i] = j /\ \A h \in Idents \ {i} : lock'[h] = lock[h]
  BY <1>1, <1>3 DEF SearchInv, SearchTyped
<1>8. ASSUME NEW k \in Jobs, job'[k].state \in InSession
      PROVE  lock'[job'[k].ident] = k
  <2>1. CASE k = j
    BY <1>2, <1>6, <1>7, <2>1
  <2>2. CASE k # j
    <3>1. job[k].state \in InSession /\ job[k].ident \in Idents /\ lock[job[k].ident] = k
      BY <1>6, <1>8, <2>2 DEF SearchInv, SearchTyped, SessionExclusive, InSession, WithIdent
    <3>2. QED  BY <1>1, <1>6, <1>7, <2>2, <3>1
  <2>3. QED  BY <2>1, <2>2
<1>9. ASSUME NEW h \in Idents, lock'[h] # Nobody
      PROVE  job'[lock'[h]].state \in InSession /\ job'[lock'[h]].ident = h
  <2>1. CASE h = i
    BY <1>2, <1>6, <1>7, <2>1 DEF InSession
  <2>2. CASE h # i
    <3>1. lock[h] \in Jobs /\ job[lock[h]].state \in InSession /\ job[lock[h]].ident = h
      BY <1>7, <1>9, <2>2 DEF SearchInv, SearchTyped, SessionExclusive
    <3>2. lock[h] # j
      BY <1>1, <3>1 DEF InSession
    <3>3. QED  BY <1>6, <1>7, <2>2, <3>1, <3>2
  <2>3. QED  BY <2>1, <2>2
<1>10. QED  BY <1>5, <1>8, <1>9 DEF SearchInv, SessionExclusive

\* The search has returned, or raised: the lock goes back either way.
LEMMA EndedTyped ==
    ASSUME SearchTyped, NEW j \in Jobs, job[j].state = "search",
           NEW result \in {"data", "empty", "raised"}
    PROVE  /\ Ended(j, result) \in JobRecord /\ Ended(j, result).owner = job[j].owner
           /\ Ended(j, result).state \notin InSession
           /\ Ended(j, result).state \in WithIdent => Ended(j, result).ident \in Idents
<1>1. job[j] \in JobRecord /\ job[j].ident \in Idents
  BY DEF SearchTyped, WithIdent, InSession
<1>2. CASE job[j].owner = Nobody
  BY <1>2, Records DEF Ended, FreeJob, InSession, WithIdent
<1>3. CASE job[j].owner # Nobody
  BY <1>1, <1>3 DEF Ended, JobRecord, JobStates, InSession
<1>4. QED  BY <1>2, <1>3

LEMMA ReturnsKeeps ==
    ASSUME SearchInv, NEW j \in Jobs, NEW result \in {"data", "empty", "raised"},
           Returns(j, result) \/ (result = "raised" /\ Raises(j))
    PROVE  SearchInv'
<1> DEFINE d == Ended(j, result)
<1>1. /\ job' = [job EXCEPT ![j] = d] /\ req' = req /\ job[j].state = "search"
      /\ lock' = [lock EXCEPT ![job[j].ident] = Nobody]
  BY DEF Returns, Raises, Unlocked
<1>2. job[j] \in JobRecord /\ job[j].age \in 0 .. TokenTtl /\ 0 \in 0 .. TokenTtl
  BY ConstantsAssumption DEF ConstantsAssumption, SearchInv, SearchTyped, JobRecord
<1>3. /\ stamp' \in [Idents -> 0 .. TokenTtl] /\ minted' \in [Idents -> 0 .. TokenTtl]
      /\ hasToken' \in [Idents -> BOOLEAN]
  <2> DEFINE i == job[j].ident
  <2>1. CASE UNCHANGED <<hasToken, stamp, minted>>
    BY <2>1 DEF SearchInv, SearchTyped
  <2>2. CASE /\ hasToken' = [hasToken EXCEPT ![i] = TRUE]
             /\ stamp' = [stamp EXCEPT ![i] = 0] /\ minted' = [minted EXCEPT ![i] = job[j].age]
    BY <1>2, <2>2 DEF SearchInv, SearchTyped
  <2>3. QED  BY <2>1, <2>2 DEF Returns, Raises
<1>4. d \in JobRecord /\ d.owner = job[j].owner /\ d.state \notin InSession
      /\ (d.state \in WithIdent => d.ident \in Idents)
  BY <1>1, EndedTyped DEF SearchInv
<1> HIDE DEF d
<1>5. SearchTyped'
  <2>1. lock' \in [Idents -> Jobs \cup {Nobody}]
    BY <1>1 DEF SearchInv, SearchTyped
  <2>2. QED  BY <1>1, <1>3, <1>4, <2>1, ThreadMoves DEF SearchInv
<1>6. SessionExclusive'
  BY <1>1, <1>4, LeavesSession DEF InSession
<1>7. QED  BY <1>5, <1>6 DEF SearchInv

-----------------------------------------------------------------------------
(* The refresher, and time.                                                    *)

\* Whatever does not touch threads, requests and locks leaves the searches alone.
LEMMA SearchesUntouched ==
    ASSUME SearchInv, UNCHANGED <<job, req, lock>>, hasToken' \in [Idents -> BOOLEAN],
           stamp' \in [Idents -> 0 .. TokenTtl], minted' \in [Idents -> 0 .. TokenTtl]
    PROVE  SearchInv'
  BY DEF SearchInv, SearchTyped, SessionExclusive, Waits

LEMMA TickKeepsSearches ==
    ASSUME SearchInv, Tick
    PROVE  SearchInv'
<1>1. UNCHANGED <<req, lock, hasToken>> /\ 0 \in 0 .. TokenTtl
  BY ConstantsAssumption DEF ConstantsAssumption, Tick
<1>2. stamp' \in [Idents -> 0 .. TokenTtl] /\ minted' \in [Idents -> 0 .. TokenTtl]
  BY <1>1, Records DEF Tick, SearchInv, SearchTyped
<1>3. ASSUME NEW j \in Jobs
      PROVE  /\ job'[j] \in JobRecord /\ job'[j].state = job[j].state
             /\ job'[j].ident = job[j].ident /\ job'[j].owner = job[j].owner
  <2>1. job[j] \in JobRecord /\ job[j].age \in 0 .. TokenTtl
    BY DEF SearchInv, SearchTyped, JobRecord
  <2>2. job'[j] = IF job[j].state = "search"
                  THEN [job[j] EXCEPT !.age = Older(job[j].age, TokenTtl)] ELSE job[j]
    BY DEF Tick
  <2>3. Older(job[j].age, TokenTtl) \in 0 .. TokenTtl
    BY <2>1, Records
  <2>4. QED  BY <2>1, <2>2, <2>3 DEF JobRecord
<1>4. job' = [j \in Jobs |-> job'[j]]
  BY DEF Tick
<1>5. SearchTyped'
  BY <1>1, <1>2, <1>3, <1>4 DEF SearchInv, SearchTyped, Waits
<1>6. SessionExclusive'
  BY <1>1, <1>3 DEF SearchInv, SearchTyped, SessionExclusive
<1>7. QED  BY <1>5, <1>6 DEF SearchInv

\* A refresh puts only identities it has warmed into the pool, at most a pool full.
LEMMA PoolOfGood ==
    ASSUME NEW good \in SUBSET Idents, Cardinality(good) <= PoolSize
    PROVE  /\ NewPool(good) \in Seq(Idents) /\ Len(NewPool(good)) <= PoolSize
           /\ \A n \in DOMAIN NewPool(good) : NewPool(good)[n] \in good
<1> DEFINE size == Cardinality(good)
<1>1. IsFiniteSet(good)
  BY FS_Subset, ConstantsAssumption DEF ConstantsAssumption
<1>2. size \in Nat /\ ExistsBijection(1 .. size, good)
  BY <1>1, FS_CardinalityType
<1>3. \E f \in [1 .. size -> good] : IsInjective(f)
  BY <1>2 DEF ExistsBijection, Bijection, Injection
<1>4. NewPool(good) \in [1 .. size -> good]
  BY <1>3 DEF NewPool, SetToSeq
<1> HIDE DEF size
<1>5. NewPool(good) \in Seq(good)
  BY <1>2, <1>4, SeqDef
<1>6. NewPool(good) \in Seq(Idents) /\ Len(NewPool(good)) = size
  BY <1>2, <1>4, <1>5
<1>7. QED  BY <1>4, <1>5, <1>6 DEF size

\* The pool only comes round: the same identities, none of them warmed meanwhile.
LEMMA PoolComesRound ==
    ASSUME PoolTyped, AgesInv, UNCHANGED <<phase, timer, raised>>,
           cycle' = cycle \/ (cycle # <<>> /\ cycle' = Append(Tail(cycle), Head(cycle))),
           warmed' \in [Idents -> 0 .. Window],
           \A i \in Idents : warmed'[i] = warmed[i] \/ warmed'[i] = 0
    PROVE  PoolTyped' /\ AgesInv'
<1>1. /\ cycle' \in Seq(Idents) /\ Len(cycle') = Len(cycle) /\ (cycle = <<>> => cycle' = <<>>)
      /\ \A n \in DOMAIN cycle' : cycle'[n] \in Idents /\ \E m \in DOMAIN cycle : cycle'[n] = cycle[m]
  <2>1. CASE cycle' = cycle
    BY <2>1 DEF PoolTyped
  <2>2. CASE cycle # <<>> /\ cycle' = Append(Tail(cycle), Head(cycle))
    <3>1. cycle \in Seq(Idents) /\ Len(cycle) \in Nat \ {0} /\ DOMAIN cycle = 1 .. Len(cycle)
      BY <2>2 DEF PoolTyped
    <3>2. /\ cycle' \in Seq(Idents) /\ Len(cycle') = Len(cycle)
          /\ cycle'[Len(cycle)] = cycle[1]
          /\ \A n \in 1 .. Len(cycle) - 1 : cycle'[n] = cycle[n + 1]
      BY <2>2, <3>1
    <3>3. ASSUME NEW n \in DOMAIN cycle'
          PROVE  cycle'[n] \in Idents /\ \E m \in DOMAIN cycle : cycle'[n] = cycle[m]
      <4>1. n \in 1 .. Len(cycle)
        BY <3>2
      <4>2. CASE n = Len(cycle)
        <5>1. cycle'[n] = cycle[1]
          BY <3>2, <4>2
        <5>2. 1 \in DOMAIN cycle /\ cycle[1] \in Idents
          BY <3>1
        <5>3. QED  BY <5>1, <5>2
      <4>3. CASE n # Len(cycle)
        <5>1. n \in 1 .. Len(cycle) - 1 /\ n + 1 \in 1 .. Len(cycle)
          BY <3>1, <4>1, <4>3
        <5>2. cycle'[n] = cycle[n + 1]
          BY <3>2, <5>1
        <5>3. n + 1 \in DOMAIN cycle /\ cycle[n + 1] \in Idents
          BY <3>1, <5>1
        <5>4. QED  BY <5>2, <5>3
      <4>4. QED  BY <4>2, <4>3
    <3>4. QED  BY <2>2, <3>2, <3>3
  <2>3. QED  BY <2>1, <2>2
<1>2. PoolTyped'
  BY <1>1 DEF PoolTyped
<1>3. AgeBound' = AgeBound /\ AgeBound \in Nat
  BY ConstantsAssumption DEF ConstantsAssumption, AgeBound, PoolTyped
<1>4. ASSUME ~raised, NEW n \in DOMAIN cycle'
      PROVE  warmed'[cycle'[n]] <= AgeBound
  <2>1. PICK m \in DOMAIN cycle : cycle'[n] = cycle[m]
    BY <1>1
  <2>2. warmed[cycle[m]] <= AgeBound /\ cycle[m] \in Idents
    BY <1>1, <1>4, <2>1 DEF AgesInv
  <2>3. QED  BY <1>3, <2>1, <2>2
<1>5. AgesInv'
  BY <1>1, <1>3, <1>4 DEF AgesInv
<1>6. QED  BY <1>2, <1>5

LEMMA RefreshedKeeps ==
    ASSUME SearchInv, PoolTyped, NEW good \in SUBSET Unused, Cardinality(good) <= PoolSize,
           Refreshed(good)
    PROVE  SearchInv' /\ PoolTyped' /\ AgesInv'
<1>1. good \in SUBSET Idents
  BY DEF Unused
<1>2. NewIdentities(good, timer) /\ UNCHANGED <<job, req>>
  BY DEF Refreshed
<1>3. SearchInv'
  BY <1>1, <1>2, NewTyped, SearchesUntouched DEF SearchInv
<1>4. /\ cycle' \in Seq(Idents) /\ Len(cycle') <= PoolSize
      /\ \A n \in DOMAIN cycle' : cycle'[n] \in good
  BY <1>1, PoolOfGood DEF Refreshed
<1>5. MaxWarm \in 0 .. Window /\ Window \in Nat /\ RefreshEvery \in Nat
  BY ConstantsAssumption DEF ConstantsAssumption
<1>6. timer \in 0 .. MaxWarm /\ phase' = "sleeping" /\ timer' = 0 /\ raised' = FALSE
  BY DEF Refreshed, PoolTyped
<1>7. warmed' \in [Idents -> 0 .. Window] /\ \A i \in good : warmed'[i] = timer
  BY <1>1, <1>2, <1>5, <1>6 DEF NewIdentities, PoolTyped
<1>8. PoolTyped'
  <2>1. raised' \in BOOLEAN
    BY <1>6
  <2>2. timer' \in Nat /\ timer' <= RefreshEvery
    BY <1>5, <1>6
  <2>3. phase' = "sleeping"
    BY <1>6
  <2>4. QED  BY <1>4, <1>7, <2>1, <2>2, <2>3 DEF PoolTyped
<1>9. AgesInv'
  BY <1>4, <1>5, <1>6, <1>7 DEF AgesInv, AgeBound
<1>10. QED  BY <1>3, <1>8, <1>9

\* The age an identity may reach does not drop when a refresh begins or raises.
LEMMA RefresherKeeps ==
    ASSUME SearchInv, PoolTyped, AgesInv, RefreshStarts \/ RefreshRaises
    PROVE  SearchInv' /\ PoolTyped' /\ AgesInv'
<1>1. /\ UNCHANGED <<cycle, hasToken, stamp, minted, warmed, lock, job, req>> /\ timer' = 0
  BY DEF RefreshStarts, RefreshRaises, identVars
<1>2. SearchInv'
  BY <1>1 DEF SearchInv, SearchTyped, SessionExclusive, Waits
<1>3. MaxWarm \in Nat /\ RefreshEvery \in Nat
  BY ConstantsAssumption DEF ConstantsAssumption
<1>4. PoolTyped'
  <2>1. phase' \in {"warming", "off", "sleeping"} /\ (phase' = "off" => raised' = TRUE)
    BY DEF RefreshStarts, RefreshRaises
  <2>2. raised' \in BOOLEAN
    BY DEF RefreshStarts, RefreshRaises, PoolTyped
  <2>3. timer' \in Nat /\ timer' <= MaxWarm /\ timer' <= RefreshEvery
    BY <1>1, <1>3
  <2>4. QED  BY <1>1, <2>1, <2>2, <2>3 DEF PoolTyped
<1>5. AgesInv'
  <2>1. CASE RefreshStarts
    <3>1. AgeBound' = AgeBound
      BY <1>1, <1>3, <2>1 DEF RefreshStarts, AgeBound
    <3>2. QED  BY <1>1, <2>1, <3>1 DEF RefreshStarts, AgesInv
  <2>2. CASE RefreshRaises
    BY <2>2 DEF RefreshRaises, AgesInv
  <2>3. QED  BY <2>1, <2>2
<1>6. QED  BY <1>2, <1>4, <1>5

LEMMA TickKeepsPool ==
    ASSUME PoolTyped, AgesInv, Tick
    PROVE  PoolTyped' /\ AgesInv'
<1>1. MaxWarm \in Nat /\ RefreshEvery \in Nat /\ Window \in Nat
  BY ConstantsAssumption DEF ConstantsAssumption
<1>2. UNCHANGED <<cycle, phase, raised>> /\ timer' = IF phase = "off" THEN timer ELSE timer + 1
  BY DEF Tick
<1>3. warmed' \in [Idents -> 0 .. Window] /\ \A i \in Idents : warmed'[i] <= warmed[i] + 1
  <2>1. \A i \in Idents : warmed[i] \in 0 .. Window
    BY DEF PoolTyped
  <2>2. \A i \in Idents : Older(warmed[i], Window) \in 0 .. Window
                          /\ Older(warmed[i], Window) <= warmed[i] + 1
    BY <1>1, <2>1 DEF Older
  <2>3. warmed' = [i \in Idents |-> IF i \in ToSet(cycle) THEN Older(warmed[i], Window) ELSE 0]
    BY DEF Tick
  <2>4. QED  BY <1>1, <2>1, <2>2, <2>3
<1>4. PoolTyped'
  <2>1. phase # "off" => timer < IF phase = "sleeping" THEN RefreshEvery ELSE MaxWarm
    BY DEF Tick
  <2>2. QED  BY <1>1, <1>2, <1>3, <2>1 DEF PoolTyped
<1>5. raised \/ \A n \in DOMAIN cycle : warmed'[cycle[n]] <= AgeBound'
  <2>1. CASE ~raised
    <3>1. phase # "off" /\ AgeBound' = AgeBound + 1 /\ AgeBound \in Nat
      BY <1>1, <1>2, <2>1 DEF PoolTyped, AgeBound
    <3>2. ASSUME NEW n \in DOMAIN cycle
          PROVE  warmed'[cycle[n]] <= AgeBound'
      <4>1. cycle[n] \in Idents
        BY DEF PoolTyped
      <4>2. warmed[cycle[n]] <= AgeBound /\ warmed[cycle[n]] \in Nat
        BY <2>1, <4>1 DEF PoolTyped, AgesInv
      <4>3. warmed'[cycle[n]] <= warmed[cycle[n]] + 1 /\ warmed'[cycle[n]] \in Nat
        BY <1>3, <4>1
      <4>4. QED  BY <3>1, <4>2, <4>3
    <3>3. QED  BY <3>2
  <2>2. QED  BY <2>1
<1>6. AgesInv'
  BY <1>2, <1>5 DEF AgesInv
<1>7. QED  BY <1>4, <1>6

-----------------------------------------------------------------------------
(* The invariant.                                                              *)

Inv == SearchInv /\ PoolTyped /\ AgesInv

LEMMA InvInit == Init => Inv
<1> SUFFICES ASSUME Init
             PROVE  Inv
  OBVIOUS
<1>1. TokenTtl \in 0 .. TokenTtl /\ 0 \in 0 .. TokenTtl /\ 0 \in 0 .. Window
      /\ MaxWarm \in Nat /\ PoolSize \in Nat /\ Nobody \notin Jobs
  BY ConstantsAssumption DEF ConstantsAssumption
<1>2. SearchTyped
  <2>1. FreeJob.state = "free" /\ IdleReq.state = "idle"
    BY DEF FreeJob, IdleReq
  <2>2. QED  BY <1>1, <2>1, Records DEF Init, SearchTyped, Waits, WithIdent, InSession
<1>3. SessionExclusive
  BY DEF Init, SessionExclusive, FreeJob, InSession
<1>4. PoolTyped /\ AgesInv
  <2>1. cycle = <<>> /\ phase = "starting" /\ timer = 0 /\ raised = FALSE
        /\ warmed = [i \in Idents |-> 0]
    BY DEF Init
  <2>2. <<>> \in Seq(Idents) /\ Len(<<>>) = 0 /\ DOMAIN <<>> = {}
    OBVIOUS
  <2>3. raised \in BOOLEAN
    BY <2>1
  <2>4. PoolTyped
    BY <1>1, <2>1, <2>2, <2>3 DEF PoolTyped
  <2>5. AgesInv
    BY <2>1, <2>2 DEF AgesInv
  <2>6. QED  BY <2>4, <2>5
<1>5. QED  BY <1>2, <1>3, <1>4 DEF Inv, SearchInv

LEMMA InvStep == Inv /\ [Next]_vars => Inv'
<1> SUFFICES ASSUME Inv, [Next]_vars
             PROVE  Inv'
  OBVIOUS
<1>1. warmed \in [Idents -> 0 .. Window] /\ 0 \in 0 .. Window
  BY ConstantsAssumption DEF ConstantsAssumption, Inv, PoolTyped
<1>2. ASSUME NEW r \in Requests, Search(r) \/ Proceeds(r)
      PROVE  Inv'
  <2>1. SearchInv'
    BY <1>2, SearchKeeps, FinishKeeps, EmptyResultKeeps, TimesOutKeeps DEF Inv, Proceeds
  <2>2. UNCHANGED refresherVars
    BY <1>2
       DEF Search, SearchPooled, WarmOnDemand, Proceeds, SearchWarmed, WarmFails, Finish,
           EmptyResult, TimesOut
  <2>3. cycle' = cycle \/ (cycle # <<>> /\ cycle' = Append(Tail(cycle), Head(cycle)))
    BY <1>2
       DEF Search, SearchPooled, WarmOnDemand, Proceeds, SearchWarmed, WarmFails, Finish,
           EmptyResult, TimesOut
  <2>4. warmed' = warmed
    BY <1>2
       DEF Search, SearchPooled, WarmOnDemand, Proceeds, SearchWarmed, WarmFails, Finish,
           EmptyResult, TimesOut, identVars
  <2>5. QED  BY <1>1, <2>1, <2>2, <2>3, <2>4, PoolComesRound DEF Inv, refresherVars
<1>3. ASSUME NEW j \in Jobs, Runs(j)
      PROVE  Inv'
  <2>1. SearchInv'
    BY <1>3, WarmsKeeps, StartsKeeps, LocksKeeps, ReturnsKeeps DEF Inv, Runs
  <2>2. UNCHANGED <<cycle, refresherVars>>
    BY <1>3
       DEF Runs, Warms, WarmsNone, Starts, Locks, TakesToken, MintsToken, Returns, Raises,
           identVars
  <2>3. warmed' \in [Idents -> 0 .. Window] /\ \A i \in Idents : warmed'[i] = warmed[i] \/ warmed'[i] = 0
    <3>1. CASE Warms(j)
      <4>1. PICK i \in Unused : NewIdentities({i}, 0)
        BY <3>1 DEF Warms
      <4>2. QED  BY <1>1, <4>1 DEF NewIdentities
    <3>2. CASE ~Warms(j)
      <4>1. warmed' = warmed
        BY <1>3, <3>2
           DEF Runs, WarmsNone, Starts, Locks, TakesToken, MintsToken, Returns, Raises, identVars
      <4>2. QED  BY <1>1, <4>1
    <3>3. QED  BY <3>1, <3>2
  <2>4. QED  BY <2>1, <2>2, <2>3, PoolComesRound DEF Inv, refresherVars
<1>4. CASE Refresher
  BY <1>4, RefreshedKeeps, RefresherKeeps DEF Inv, Refresher
<1>5. CASE Tick
  BY <1>5, TickKeepsSearches, TickKeepsPool DEF Inv
<1>6. CASE UNCHANGED vars
  <2>1. SearchInv'
    BY <1>6 DEF vars, identVars, Inv, SearchInv, SearchTyped, SessionExclusive, Waits
  <2>2. QED  BY <1>1, <1>6, <2>1, PoolComesRound DEF vars, identVars, refresherVars, Inv
<1>7. QED  BY <1>2, <1>3, <1>4, <1>5, <1>6 DEF Next

-----------------------------------------------------------------------------
(* Theorems.                                                                   *)

\* The types of the pool, its requests and its threads.
THEOREM PoolTypes == Spec => []TypeOK
<1>1. Inv => TypeOK
  BY DEF Inv, SearchInv, SearchTyped, PoolTyped, TypeOK, JobRecord, ReqRecord, Waits
<1>2. QED  BY <1>1, InvInit, InvStep, PTL DEF Spec

\* ident.lock and _search_with_identity: whatever times out, raises or is refreshed,
\* a session serves one thread at a time and is left open by those that have ended.
THEOREM SessionsAreExclusive == Spec => []SessionExclusive
<1>1. Inv => SessionExclusive
  BY DEF Inv, SearchInv
<1>2. QED  BY <1>1, InvInit, InvStep, PTL DEF Spec

\* session_pool_refresher: an interval and two warm-ups that fit into the window are
\* enough for the pool never to outlive it, with any number of identities and searches.
THEOREM PoolWithinWindow ==
    ASSUME RefreshEvery + MaxWarm + MaxWarm < Window
    PROVE  Spec => []WithinWindow
<1>1. Inv => WithinWindow
  <2> SUFFICES ASSUME Inv, ~raised, NEW n \in DOMAIN cycle
               PROVE  warmed[cycle[n]] < Window
    BY DEF WithinWindow
  <2>1. MaxWarm \in Nat /\ RefreshEvery \in Nat \ {0} /\ Window \in Nat
    BY ConstantsAssumption DEF ConstantsAssumption
  <2>2. AgeBound < Window /\ AgeBound \in Nat
    <3>1. phase \in {"starting", "sleeping", "warming"}
      BY DEF Inv, PoolTyped
    <3>2. timer \in Nat /\ (phase \in {"starting", "warming"} => timer <= MaxWarm)
          /\ (phase = "sleeping" => timer <= RefreshEvery)
      BY DEF Inv, PoolTyped
    <3>3. phase # "starting"
      BY DEF Inv, AgesInv
    <3>4. QED  BY <2>1, <3>1, <3>2, <3>3 DEF AgeBound
  <2>3. warmed[cycle[n]] <= AgeBound
    BY DEF Inv, AgesInv
  <2>4. warmed[cycle[n]] \in Nat
    <3>1. cycle[n] \in Idents
      BY DEF Inv, PoolTyped
    <3>2. QED  BY <2>1, <3>1 DEF Inv, PoolTyped
  <2>5. QED  BY <2>1, <2>2, <2>3, <2>4
<1>2. QED  BY <1>1, InvInit, InvStep, PTL DEF Spec

-----------------------------------------------------------------------------
(* The generator.                                                              *)

LEMMA AfterWordTypes ==
    ASSUME NEW n
    PROVE  AfterWord(n) \in [state : {"keyed", "copying"}, copied : {0}, added : {0}, next : {0}]
  BY DEF AfterWord, At

LEMMA TypesKept ==
    ASSUME GeneratorTypeOK, [GeneratorNext]_generatorVars
    PROVE  GeneratorTypeOK'
  <1>. USE GeneratorAssumption DEF GeneratorTypeOK
  <1>. DEFINE States == {"idle", "copying", "adding", "reading", "counting", "storing", "keyed"}
  <1>. DEFINE Draw == [state : States, copied : 0 .. Wrap - 1, added : 0 .. Wrap - 1,
                       next : 0 .. Wrap - 1]
  <1>0. 0 \in 0 .. Wrap - 1
    OBVIOUS
  <1>1. ASSUME NEW n PROVE AfterWord(n) \in Draw
    BY <1>0, AfterWordTypes
  <1>2. ASSUME NEW s \in States PROVE At(s) \in Draw
    BY <1>0 DEF At
  <1>3. ASSUME NEW t \in Threads, Begins(t) PROVE GeneratorTypeOK'
    BY <1>2, <1>3 DEF Begins
  <1>4. ASSUME NEW t \in Threads, Copies(t) PROVE GeneratorTypeOK'
    <2>1. draw[t] \in Draw /\ counter \in 0 .. Wrap - 1
      OBVIOUS
    <2>2. [draw[t] EXCEPT !.state = "adding", !.copied = counter] \in Draw
      BY <2>1
    <2>3. draw' = [draw EXCEPT ![t] = [draw[t] EXCEPT !.state = "adding", !.copied = counter]]
      BY <1>4 DEF Copies
    <2> HIDE DEF Draw
    <2>4. draw \in [Threads -> Draw]
      BY DEF Draw
    <2>5. draw' \in [Threads -> Draw]
      BY <2>2, <2>3, <2>4
    <2> QED
      BY <1>4, <2>5 DEF Copies, Draw
  <1>5. ASSUME NEW t \in Threads, Adds(t) PROVE GeneratorTypeOK'
    <2>1. draw[t] \in Draw /\ counter \in 0 .. Wrap - 1
      OBVIOUS
    <2>2. [draw[t] EXCEPT !.state = "reading", !.added = counter] \in Draw
      BY <2>1
    <2>3. draw' = [draw EXCEPT ![t] = [draw[t] EXCEPT !.state = "reading", !.added = counter]]
      BY <1>5 DEF Adds
    <2> HIDE DEF Draw
    <2>4. draw \in [Threads -> Draw]
      BY DEF Draw
    <2>5. draw' \in [Threads -> Draw]
      BY <2>2, <2>3, <2>4
    <2> QED
      BY <1>5, <2>5 DEF Adds, Draw
  <1>6. ASSUME NEW t \in Threads, Reads(t) PROVE GeneratorTypeOK'
    <2>1. [copied |-> draw[t].copied, added |-> draw[t].added, at |-> index] \in Words
      BY DEF Words
    <2>2. key' \in [Threads -> Seq(Words)]
      BY <1>6, <2>1 DEF Reads
    <2>3. index' \in Nat
      BY <1>6 DEF Reads, HeldIndex
    <2>4. draw' \in [Threads -> Draw]
      <3>1. AfterWord(Len(key[t]) + 1) \in Draw /\ At("counting") \in Draw
        BY <1>1, <1>2
      <3>2. \/ draw' = [draw EXCEPT ![t] = At("counting")]
            \/ draw' = [draw EXCEPT ![t] = AfterWord(Len(key[t]) + 1)]
        BY <1>6 DEF Reads
      <3>. HIDE DEF Draw
      <3>3. draw \in [Threads -> Draw]
        BY DEF Draw
      <3>. QED
        BY <3>1, <3>2, <3>3
    <2>. QED
      BY <1>6, <2>2, <2>3, <2>4 DEF Reads
  <1>7. ASSUME NEW t \in Threads, Increments(t) PROVE GeneratorTypeOK'
    <2>1. Successor(counter) \in 0 .. Wrap - 1
      BY DEF Successor
    <2>2. [draw[t] EXCEPT !.state = "storing", !.next = Successor(counter)] \in Draw
      BY <2>1
    <2>3. draw' = [draw EXCEPT ![t] = [draw[t] EXCEPT !.state = "storing",
                                                      !.next = Successor(counter)]]
      BY <1>7 DEF Increments
    <2> HIDE DEF Draw
    <2>4. draw \in [Threads -> Draw]
      BY DEF Draw
    <2>5. draw' \in [Threads -> Draw]
      BY <2>2, <2>3, <2>4
    <2>. QED
      BY <1>7, <2>5 DEF Increments, Draw
  <1>8. ASSUME NEW t \in Threads, Stores(t) PROVE GeneratorTypeOK'
    <2>1. draw' \in [Threads -> Draw]
      <3>1. AfterWord(Len(key[t])) \in Draw
        BY <1>1
      <3> HIDE DEF Draw
      <3>2. draw \in [Threads -> Draw]
        BY DEF Draw
      <3> QED  BY <1>8, <3>1, <3>2 DEF Stores
    <2>2. counter' \in 0 .. Wrap - 1 /\ index' \in Nat
      BY <1>8 DEF Stores
    <2>. QED
      BY <1>8, <2>1, <2>2 DEF Stores
  <1>9. ASSUME NEW t \in Threads, Keyed(t) PROVE GeneratorTypeOK'
    <2>1. draw' \in [Threads -> Draw]
      BY <1>2, <1>9 DEF Keyed
    <2>2. <<>> \in Seq(Words)
      OBVIOUS
    <2>3. key' \in [Threads -> Seq(Words)]
      BY <1>9, <2>2 DEF Keyed
    <2>. QED
      BY <1>9, <2>1, <2>3 DEF Keyed
  <1>10. CASE UNCHANGED generatorVars
    BY <1>10 DEF generatorVars
  <1>. QED
    BY <1>3, <1>4, <1>5, <1>6, <1>7, <1>8, <1>9, <1>10 DEF GeneratorNext, Draws

\* Every variable of the generator, of the calls and of the keys has its type.
THEOREM GeneratorTypes == GeneratorSpec => []GeneratorTypeOK
  <1>1. GeneratorInit => GeneratorTypeOK
    BY GeneratorAssumption DEF GeneratorInit, GeneratorTypeOK, At
  <1>. QED
    BY <1>1, TypesKept, PTL DEF GeneratorSpec

-----------------------------------------------------------------------------
(* The index.                                                                  *)

LEMMA IndexKept ==
    ASSUME GeneratorTypeOK, IndexInBlock, [GeneratorNext]_generatorVars
    PROVE  IndexInBlock'
  <1>. USE DEF IndexInBlock
  <1>1. ASSUME NEW t \in Threads, Reads(t) PROVE IndexInBlock'
    <2>1. CASE index = Outputs - 1
      BY <1>1, <2>1 DEF Reads, HeldIndex
    <2>2. CASE index # Outputs - 1
      BY <1>1, <2>2, GeneratorAssumption DEF Reads
    <2>. QED
      BY <2>1, <2>2
  <1>2. ASSUME NEW t \in Threads, Stores(t) PROVE IndexInBlock'
    BY <1>2, GeneratorAssumption DEF Stores
  <1>3. ASSUME NEW t \in Threads,
               Begins(t) \/ Copies(t) \/ Adds(t) \/ Increments(t) \/ Keyed(t)
        PROVE  IndexInBlock'
    BY <1>3 DEF Begins, Copies, Adds, Increments, Keyed
  <1>4. CASE UNCHANGED generatorVars
    BY <1>4 DEF generatorVars
  <1>. QED
    BY <1>1, <1>2, <1>3, <1>4 DEF GeneratorNext, Draws

\* However threads come between each other's reads, increments and resets, the words
\* at the index exist: get_X_Gnarly never fails on it (IndexInBlock).
THEOREM IndexStaysInBlock == GeneratorSpec => []IndexInBlock
  <1>1. GeneratorInit => IndexInBlock
    BY GeneratorAssumption DEF GeneratorInit, IndexInBlock
  <1>. QED
    BY <1>1, GeneratorTypes, IndexKept, PTL DEF GeneratorSpec

-----------------------------------------------------------------------------
(* Keys.  The strengthening: a thread has words only while it signs; nobody else  *)
(* signs while an undisturbed one does, so the word it is about to draw is the     *)
(* one at the counter and the index, and that follows the last it has drawn.      *)

Busy(t) == draw[t].state # "idle"

\* No word of a key is torn, and each is followed by the next one.
FromOneRun(words) ==
    /\ \A n \in 1 .. Len(words) : words[n].copied = words[n].added
    /\ \A n \in 1 .. Len(words) - 1 : words[n + 1] = NextWord(words[n])

\* The word that is due at a counter and a place.
Due(c, n) == [copied |-> c, added |-> c, at |-> n]

Alone(t) == \A u \in Threads \ {t} : ~Busy(u)
Empty(t) == key[t] = <<>>

\* What thread t, alone, has of the block.
InStep(t) ==
    LET d == draw[t]
        words == key[t]
    IN  /\ d.state \in {"adding", "reading"} => d.copied = counter
        /\ d.state = "reading" => d.added = counter
        /\ d.state \in {"copying", "adding", "reading"} /\ words # <<>> =>
              NextWord(words[Len(words)]) = Due(counter, index)
        /\ d.state \in {"counting", "storing"} =>
              words # <<>> /\ words[Len(words)] = Due(counter, Outputs - 1)
        /\ d.state = "storing" => d.next = Successor(counter)

KeyInv ==
    /\ GeneratorTypeOK /\ IndexInBlock
    /\ \A t \in Threads : ~Busy(t) => Empty(t)
    /\ \A t \in Threads : alone[t] => FromOneRun(key[t])
    /\ \A t \in Threads : alone[t] /\ Busy(t) => Alone(t) /\ InStep(t)

LEMMA EmptyRuns == FromOneRun(<<>>)
  BY DEF FromOneRun

\* A key stays a run when the word that follows its last one is added.
LEMMA RunsGrow ==
    ASSUME NEW words \in Seq(Words), NEW w \in Words, FromOneRun(words), w.copied = w.added,
           words # <<>> => w = NextWord(words[Len(words)])
    PROVE  FromOneRun(Append(words, w))
  <1>. DEFINE longer == Append(words, w)
  <1>1. Len(longer) = Len(words) + 1 /\ Len(words) \in Nat
    OBVIOUS
  <1>2. \A n \in 1 .. Len(words) : longer[n] = words[n]
    OBVIOUS
  <1>3. longer[Len(words) + 1] = w
    OBVIOUS
  <1>. HIDE DEF longer
  <1>4. ASSUME NEW n \in 1 .. Len(longer) PROVE longer[n].copied = longer[n].added
    <2>1. CASE n = Len(words) + 1
      BY <2>1, <1>3
    <2>2. CASE n \in 1 .. Len(words)
      BY <2>2, <1>2 DEF FromOneRun
    <2>. QED
      BY <2>1, <2>2, <1>1
  <1>5. ASSUME NEW n \in 1 .. Len(longer) - 1 PROVE longer[n + 1] = NextWord(longer[n])
    <2>1. CASE n = Len(words)
      <3>1. words # <<>>
        BY <2>1
      <3>. QED
        BY <3>1, <2>1, <1>1, <1>2, <1>3
    <2>2. CASE n \in 1 .. Len(words) - 1
      <3>1. n + 1 \in 1 .. Len(words) /\ n \in 1 .. Len(words)
        BY <2>2, <1>1
      <3>. QED
        BY <3>1, <2>2, <1>2 DEF FromOneRun
    <2>. QED
      BY <2>1, <2>2, <1>1
  <1>. QED
    BY <1>4, <1>5 DEF FromOneRun, longer

\* The word due after one within a block, and after the last of a block.
LEMMA FollowingWord ==
    ASSUME NEW c \in 0 .. Wrap - 1, NEW n \in 0 .. Outputs - 1
    PROVE  /\ n # Outputs - 1 => NextWord(Due(c, n)) = Due(c, n + 1)
           /\ n = Outputs - 1 => NextWord(Due(c, n)) = Due(Successor(c), 0)
  BY GeneratorAssumption DEF NextWord, Due, Successor

\* What a thread does while it signs is nothing to an undisturbed other, since there is
\* none; what is left to show is its own part.
LEMMA OwnPart ==
    ASSUME KeyInv, GeneratorTypeOK', IndexInBlock', NEW t \in Threads, Busy(t),
           NEW d, NEW words,
           draw' = [draw EXCEPT ![t] = d], key' = [key EXCEPT ![t] = words],
           alone' = alone,
           d.state = "idle" => words = <<>>,
           alone[t] => FromOneRun(words),
           alone[t] /\ d.state # "idle" => InStep(t)'
    PROVE  KeyInv'
  <1>1. \A u \in Threads \ {t} : draw'[u] = draw[u] /\ key'[u] = key[u]
    BY DEF KeyInv, GeneratorTypeOK
  <1>2. draw'[t] = d /\ key'[t] = words
    BY DEF KeyInv, GeneratorTypeOK
  <1>3. ASSUME NEW u \in Threads, ~Busy(u)' PROVE Empty(u)'
    BY <1>1, <1>2, <1>3 DEF KeyInv, Busy, Empty
  <1>4. ASSUME NEW u \in Threads, alone'[u] PROVE FromOneRun(key'[u])
    BY <1>1, <1>2, <1>4 DEF KeyInv
  <1>5. ASSUME NEW u \in Threads, alone'[u], Busy(u)' PROVE Alone(u)' /\ InStep(u)'
    <2>1. CASE u = t
      <3>1. d.state # "idle" /\ alone[t]
        BY <1>2, <1>5, <2>1 DEF Busy
      <3>2. Alone(t)
        BY <3>1 DEF KeyInv
      <3>3. Alone(t)'
        BY <1>1, <3>2 DEF Alone, Busy
      <3>. QED
        BY <2>1, <3>1, <3>3
    <2>2. CASE u # t
      BY <1>1, <1>5, <2>2 DEF KeyInv, Alone, Busy
    <2>. QED
      BY <2>1, <2>2
  <1>. QED
    BY <1>3, <1>4, <1>5 DEF KeyInv

LEMMA KeysKept ==
    ASSUME KeyInv, GeneratorTypeOK', IndexInBlock', [GeneratorNext]_generatorVars
    PROVE  KeyInv'
  <1>0. GeneratorTypeOK /\ IndexInBlock
    BY DEF KeyInv
  <1>1. ASSUME NEW t \in Threads, Begins(t) PROVE KeyInv'
    <2>1. draw'[t] = At("copying") /\ \A u \in Threads \ {t} : draw'[u] = draw[u]
      BY <1>0, <1>1 DEF Begins, GeneratorTypeOK
    <2>2. key' = key /\ key[t] = <<>>
      BY <1>1 DEF Begins, KeyInv, Empty, Busy
    <2>3. ASSUME NEW u \in Threads, ~Busy(u)' PROVE Empty(u)'
      BY <2>1, <2>2, <2>3 DEF KeyInv, Busy, Empty
    <2>4. ASSUME NEW u \in Threads, alone'[u] PROVE FromOneRun(key'[u])
      <3>1. CASE u = t
        BY <2>2, <3>1, EmptyRuns
      <3>2. CASE u # t
        BY <1>1, <2>2, <2>4, <3>2 DEF Begins, KeyInv
      <3>. QED
        BY <3>1, <3>2
    <2>5. ASSUME NEW u \in Threads, alone'[u], Busy(u)' PROVE Alone(u)' /\ InStep(u)'
      <3>1. CASE u = t
        <4>1. Alone(t)'
          BY <1>1, <2>1, <2>5, <3>1 DEF Begins, Alone, Busy
        <4>2. InStep(t)'
          BY <2>1, <2>2 DEF InStep, At
        <4>. QED
          BY <4>1, <4>2, <3>1
      <3>2. CASE u # t
        BY <1>1, <2>1, <2>5, <3>2 DEF Begins, Busy
      <3>. QED
        BY <3>1, <3>2
    <2>. QED
      BY <2>3, <2>4, <2>5 DEF KeyInv
  <1>2. ASSUME NEW t \in Threads, Copies(t) PROVE KeyInv'
    <2>. DEFINE d == [draw[t] EXCEPT !.state = "adding", !.copied = counter]
    <2>1. Busy(t) /\ draw' = [draw EXCEPT ![t] = d] /\ key' = key /\ alone' = alone
          /\ counter' = counter /\ index' = index
      BY <1>0, <1>2 DEF Copies, Busy, GeneratorTypeOK
    <2>2. key' = [key EXCEPT ![t] = key[t]]
      BY <1>0, <2>1 DEF GeneratorTypeOK
    <2>3. d.state = "adding" /\ d.copied = counter
      BY <1>0 DEF GeneratorTypeOK
    <2>4. draw'[t] = d
      BY <1>0, <2>1 DEF GeneratorTypeOK
    <2>5. alone[t] => InStep(t)'
      BY <1>2, <2>1, <2>3, <2>4 DEF Copies, KeyInv, InStep
    <2>. HIDE DEF d
    <2>. QED
      BY <2>1, <2>2, <2>3, <2>5, OwnPart DEF KeyInv
  <1>3. ASSUME NEW t \in Threads, Adds(t) PROVE KeyInv'
    <2>. DEFINE d == [draw[t] EXCEPT !.state = "reading", !.added = counter]
    <2>1. Busy(t) /\ draw' = [draw EXCEPT ![t] = d] /\ key' = key /\ alone' = alone
          /\ counter' = counter /\ index' = index
      BY <1>0, <1>3 DEF Adds, Busy, GeneratorTypeOK
    <2>2. key' = [key EXCEPT ![t] = key[t]]
      BY <1>0, <2>1 DEF GeneratorTypeOK
    <2>3. d.state = "reading" /\ d.added = counter /\ d.copied = draw[t].copied
      BY <1>0 DEF GeneratorTypeOK
    <2>4. draw'[t] = d
      BY <1>0, <2>1 DEF GeneratorTypeOK
    <2>5. alone[t] => InStep(t)
      BY <2>1 DEF KeyInv
    <2>6. alone[t] => InStep(t)'
      BY <1>3, <2>1, <2>3, <2>4, <2>5 DEF Adds, InStep
    <2>. HIDE DEF d
    <2>. QED
      BY <2>1, <2>2, <2>3, <2>6, OwnPart DEF KeyInv
  <1>4. ASSUME NEW t \in Threads, Reads(t) PROVE KeyInv'
    <2>. DEFINE w == [copied |-> draw[t].copied, added |-> draw[t].added, at |-> index]
    <2>. DEFINE d == IF index = Outputs - 1 THEN At("counting") ELSE AfterWord(Len(key[t]) + 1)
    <2>1. Busy(t) /\ draw' = [draw EXCEPT ![t] = d] /\ alone' = alone /\ counter' = counter
          /\ key' = [key EXCEPT ![t] = Append(key[t], w)]
      BY <1>4 DEF Reads, Busy
    <2>2. draw'[t] = d /\ key'[t] = Append(key[t], w)
      BY <1>0, <2>1 DEF GeneratorTypeOK
    <2>3. key[t] \in Seq(Words) /\ w \in Words
      BY <1>0 DEF GeneratorTypeOK, Words, IndexInBlock
    <2>4. d.state \in {"counting", "copying", "keyed"}
      BY AfterWordTypes DEF At, AfterWord
    <2>5. ASSUME alone[t] PROVE FromOneRun(Append(key[t], w)) /\ InStep(t)'
      <3>1. InStep(t) /\ FromOneRun(key[t])
        BY <2>1, <2>5 DEF KeyInv
      <3>2. draw[t].state = "reading"
        BY <1>4 DEF Reads
      <3>3. w = Due(counter, index)
        BY <3>1, <3>2 DEF InStep, Due
      <3>4. key[t] # <<>> => w = NextWord(key[t][Len(key[t])])
        BY <3>1, <3>2, <3>3 DEF InStep
      <3>5. FromOneRun(Append(key[t], w))
        BY <2>3, <3>1, <3>3, <3>4, RunsGrow DEF Due
      <3>6. Append(key[t], w) # <<>>
            /\ Append(key[t], w)[Len(Append(key[t], w))] = Due(counter, index)
        BY <2>3, <3>3
      <3>. HIDE DEF w
      <3>7. CASE index = Outputs - 1
        <4>1. d = At("counting")
          BY <3>7
        <4>2. InStep(t)'
          BY <2>1, <2>2, <3>6, <3>7, <4>1 DEF InStep, At
        <4>. QED
          BY <3>5, <4>2
      <3>8. CASE index # Outputs - 1
        <4>1. index' = index + 1
          BY <1>4, <3>8 DEF Reads
        <4>2. d.state \in {"copying", "keyed"}
          BY <3>8 DEF AfterWord, At
        <4>3. NextWord(Due(counter, index)) = Due(counter, index + 1)
          BY <1>0, <3>8, FollowingWord DEF GeneratorTypeOK, IndexInBlock
        <4>4. draw'[t].state \in {"copying", "keyed"}
          BY <2>2, <4>2
        <4>. HIDE DEF d
        <4>5. InStep(t)'
          BY <2>1, <2>2, <3>6, <4>1, <4>3, <4>4 DEF InStep
        <4>. QED
          BY <3>5, <4>5
      <3>. QED
        BY <3>7, <3>8
    <2>. HIDE DEF d, w
    <2>. QED
      BY <2>1, <2>4, <2>5, OwnPart
  <1>5. ASSUME NEW t \in Threads, Increments(t) PROVE KeyInv'
    <2>. DEFINE d == [draw[t] EXCEPT !.state = "storing", !.next = Successor(counter)]
    <2>1. Busy(t) /\ draw' = [draw EXCEPT ![t] = d] /\ key' = key /\ alone' = alone
          /\ counter' = counter /\ index' = index
      BY <1>0, <1>5 DEF Increments, Busy, GeneratorTypeOK
    <2>2. key' = [key EXCEPT ![t] = key[t]]
      BY <1>0, <2>1 DEF GeneratorTypeOK
    <2>3. d.state = "storing" /\ d.next = Successor(counter)
      BY <1>0 DEF GeneratorTypeOK
    <2>4. draw'[t] = d
      BY <1>0, <2>1 DEF GeneratorTypeOK
    <2>5. alone[t] => InStep(t)
      BY <2>1 DEF KeyInv
    <2>6. alone[t] => InStep(t)'
      BY <1>5, <2>1, <2>3, <2>4, <2>5 DEF Increments, InStep
    <2>. HIDE DEF d
    <2>. QED
      BY <2>1, <2>2, <2>3, <2>6, OwnPart DEF KeyInv
  <1>6. ASSUME NEW t \in Threads, Stores(t) PROVE KeyInv'
    <2>. DEFINE d == AfterWord(Len(key[t]))
    <2>1. Busy(t) /\ draw' = [draw EXCEPT ![t] = d] /\ key' = key /\ alone' = alone
          /\ counter' = draw[t].next /\ index' = 0
      BY <1>6 DEF Stores, Busy
    <2>2. key' = [key EXCEPT ![t] = key[t]]
      BY <1>0, <2>1 DEF GeneratorTypeOK
    <2>3. d.state \in {"copying", "keyed"}
      BY DEF AfterWord, At
    <2>4. draw'[t] = d
      BY <1>0, <2>1 DEF GeneratorTypeOK
    <2>5. ASSUME alone[t] PROVE InStep(t)'
      <3>1. InStep(t)
        BY <2>1, <2>5 DEF KeyInv
      <3>2. draw[t].state = "storing"
        BY <1>6 DEF Stores
      <3>3. counter' = Successor(counter)
        BY <2>1, <3>1, <3>2 DEF InStep
      <3>4. key[t] # <<>> /\ key[t][Len(key[t])] = Due(counter, Outputs - 1)
        BY <3>1, <3>2 DEF InStep
      <3>5. NextWord(Due(counter, Outputs - 1)) = Due(Successor(counter), 0)
        BY <1>0, GeneratorAssumption, FollowingWord DEF GeneratorTypeOK
      <3>. HIDE DEF d
      <3>. QED
        BY <2>1, <2>3, <2>4, <3>3, <3>4, <3>5 DEF InStep
    <2>. HIDE DEF d
    <2>. QED
      BY <2>1, <2>2, <2>3, <2>5, OwnPart DEF KeyInv
  <1>7. ASSUME NEW t \in Threads, Keyed(t) PROVE KeyInv'
    <2>1. Busy(t) /\ draw' = [draw EXCEPT ![t] = At("idle")] /\ alone' = alone
          /\ key' = [key EXCEPT ![t] = <<>>]
      BY <1>7 DEF Keyed, Busy
    <2>2. At("idle").state = "idle"
      BY DEF At
    <2>. QED
      BY <2>1, <2>2, OwnPart, EmptyRuns
  <1>8. CASE UNCHANGED generatorVars
    <2>1. draw' = draw /\ key' = key /\ alone' = alone /\ counter' = counter /\ index' = index
      BY <1>8 DEF generatorVars
    <2>. QED
      BY <2>1 DEF KeyInv, Busy, Empty, Alone, InStep
  <1>. QED
    BY <1>1, <1>2, <1>3, <1>4, <1>5, <1>6, <1>7, <1>8 DEF GeneratorNext, Draws

\* A key that nobody came between is a run of the generator (LoneKeyIsARun).
THEOREM LoneKeysRun == GeneratorSpec => []LoneKeyIsARun
  <1>1. GeneratorInit => KeyInv
    <2>. SUFFICES ASSUME GeneratorInit PROVE KeyInv
      OBVIOUS
    <2>1. GeneratorTypeOK /\ IndexInBlock
      BY GeneratorAssumption DEF GeneratorInit, GeneratorTypeOK, IndexInBlock, At
    <2>2. \A t \in Threads : ~Busy(t) /\ Empty(t)
      BY DEF GeneratorInit, Busy, Empty, At
    <2>3. \A t \in Threads : FromOneRun(key[t])
      BY EmptyRuns DEF GeneratorInit
    <2>. QED
      BY <2>1, <2>2, <2>3 DEF KeyInv
  <1>2. KeyInv => LoneKeyIsARun
    BY DEF KeyInv, FromOneRun, LoneKeyIsARun
  <1>3. KeyInv /\ GeneratorTypeOK' /\ IndexInBlock' /\ [GeneratorNext]_generatorVars => KeyInv'
    BY KeysKept
  <1>. QED
    BY <1>1, <1>2, <1>3, GeneratorTypes, IndexStaysInBlock, PTL DEF GeneratorSpec

-----------------------------------------------------------------------------
(* Sums.                                                                     *)

\* What Sum computes, number by number.
LEMMA SumSteps ==
    ASSUME NEW s \in Seq(Int)
    PROVE  \E f \in [0 .. Len(s) -> Int] :
              /\ f[0] = 0 /\ Sum(s) = f[Len(s)]
              /\ \A n \in 1 .. Len(s) : f[n] = f[n - 1] + s[n]
<1> DEFINE T == Int
           base == 0
           step == [n \in 1 .. Len(s) |-> [t \in T |-> t + s[n]]]
           Def(g) == [n \in 0 .. Len(s) |-> IF n = 0 THEN 0 ELSE g[n - 1] + s[n]]
           upTo == CHOOSE g : g = Def(g)
<1>1. Len(s) \in Nat /\ base \in T /\ step \in [1 .. Len(s) -> [T -> T]]
  OBVIOUS
<1>2. \A n \in 1 .. Len(s), t \in Int : step[n][t] = t + s[n]
  OBVIOUS
<1>3. PICK f \in [0 .. Len(s) -> Int] :
          f[0] = 0 /\ \A n \in 1 .. Len(s) : f[n] = step[n][f[n - 1]]
  <2> HIDE DEF T, base, step
  <2>1. Recursions(T, base, Len(s), step) # {}
    BY <1>1, RecursionExists
  <2> QED BY <2>1 DEF Recursions, T, base
<1>4. ASSUME NEW n \in 1 .. Len(s) PROVE f[n] = f[n - 1] + s[n]
  <2> HIDE DEF step
  <2>1. n - 1 \in 0 .. Len(s)
    BY <1>1
  <2>2. f[n - 1] \in Int
    BY <2>1
  <2> QED BY <1>2, <1>3, <2>2
<1> HIDE DEF step
<1>5. f = Def(f)
  BY <1>3, <1>4
<1>6. upTo = Def(upTo)
  BY <1>5
<1> HIDE DEF upTo
<1>7. upTo[0] = 0 /\ \A n \in 1 .. Len(s) : upTo[n] = upTo[n - 1] + s[n]
  BY <1>1, <1>6
<1> HIDE DEF Def
<1> DEFINE same == {n \in Nat : upTo[n] = f[n]}
<1>8. Len(s) \in same
  <2>1. 0 \in same
    BY <1>3, <1>7
  <2>2. \A n \in 1 .. Len(s) : n - 1 \in same => n \in same
    BY <1>4, <1>7
  <2> HIDE DEF same
  <2> QED BY <1>1, <2>1, <2>2, CountUp
<1>9. upTo[Len(s)] = f[Len(s)]
  BY <1>1, <1>8
<1>10. Sum(s) = upTo[Len(s)]
  BY DEF Sum, upTo, Def
<1> QED BY <1>3, <1>4, <1>9, <1>10

\* Sums of what stands behind each other add up.
LEMMA SumOfTwo ==
    ASSUME NEW s \in Seq(Int), NEW t \in Seq(Int)
    PROVE  Sum(s \o t) = Sum(s) + Sum(t) /\ Sum(s) \in Int
<1> DEFINE r == s \o t
<1>1. /\ r \in Seq(Int) /\ Len(r) = Len(s) + Len(t) /\ Len(s) \in Nat /\ Len(t) \in Nat
      /\ \A n \in 1 .. Len(s) : r[n] = s[n]
      /\ \A n \in 1 .. Len(t) : r[Len(s) + n] = t[n]
  <2>1. Len(s) \in Nat /\ Len(t) \in Nat
    OBVIOUS
  <2> QED BY <2>1, Joined
<1> HIDE DEF r
<1>2. PICK f \in [0 .. Len(s) -> Int] :
         /\ f[0] = 0 /\ Sum(s) = f[Len(s)]
         /\ \A n \in 1 .. Len(s) : f[n] = f[n - 1] + s[n]
  BY SumSteps
<1>3. PICK g \in [0 .. Len(t) -> Int] :
         /\ g[0] = 0 /\ Sum(t) = g[Len(t)]
         /\ \A n \in 1 .. Len(t) : g[n] = g[n - 1] + t[n]
  BY SumSteps
<1>4. PICK h \in [0 .. Len(r) -> Int] :
         /\ h[0] = 0 /\ Sum(r) = h[Len(r)]
         /\ \A n \in 1 .. Len(r) : h[n] = h[n - 1] + r[n]
  BY <1>1, SumSteps
<1>5. h[Len(s)] = f[Len(s)]
  <2> DEFINE same == {n \in Nat : h[n] = f[n]}
  <2>1. 0 \in same
    BY <1>2, <1>4
  <2>2. ASSUME NEW n \in 1 .. Len(s), n - 1 \in same PROVE n \in same
    <3>1. n \in 1 .. Len(r) /\ n \in Nat
      BY <1>1
    <3>2. h[n] = h[n - 1] + s[n] /\ f[n] = f[n - 1] + s[n]
      BY <1>1, <1>2, <1>4, <3>1
    <3> QED BY <2>2, <3>1, <3>2
  <2> HIDE DEF same
  <2>3. Len(s) \in same
    BY <1>1, <2>1, <2>2, CountUp
  <2> QED BY <2>3 DEF same
<1>6. h[Len(s) + Len(t)] = f[Len(s)] + g[Len(t)]
  <2> DEFINE same == {n \in Nat : h[Len(s) + n] = f[Len(s)] + g[n]}
  <2>0. f[Len(s)] \in Int
    <3>1. Len(s) \in 0 .. Len(s)
      BY <1>1
    <3> QED BY <3>1
  <2>1. 0 \in same
    BY <1>1, <1>3, <1>5, <2>0
  <2>2. ASSUME NEW n \in 1 .. Len(t), n - 1 \in same PROVE n \in same
    <3>1. Len(s) + n \in 1 .. Len(r) /\ (Len(s) + n) - 1 = Len(s) + (n - 1) /\ n \in Nat
      BY <1>1
    <3>2. h[Len(s) + n] = h[(Len(s) + n) - 1] + r[Len(s) + n]
      BY <1>4, <3>1
    <3>3. h[Len(s) + n] = h[Len(s) + (n - 1)] + t[n] /\ g[n] = g[n - 1] + t[n]
      BY <1>1, <1>3, <3>1, <3>2
    <3>4. g[n - 1] \in Int /\ t[n] \in Int
      <4>1. n - 1 \in 0 .. Len(t)
        BY <1>1
      <4>2. g[n - 1] \in Int
        BY <4>1
      <4> QED BY <4>2
    <3> QED BY <2>0, <2>2, <3>1, <3>3, <3>4
  <2> HIDE DEF same
  <2>3. Len(t) \in same
    BY <1>1, <2>1, <2>2, CountUp
  <2> QED BY <2>3 DEF same
<1>7. f[Len(s)] \in Int
  <2>1. Len(s) \in 0 .. Len(s)
    BY <1>1
  <2> QED BY <2>1
<1> QED BY <1>1, <1>2, <1>3, <1>4, <1>6, <1>7 DEF r

-----------------------------------------------------------------------------
(* Exclusive or, bit by bit.                                                 *)

\* The bits of a byte make it up again.
LEMMA BitsOfByte ==
    ASSUME NEW a \in Byte
    PROVE  /\ \A k \in 1 .. 8 : Bits(a)[k] \in {0, 1}
           /\ a = Bits(a)[1] + 2 * Bits(a)[2] + 4 * Bits(a)[3] + 8 * Bits(a)[4]
                  + 16 * Bits(a)[5] + 32 * Bits(a)[6] + 64 * Bits(a)[7] + 128 * Bits(a)[8]
<1>1. /\ Bits(a)[1] = a % 2 /\ Bits(a)[2] = (a \div 2) % 2 /\ Bits(a)[3] = (a \div 4) % 2
      /\ Bits(a)[4] = (a \div 8) % 2 /\ Bits(a)[5] = (a \div 16) % 2
      /\ Bits(a)[6] = (a \div 32) % 2 /\ Bits(a)[7] = (a \div 64) % 2
      /\ Bits(a)[8] = (a \div 128) % 2
  BY DEF Bits
<1>2. a \in 0 .. 255
  BY DEF Byte
<1>3. /\ a % 2 = a - 2 * (a \div 2) /\ (a \div 2) % 2 = (a \div 2) - 2 * (a \div 4)
      /\ (a \div 4) % 2 = (a \div 4) - 2 * (a \div 8)
      /\ (a \div 8) % 2 = (a \div 8) - 2 * (a \div 16)
      /\ (a \div 16) % 2 = (a \div 16) - 2 * (a \div 32)
      /\ (a \div 32) % 2 = (a \div 32) - 2 * (a \div 64)
      /\ (a \div 64) % 2 = (a \div 64) - 2 * (a \div 128)
      /\ (a \div 128) % 2 = a \div 128
  BY <1>2
<1>4. \A n \in Int : n % 2 \in {0, 1}
  OBVIOUS
<1>5. \A k \in 1 .. 8 : Bits(a)[k] \in {0, 1}
  BY <1>1, <1>2, <1>4
<1>6. /\ a \div 2 \in Int /\ a \div 4 \in Int /\ a \div 8 \in Int /\ a \div 16 \in Int
      /\ a \div 32 \in Int /\ a \div 64 \in Int /\ a \div 128 \in Int
  BY <1>2
<1>7. Bits(a)[1] \in Int /\ Bits(a)[2] \in Int /\ Bits(a)[3] \in Int /\ Bits(a)[4] \in Int
      /\ Bits(a)[5] \in Int /\ Bits(a)[6] \in Int /\ Bits(a)[7] \in Int /\ Bits(a)[8] \in Int
  BY <1>5
<1> QED BY <1>1, <1>2, <1>3, <1>5, <1>6, <1>7

\* Eight bits make up the byte that has them.
LEMMA ByteOfBits ==
    ASSUME NEW b1 \in {0, 1}, NEW b2 \in {0, 1}, NEW b3 \in {0, 1}, NEW b4 \in {0, 1},
           NEW b5 \in {0, 1}, NEW b6 \in {0, 1}, NEW b7 \in {0, 1}, NEW b8 \in {0, 1},
           NEW v, v = b1 + 2 * b2 + 4 * b3 + 8 * b4 + 16 * b5 + 32 * b6 + 64 * b7 + 128 * b8
    PROVE  /\ v \in Byte
           /\ Bits(v)[1] = b1 /\ Bits(v)[2] = b2 /\ Bits(v)[3] = b3 /\ Bits(v)[4] = b4
           /\ Bits(v)[5] = b5 /\ Bits(v)[6] = b6 /\ Bits(v)[7] = b7 /\ Bits(v)[8] = b8
<1>1. v \in Byte
  BY DEF Byte
<1>2. v % 2 = b1 /\ (v \div 2) % 2 = b2 /\ (v \div 4) % 2 = b3 /\ (v \div 8) % 2 = b4
      /\ (v \div 16) % 2 = b5 /\ (v \div 32) % 2 = b6 /\ (v \div 64) % 2 = b7
      /\ (v \div 128) % 2 = b8
  <2>1. v \div 2 = b2 + 2 * b3 + 4 * b4 + 8 * b5 + 16 * b6 + 32 * b7 + 64 * b8
    OBVIOUS
  <2>2. v \div 4 = b3 + 2 * b4 + 4 * b5 + 8 * b6 + 16 * b7 + 32 * b8
    OBVIOUS
  <2>3. v \div 8 = b4 + 2 * b5 + 4 * b6 + 8 * b7 + 16 * b8
    OBVIOUS
  <2>4. v \div 16 = b5 + 2 * b6 + 4 * b7 + 8 * b8
    OBVIOUS
  <2>5. v \div 32 = b6 + 2 * b7 + 4 * b8
    OBVIOUS
  <2>6. v \div 64 = b7 + 2 * b8
    OBVIOUS
  <2>7. v \div 128 = b8
    OBVIOUS
  <2> QED BY <2>1, <2>2, <2>3, <2>4, <2>5, <2>6, <2>7
<1> QED BY <1>1, <1>2 DEF Bits

\* Two bytes with the same bits are the same.
LEMMA SameBits ==
    ASSUME NEW a \in Byte, NEW b \in Byte, \A k \in 1 .. 8 : Bits(a)[k] = Bits(b)[k]
    PROVE  a = b
<1>1. Bits(a)[1] = Bits(b)[1] /\ Bits(a)[2] = Bits(b)[2] /\ Bits(a)[3] = Bits(b)[3]
      /\ Bits(a)[4] = Bits(b)[4] /\ Bits(a)[5] = Bits(b)[5] /\ Bits(a)[6] = Bits(b)[6]
      /\ Bits(a)[7] = Bits(b)[7] /\ Bits(a)[8] = Bits(b)[8]
  OBVIOUS
<1> QED BY <1>1, BitsOfByte

\* A bit of the combination of two bytes is set when one of theirs is.
LEMMA XorOfBytes ==
    ASSUME NEW a \in Byte, NEW b \in Byte
    PROVE  /\ XorBytes[a][b] \in Byte
           /\ \A k \in 1 .. 8 : Bits(XorBytes[a][b])[k] = (Bits(a)[k] + Bits(b)[k]) % 2
<1> DEFINE differ(k) == (Bits(a)[k] + Bits(b)[k]) % 2
           v == XorBytes[a][b]
<1>1. v = differ(1) + 2 * differ(2) + 4 * differ(3) + 8 * differ(4)
          + 16 * differ(5) + 32 * differ(6) + 64 * differ(7) + 128 * differ(8)
  BY DEF XorBytes
<1>2. \A k \in 1 .. 8 : differ(k) \in {0, 1}
  BY BitsOfByte
<1>3. /\ differ(1) \in {0, 1} /\ differ(2) \in {0, 1} /\ differ(3) \in {0, 1}
      /\ differ(4) \in {0, 1} /\ differ(5) \in {0, 1} /\ differ(6) \in {0, 1}
      /\ differ(7) \in {0, 1} /\ differ(8) \in {0, 1}
  BY <1>2
<1> HIDE DEF differ, v
<1>4. /\ v \in Byte
      /\ Bits(v)[1] = differ(1) /\ Bits(v)[2] = differ(2) /\ Bits(v)[3] = differ(3)
      /\ Bits(v)[4] = differ(4) /\ Bits(v)[5] = differ(5) /\ Bits(v)[6] = differ(6)
      /\ Bits(v)[7] = differ(7) /\ Bits(v)[8] = differ(8)
  BY <1>1, <1>3, ByteOfBits
<1>5. \A k \in 1 .. 8 : Bits(v)[k] = differ(k)
  <2>1. \A k \in 1 .. 8 : k = 1 \/ k = 2 \/ k = 3 \/ k = 4 \/ k = 5 \/ k = 6 \/ k = 7 \/ k = 8
    OBVIOUS
  <2> QED BY <1>4, <2>1
<1> QED BY <1>4, <1>5 DEF v, differ

\* What is combined twice with the same is what it was.
LEMMA XorTwice ==
    ASSUME NEW a \in Byte, NEW b \in Byte
    PROVE  XorBytes[XorBytes[a][b]][b] = a
<1>1. XorBytes[a][b] \in Byte /\ XorBytes[XorBytes[a][b]][b] \in Byte
  BY XorOfBytes
<1>2. ASSUME NEW k \in 1 .. 8
      PROVE  Bits(XorBytes[XorBytes[a][b]][b])[k] = Bits(a)[k]
  <2>1. Bits(XorBytes[XorBytes[a][b]][b])[k]
        = (((Bits(a)[k] + Bits(b)[k]) % 2) + Bits(b)[k]) % 2
    BY <1>1, XorOfBytes
  <2>2. Bits(a)[k] \in {0, 1} /\ Bits(b)[k] \in {0, 1}
    BY BitsOfByte
  <2> QED BY <2>1, <2>2
<1> QED BY <1>1, <1>2, SameBits

\* Of words: a number, and of bytes what it is of bytes.
LEMMA XorOfWords ==
    /\ \A a, b \in Nat : Xor(a, b) \in Nat
    /\ \A a, b \in Byte : Xor(a, b) = XorBytes[a][b]
<1>1. ASSUME NEW a \in Nat, NEW b \in Nat PROVE Xor(a, b) \in Nat
  <2>1. \A n \in Nat : n % 256 \in Byte
    BY DEF Byte
  <2>2. /\ a \div 1 \in Nat /\ a \div 256 \in Nat /\ a \div 65536 \in Nat
        /\ a \div 16777216 \in Nat /\ b \div 1 \in Nat /\ b \div 256 \in Nat
        /\ b \div 65536 \in Nat /\ b \div 16777216 \in Nat
    OBVIOUS
  <2>3. \A x, y \in Nat : XorBytes[x % 256][y % 256] \in Nat
    <3>1. ASSUME NEW x \in Byte, NEW y \in Byte PROVE XorBytes[x][y] \in Nat
      <4>1. XorBytes[x][y] \in Byte
        BY XorOfBytes
      <4> QED BY <4>1 DEF Byte
    <3> QED BY <2>1, <3>1
  <2> DEFINE part(weight) == weight * XorBytes[(a \div weight) % 256][(b \div weight) % 256]
  <2>4. part(1) \in Nat /\ part(256) \in Nat /\ part(65536) \in Nat /\ part(16777216) \in Nat
    <3>1. /\ XorBytes[(a \div 1) % 256][(b \div 1) % 256] \in Nat
          /\ XorBytes[(a \div 256) % 256][(b \div 256) % 256] \in Nat
          /\ XorBytes[(a \div 65536) % 256][(b \div 65536) % 256] \in Nat
          /\ XorBytes[(a \div 16777216) % 256][(b \div 16777216) % 256] \in Nat
      BY <2>2, <2>3
    <3>2. \A n \in Nat : 1 * n \in Nat /\ 256 * n \in Nat /\ 65536 * n \in Nat
                         /\ 16777216 * n \in Nat
      OBVIOUS
    <3> QED BY <3>1, <3>2
  <2>5. Xor(a, b) = part(1) + part(256) + part(65536) + part(16777216)
    BY DEF Xor
  <2> HIDE DEF part
  <2> QED BY <2>4, <2>5
<1>2. ASSUME NEW a \in Byte, NEW b \in Byte PROVE Xor(a, b) = XorBytes[a][b]
  <2>1. \A x \in Byte : /\ (x \div 1) % 256 = x /\ (x \div 256) % 256 = 0
                        /\ (x \div 65536) % 256 = 0 /\ (x \div 16777216) % 256 = 0
    BY DEF Byte
  <2>2. XorBytes[0][0] = 0
    <3>1. 0 \in Byte
      BY DEF Byte
    <3>2. XorBytes[XorBytes[0][0]][0] = 0 /\ XorBytes[0][0] \in Byte
      BY <3>1, XorTwice, XorOfBytes
    <3>3. ASSUME NEW k \in 1 .. 8 PROVE Bits(XorBytes[0][0])[k] = Bits(0)[k]
      <4>1. Bits(XorBytes[0][0])[k] = (Bits(0)[k] + Bits(0)[k]) % 2
        BY <3>1, XorOfBytes
      <4>2. Bits(0)[k] = 0
        BY DEF Bits
      <4> QED BY <4>1, <4>2
    <3> QED BY <3>1, <3>2, <3>3, SameBits
  <2>3. XorBytes[a][b] \in Nat
    <3>1. XorBytes[a][b] \in Byte
      BY XorOfBytes
    <3> QED BY <3>1 DEF Byte
  <2> QED BY <2>1, <2>2, <2>3 DEF Xor
<1> QED BY <1>1, <1>2

-----------------------------------------------------------------------------
(* Three bytes in four digits.                                               *)

Digit == 0 .. 63

\* Three bytes come back from their four digits.
LEMMA DigitsGiveBytes ==
    ASSUME NEW a \in Byte, NEW b \in Byte, NEW c \in Byte
    PROVE  /\ Digits(a, b, c) \in Seq(Digit) /\ Len(Digits(a, b, c)) = 4
           /\ Bytes(Digits(a, b, c)[1], Digits(a, b, c)[2], Digits(a, b, c)[3],
                    Digits(a, b, c)[4]) = <<a, b, c>>
<1> DEFINE d1 == a \div 4
           d2 == (a % 4) * 16 + b \div 16
           d3 == (b % 16) * 4 + c \div 64
           d4 == c % 64
<1>1. a \in 0 .. 255 /\ b \in 0 .. 255 /\ c \in 0 .. 255
  BY DEF Byte
<1>2. /\ d1 \in Digit /\ d2 \in Digit /\ d3 \in Digit /\ d4 \in Digit
  BY <1>1 DEF Digit
<1>3. d2 \div 16 = a % 4 /\ d2 % 16 = b \div 16
  BY <1>1
<1>4. d3 \div 4 = b % 16 /\ d3 % 4 = c \div 64
  BY <1>1
<1>5. a % 4 = a - 4 * (a \div 4) /\ b % 16 = b - 16 * (b \div 16) /\ c % 64 = c - 64 * (c \div 64)
  BY <1>1
<1>6. a \div 4 \in Int /\ b \div 16 \in Int /\ c \div 64 \in Int
  BY <1>1
<1>7. d1 * 4 + d2 \div 16 = a
  BY <1>1, <1>3, <1>5, <1>6
<1>8. (d2 % 16) * 16 + d3 \div 4 = b
  BY <1>1, <1>3, <1>4, <1>5, <1>6
<1>9. (d3 % 4) * 64 + d4 = c
  BY <1>1, <1>4, <1>5, <1>6
<1> HIDE DEF d1, d2, d3, d4
<1>10. Digits(a, b, c) = <<d1, d2, d3, d4>>
  BY DEF Digits, d1, d2, d3, d4
<1>11. Bytes(d1, d2, d3, d4) = <<a, b, c>>
  BY <1>7, <1>8, <1>9 DEF Bytes
<1> QED BY <1>2, <1>10, <1>11

\* Where the digits of an encoding are.
LEMMA DigitsOf ==
    ASSUME NEW bytes \in Seq(Byte)
    PROVE  /\ Encoded(bytes) \in Seq(Digit) /\ Len(Encoded(bytes)) = 4 * (Len(bytes) \div 3)
           /\ \A n \in 1 .. Len(bytes) \div 3, j \in 1 .. 4 :
                 Encoded(bytes)[4 * (n - 1) + j]
                 = Digits(bytes[3 * n - 2], bytes[3 * n - 1], bytes[3 * n])[j]
<1> DEFINE parts == [n \in 1 .. Len(bytes) \div 3 |->
                        Digits(bytes[3 * n - 2], bytes[3 * n - 1], bytes[3 * n])]
<1>1. Len(bytes) \in Nat /\ Len(bytes) \div 3 \in Nat
  OBVIOUS
<1>2. ASSUME NEW n \in 1 .. Len(bytes) \div 3
      PROVE  parts[n] \in Seq(Digit) /\ Len(parts[n]) = 4
  <2>1. 3 * n - 2 \in 1 .. Len(bytes) /\ 3 * n - 1 \in 1 .. Len(bytes)
        /\ 3 * n \in 1 .. Len(bytes)
    BY <1>1
  <2>2. bytes[3 * n - 2] \in Byte /\ bytes[3 * n - 1] \in Byte /\ bytes[3 * n] \in Byte
    BY <2>1
  <2> QED BY <2>2, DigitsGiveBytes
<1>3. parts \in Seq(Seq(Digit)) /\ Len(parts) = Len(bytes) \div 3
  <2> DEFINE T == Seq(Digit)
  <2>1. \A n \in 1 .. Len(bytes) \div 3 : parts[n] \in T
    BY <1>2
  <2> HIDE DEF T
  <2>2. parts \in [1 .. Len(bytes) \div 3 -> T]
    BY <2>1
  <2>3. parts \in Seq(T) /\ Len(parts) = Len(bytes) \div 3
    BY <1>1, <2>2
  <2> QED BY <2>3 DEF T
<1>4. Encoded(bytes) = FlattenSeq(parts)
  BY DEF Encoded
<1>5. \A n \in 1 .. Len(parts) : Len(parts[n]) = 4
  BY <1>2, <1>3
<1> HIDE DEF parts
<1>6. /\ FlattenSeq(parts) \in Seq(Digit) /\ Len(FlattenSeq(parts)) = 4 * Len(parts)
      /\ \A n \in 1 .. Len(parts), j \in 1 .. 4 :
            FlattenSeq(parts)[4 * (n - 1) + j] = parts[n][j]
  BY <1>3, <1>5, FlattenBlocks
<1> QED BY <1>3, <1>4, <1>6 DEF parts

\* Bytes that are a multiple of three come back from their encoding.
LEMMA EncodingOpens ==
    ASSUME NEW bytes \in Seq(Byte), Len(bytes) % 3 = 0
    PROVE  Decoded(Encoded(bytes)) = bytes
<1> DEFINE digits == Encoded(bytes)
           count == Len(bytes) \div 3
           parts == [n \in 1 .. Len(digits) \div 4 |->
                        Bytes(digits[4 * n - 3], digits[4 * n - 2], digits[4 * n - 1],
                              digits[4 * n])]
<1>1. Len(bytes) \in Nat /\ count \in Nat /\ Len(bytes) = 3 * count
  <2>1. Len(bytes) \in Nat
    OBVIOUS
  <2>2. Len(bytes) % 3 = Len(bytes) - 3 * (Len(bytes) \div 3)
    BY <2>1
  <2>3. count \in Nat
    BY <2>1
  <2> QED BY <2>1, <2>2, <2>3
<1>2. /\ Len(digits) = 4 * count
      /\ \A n \in 1 .. count, j \in 1 .. 4 :
            digits[4 * (n - 1) + j] = Digits(bytes[3 * n - 2], bytes[3 * n - 1], bytes[3 * n])[j]
  BY DigitsOf
<1> HIDE DEF digits, count
<1>3. Len(digits) \div 4 = count
  BY <1>1, <1>2
<1>4. ASSUME NEW n \in 1 .. count
      PROVE  parts[n] = <<bytes[3 * n - 2], bytes[3 * n - 1], bytes[3 * n]>>
             /\ parts[n] \in Seq(Byte) /\ Len(parts[n]) = 3
  <2>1. 3 * n - 2 \in 1 .. Len(bytes) /\ 3 * n - 1 \in 1 .. Len(bytes)
        /\ 3 * n \in 1 .. Len(bytes)
    BY <1>1
  <2>2. bytes[3 * n - 2] \in Byte /\ bytes[3 * n - 1] \in Byte /\ bytes[3 * n] \in Byte
    BY <2>1
  <2> DEFINE ds == Digits(bytes[3 * n - 2], bytes[3 * n - 1], bytes[3 * n])
  <2>3. digits[4 * n - 3] = ds[1] /\ digits[4 * n - 2] = ds[2] /\ digits[4 * n - 1] = ds[3]
        /\ digits[4 * n] = ds[4]
    <3>1. 4 * (n - 1) + 1 = 4 * n - 3 /\ 4 * (n - 1) + 2 = 4 * n - 2
          /\ 4 * (n - 1) + 3 = 4 * n - 1 /\ 4 * (n - 1) + 4 = 4 * n
      BY <1>1
    <3>2. digits[4 * (n - 1) + 1] = ds[1] /\ digits[4 * (n - 1) + 2] = ds[2]
          /\ digits[4 * (n - 1) + 3] = ds[3] /\ digits[4 * (n - 1) + 4] = ds[4]
      <4>1. \A j \in 1 .. 4 : digits[4 * (n - 1) + j] = ds[j]
        BY <1>2
      <4> HIDE DEF ds
      <4> QED BY <4>1
    <3> QED BY <3>1, <3>2
  <2>4. parts[n] = Bytes(digits[4 * n - 3], digits[4 * n - 2], digits[4 * n - 1], digits[4 * n])
    BY <1>3
  <2>5. Bytes(ds[1], ds[2], ds[3], ds[4]) = <<bytes[3 * n - 2], bytes[3 * n - 1], bytes[3 * n]>>
    BY <2>2, DigitsGiveBytes
  <2> HIDE DEF ds, parts
  <2>6. parts[n] = <<bytes[3 * n - 2], bytes[3 * n - 1], bytes[3 * n]>>
    BY <2>3, <2>4, <2>5
  <2> QED BY <2>2, <2>6
<1>5. parts \in Seq(Seq(Byte)) /\ Len(parts) = count
  <2> DEFINE T == Seq(Byte)
  <2>1. ASSUME NEW n \in 1 .. count PROVE parts[n] \in T
    <3> HIDE DEF parts
    <3> QED BY <1>4
  <2> HIDE DEF T
  <2>2. parts \in [1 .. count -> T]
    BY <1>3, <2>1
  <2> HIDE DEF parts
  <2>3. parts \in Seq(T) /\ Len(parts) = count
    BY <1>1, <2>2
  <2> QED BY <2>3 DEF T
<1>6. Decoded(digits) = FlattenSeq(parts)
  BY DEF Decoded
<1> HIDE DEF parts
<1>7. \A n \in 1 .. Len(parts) : Len(parts[n]) = 3
  BY <1>4, <1>5
<1>8. /\ FlattenSeq(parts) \in Seq(Byte) /\ Len(FlattenSeq(parts)) = 3 * Len(parts)
      /\ \A n \in 1 .. Len(parts), j \in 1 .. 3 :
            FlattenSeq(parts)[3 * (n - 1) + j] = parts[n][j]
  BY <1>5, <1>7, FlattenBlocks
<1>9. ASSUME NEW i \in 1 .. Len(bytes) PROVE FlattenSeq(parts)[i] = bytes[i]
  <2> DEFINE n == ((i - 1) \div 3) + 1
             j == ((i - 1) % 3) + 1
  <2>1. n \in 1 .. count /\ j \in 1 .. 3 /\ i = 3 * (n - 1) + j
    <3>1. i - 1 \in Nat /\ i - 1 < 3 * count
      BY <1>1
    <3>2. (i - 1) % 3 = (i - 1) - 3 * ((i - 1) \div 3) /\ (i - 1) \div 3 \in Nat
          /\ (i - 1) % 3 \in 0 .. 2
      BY <3>1
    <3> QED BY <1>1, <3>1, <3>2
  <2> HIDE DEF n, j
  <2>2. FlattenSeq(parts)[i] = parts[n][j]
    BY <1>5, <1>8, <2>1
  <2>3. parts[n] = <<bytes[3 * n - 2], bytes[3 * n - 1], bytes[3 * n]>>
    BY <1>4, <2>1
  <2>4. CASE j = 1
    <3>1. i = 3 * n - 2
      BY <2>1, <2>4
    <3> QED BY <2>2, <2>3, <2>4, <3>1
  <2>5. CASE j = 2
    <3>1. i = 3 * n - 1
      BY <2>1, <2>5
    <3> QED BY <2>2, <2>3, <2>5, <3>1
  <2>6. CASE j = 3
    <3>1. i = 3 * n
      BY <2>1, <2>6
    <3> QED BY <2>2, <2>3, <2>6, <3>1
  <2> QED BY <2>1, <2>4, <2>5, <2>6
<1>10. Len(FlattenSeq(parts)) = Len(bytes)
  BY <1>1, <1>5, <1>8
<1>11. FlattenSeq(parts) = bytes
  BY <1>8, <1>9, <1>10, SeqEqual
<1> QED BY <1>6, <1>11 DEF digits

-----------------------------------------------------------------------------
(* The key and what is encrypted with it.                                    *)

\* The bytes of a key.
LEMMA BytesOfKey ==
    ASSUME NEW words \in [1 .. KeyWords -> DrawnWords]
    PROVE  KeyBytes(words) \in Seq(Byte) /\ Len(KeyBytes(words)) = 4 * KeyWords
<1> DEFINE parts == [n \in DOMAIN words |-> WordBytes(words[n])]
<1>1. KeyWords \in Nat /\ DOMAIN words = 1 .. KeyWords
  BY GeneratorAssumption DEF GeneratorAssumption
<1>2. ASSUME NEW n \in 1 .. KeyWords
      PROVE  parts[n] \in Seq(Byte) /\ Len(parts[n]) = 4
  <2>1. words[n] \in DrawnWords
    BY <1>1
  <2>2. WordBytes(words[n]) \in [1 .. 4 -> Byte]
    BY <2>1, CipherAssumption DEF CipherAssumption
  <2>3. parts[n] = WordBytes(words[n])
    BY <1>1
  <2> HIDE DEF parts
  <2>4. \A k \in Nat : \A u \in [1 .. k -> Byte] : u \in Seq(Byte) /\ Len(u) = k
    OBVIOUS
  <2>5. parts[n] \in [1 .. 4 -> Byte] /\ 4 \in Nat
    BY <2>2, <2>3
  <2> QED BY <2>4, <2>5, Zenon
<1>3. parts \in Seq(Seq(Byte)) /\ Len(parts) = KeyWords
  <2> DEFINE T == Seq(Byte)
  <2>1. \A n \in 1 .. KeyWords : parts[n] \in T
    BY <1>2
  <2> HIDE DEF T
  <2>2. parts \in [1 .. KeyWords -> T]
    BY <1>1, <2>1
  <2> HIDE DEF parts
  <2>3. parts \in Seq(T) /\ Len(parts) = KeyWords
    BY <1>1, <2>2
  <2> QED BY <2>3 DEF T
<1>4. KeyBytes(words) = FlattenSeq(parts)
  BY DEF KeyBytes
<1> HIDE DEF parts
<1>5. \A n \in 1 .. Len(parts) : Len(parts[n]) = 4
  BY <1>2, <1>3
<1>6. FlattenSeq(parts) \in Seq(Byte) /\ Len(FlattenSeq(parts)) = 4 * Len(parts)
  BY <1>3, <1>5, FlattenBlocks
<1> QED BY <1>3, <1>4, <1>6

\* Encrypting twice with one key gives back what was encrypted.
LEMMA EncryptedTwice ==
    ASSUME NEW keyBytes, NEW bytes \in Seq(Byte),
           \A block \in 0 .. (Len(bytes) - 1) \div 64 :
              Keystream(keyBytes, Rounds(keyBytes), block) \in [1 .. 64 -> Byte]
    PROVE  /\ Encrypted(keyBytes, bytes) \in Seq(Byte)
           /\ Len(Encrypted(keyBytes, bytes)) = Len(bytes)
           /\ Encrypted(keyBytes, Encrypted(keyBytes, bytes)) = bytes
<1> DEFINE byte(n) == Keystream(keyBytes, Rounds(keyBytes), (n - 1) \div 64)[((n - 1) % 64) + 1]
           once == Encrypted(keyBytes, bytes)
           twice == Encrypted(keyBytes, once)
<1>1. Len(bytes) \in Nat /\ DOMAIN bytes = 1 .. Len(bytes)
  OBVIOUS
<1>2. ASSUME NEW n \in 1 .. Len(bytes) PROVE byte(n) \in Byte
  <2>1. n - 1 \in Nat /\ n - 1 <= Len(bytes) - 1 /\ Len(bytes) - 1 \in Nat
    BY <1>1
  <2>3. \A i, j \in Nat : i <= j => i \div 64 \in 0 .. j \div 64 /\ (i % 64) + 1 \in 1 .. 64
    OBVIOUS
  <2>4. (n - 1) \div 64 \in 0 .. (Len(bytes) - 1) \div 64 /\ ((n - 1) % 64) + 1 \in 1 .. 64
    BY <2>1, <2>3
  <2>2. Keystream(keyBytes, Rounds(keyBytes), (n - 1) \div 64) \in [1 .. 64 -> Byte]
    BY <2>4
  <2> QED BY <2>2, <2>4
<1>3. once = [n \in 1 .. Len(bytes) |-> XorBytes[bytes[n]][byte(n)]]
  BY <1>1 DEF Encrypted
<1> HIDE DEF once
<1>4. ASSUME NEW n \in 1 .. Len(bytes)
      PROVE  bytes[n] \in Byte /\ once[n] \in Byte /\ XorBytes[once[n]][byte(n)] = bytes[n]
  <2> HIDE DEF byte
  <2>1. bytes[n] \in Byte /\ once[n] = XorBytes[bytes[n]][byte(n)]
    BY <1>3
  <2>2. XorBytes[bytes[n]][byte(n)] \in Byte
    BY <1>2, <2>1, XorOfBytes
  <2>3. XorBytes[XorBytes[bytes[n]][byte(n)]][byte(n)] = bytes[n]
    BY <1>2, <2>1, XorTwice
  <2> QED BY <2>1, <2>2, <2>3
<1>5. once \in Seq(Byte) /\ Len(once) = Len(bytes) /\ DOMAIN once = 1 .. Len(bytes)
  <2>1. \A n \in 1 .. Len(bytes) : once[n] \in Byte
    BY <1>4
  <2>2. once \in [1 .. Len(bytes) -> Byte]
    BY <1>3, <2>1, Zenon
  <2> DEFINE b == Len(bytes)
  <2>3. b \in Nat /\ once \in [1 .. b -> Byte]
    BY <1>1, <2>2
  <2> HIDE DEF b
  <2>4. once \in Seq(Byte) /\ Len(once) = b /\ DOMAIN once = 1 .. b
    BY <2>3
  <2> QED BY <2>4 DEF b
<1>6. twice = [n \in 1 .. Len(bytes) |-> XorBytes[once[n]][byte(n)]]
  BY <1>5 DEF Encrypted
<1> HIDE DEF twice, byte
<1>7. twice = [n \in 1 .. Len(bytes) |-> bytes[n]]
  BY <1>4, <1>6
<1>8. twice = bytes
  BY <1>1, <1>7
<1> QED BY <1>5, <1>8 DEF once, twice

\* Who knows how long the key is finds it: the sum over everything is the same wherever
\* the key is put.
LEMMA KeyIsFound ==
    ASSUME NEW keyBytes \in Seq(Byte), NEW encrypted \in Seq(Byte)
    PROVE  LET body == Tail(Assembled(keyBytes, encrypted))
               p == Sum(body) % (Len(body) - Len(keyBytes) + 1)
           IN  /\ Assembled(keyBytes, encrypted) \in Seq(Byte)
               /\ Len(Assembled(keyBytes, encrypted)) = 1 + Len(keyBytes) + Len(encrypted)
               /\ SubSeq(body, p + 1, p + Len(keyBytes)) = keyBytes
               /\ SubSeq(body, 1, p) \o SubSeq(body, p + Len(keyBytes) + 1, Len(body))
                  = encrypted
<1> DEFINE body == Tail(Assembled(keyBytes, encrypted))
           p == Sum(body) % (Len(body) - Len(keyBytes) + 1)
<1>0. body = Tail(Assembled(keyBytes, encrypted))
      /\ p = Sum(body) % (Len(body) - Len(keyBytes) + 1)
  OBVIOUS
<1> HIDE DEF body, p
<1> DEFINE q == InsertionPoint(keyBytes, encrypted)
           left == SubSeq(encrypted, 1, q)
           right == SubSeq(encrypted, q + 1, Len(encrypted))
           k == Len(keyBytes)
           e == Len(encrypted)
<1>1. k \in Nat /\ e \in Nat
  OBVIOUS
<1>2. Byte \subseteq Int
  BY DEF Byte
<1>3. keyBytes \in Seq(Int) /\ encrypted \in Seq(Int)
  BY <1>2, SeqMonotonic
<1>4. Sum(keyBytes) \in Int /\ Sum(encrypted) \in Int
  BY <1>3, SumOfTwo
<1>5. q \in 0 .. e
  BY <1>1, <1>4 DEF InsertionPoint
<1> HIDE DEF q
<1>6. /\ left \in Seq(Byte) /\ Len(left) = q /\ \A i \in 1 .. q : left[i] = encrypted[i]
      /\ right \in Seq(Byte) /\ Len(right) = e - q
      /\ \A i \in 1 .. e - q : right[i] = encrypted[q + i]
  <2>1. left \in Seq(Byte) /\ Len(left) = q /\ \A i \in 1 .. q : left[i] = encrypted[i]
    BY <1>1, <1>5
  <2>2. right \in Seq(Byte) /\ Len(right) = e - q
        /\ \A i \in 1 .. e - q : right[i] = encrypted[q + i]
    BY <1>1, <1>5
  <2> QED BY <2>1, <2>2
<1>7. left \o right = encrypted
  <2> HIDE DEF left, right
  <2>1. /\ left \o right \in Seq(Byte) /\ Len(left \o right) = Len(left) + Len(right)
        /\ \A i \in 1 .. Len(left) + Len(right) :
              (left \o right)[i] = IF i <= Len(left) THEN left[i] ELSE right[i - Len(left)]
    BY <1>6, ConcatProperties
  <2>2. ASSUME NEW i \in 1 .. e PROVE (left \o right)[i] = encrypted[i]
    <3>1. CASE i <= q
      BY <1>1, <1>5, <1>6, <2>1, <3>1
    <3>2. CASE ~ (i <= q)
      <4>1. i - q \in 1 .. e - q /\ q + (i - q) = i
        BY <1>1, <1>5, <3>2
      <4> QED BY <1>1, <1>5, <1>6, <2>1, <3>2, <4>1
    <3> QED BY <3>1, <3>2
  <2>3. Len(left \o right) = Len(encrypted)
    BY <1>1, <1>5, <1>6, <2>1
  <2> QED BY <2>1, <2>2, <2>3, SeqEqual
<1> DEFINE whole == left \o keyBytes \o right
<1>8. Assembled(keyBytes, encrypted) = <<Marker>> \o left \o keyBytes \o right
  BY DEF Assembled, q
<1> HIDE DEF left, right
<1>9. <<Marker>> \in Seq(Byte) /\ Len(<<Marker>>) = 1
  BY DEF Marker, Byte
<1>10. Assembled(keyBytes, encrypted) = <<Marker>> \o whole
  <2>1. left \o keyBytes \in Seq(Byte)
    BY <1>6, ConcatProperties
  <2>2. right \in Seq(Byte) /\ keyBytes \in Seq(Byte) /\ left \in Seq(Byte)
    BY <1>6
  <2> DEFINE marker == <<Marker>>
  <2>3. marker \in Seq(Byte)
    BY <1>9
  <2> HIDE DEF marker
  <2>4. \A w, x, y \in Seq(Byte) : w \o (x \o y) = (w \o x) \o y
    BY JoinsRegroup, SMTT(60)
  <2> DEFINE both == left \o keyBytes
  <2>5. marker \o both = (marker \o left) \o keyBytes
    BY <2>2, <2>3, <2>4, ZenonT(40)
  <2>6. both \in Seq(Byte)
    BY <2>1
  <2> HIDE DEF both
  <2>7. marker \o (both \o right) = (marker \o both) \o right
    BY <2>2, <2>3, <2>4, <2>6, ZenonT(40)
  <2> QED BY <1>8, <2>5, <2>7, Zenon DEF marker, both
<1>11. /\ left \o keyBytes \in Seq(Byte) /\ Len(left \o keyBytes) = q + k
       /\ \A i \in 1 .. q + k :
             (left \o keyBytes)[i] = IF i <= q THEN left[i] ELSE keyBytes[i - q]
  BY <1>6, ConcatProperties
<1>12. /\ whole \in Seq(Byte) /\ Len(whole) = k + e
       /\ \A i \in 1 .. k + e :
             whole[i] = IF i <= q + k THEN (left \o keyBytes)[i] ELSE right[i - (q + k)]
  <2> DEFINE start == left \o keyBytes
  <2>0. start \in Seq(Byte) /\ Len(start) = q + k /\ whole = start \o right
    BY <1>11
  <2> HIDE DEF start, whole
  <2>a. /\ start \o right \in Seq(Byte) /\ Len(start \o right) = Len(start) + Len(right)
        /\ \A i \in 1 .. Len(start) + Len(right) :
              (start \o right)[i] = IF i <= Len(start) THEN start[i] ELSE right[i - Len(start)]
    <3>1. start \in Seq(Byte) /\ right \in Seq(Byte)
      BY <1>6, <2>0
    <3> HIDE DEF k, e
    <3> QED BY <3>1, ConcatProperties
  <2>1. /\ whole \in Seq(Byte) /\ Len(whole) = (q + k) + (e - q)
        /\ \A i \in 1 .. (q + k) + (e - q) :
              whole[i] = IF i <= q + k THEN start[i] ELSE right[i - (q + k)]
    BY <1>6, <2>0, <2>a
  <2>2. (q + k) + (e - q) = k + e
    BY <1>1, <1>5
  <2> QED BY <2>1, <2>2 DEF start
<1>13. Sum(whole) = Sum(keyBytes) + Sum(encrypted)
  <2>1. left \in Seq(Int) /\ right \in Seq(Int) /\ left \o keyBytes \in Seq(Int)
    BY <1>2, <1>6, <1>11, SeqMonotonic
  <2>2. Sum(whole) = Sum(left \o keyBytes) + Sum(right)
    BY <2>1, SumOfTwo
  <2>3. Sum(left \o keyBytes) = Sum(left) + Sum(keyBytes)
    BY <1>3, <2>1, SumOfTwo
  <2>4. Sum(encrypted) = Sum(left) + Sum(right)
    BY <1>7, <2>1, SumOfTwo
  <2>5. Sum(left) \in Int /\ Sum(right) \in Int
    BY <2>1, SumOfTwo
  <2> QED BY <1>4, <2>2, <2>3, <2>4, <2>5
<1> HIDE DEF whole
<1>14. Assembled(keyBytes, encrypted) \in Seq(Byte)
       /\ Len(Assembled(keyBytes, encrypted)) = 1 + (k + e) /\ body = whole
  <2>1. <<Marker>> \o whole \in Seq(Byte) /\ Len(<<Marker>> \o whole) = 1 + (k + e)
    <3> DEFINE marker == <<Marker>>
    <3>1. marker \in Seq(Byte) /\ Len(marker) = 1 /\ whole \in Seq(Byte)
          /\ Len(whole) = k + e
      BY <1>9, <1>12
    <3> HIDE DEF marker
    <3>2. marker \o whole \in Seq(Byte) /\ Len(marker \o whole) = Len(marker) + Len(whole)
      BY <3>1, ConcatProperties
    <3> QED BY <3>1, <3>2 DEF marker
  <2>2. Tail(<<Marker>> \o whole) = whole
    BY <1>12
  <2> QED BY <1>0, <1>10, <2>1, <2>2
<1>15. p = q
  <2>1. Len(body) - k + 1 = e + 1
    <3>1. Len(body) = k + e
      BY <1>12, <1>14
    <3> HIDE DEF k, e
    <3> QED BY <1>1, <3>1
  <2> QED BY <1>0, <1>13, <1>14, <2>1 DEF q, InsertionPoint
<1>16. SubSeq(whole, q + 1, q + k) = keyBytes
  <2>1. ASSUME NEW i \in 1 .. k PROVE whole[q + i] = keyBytes[i]
    <3>1. q + i \in 1 .. k + e /\ q + i \in 1 .. q + k /\ q + i <= q + k /\ ~ (q + i <= q)
          /\ (q + i) - q = i
      BY <1>1, <1>5
    <3> QED BY <1>11, <1>12, <3>1
  <2>2. /\ SubSeq(whole, q + 1, q + k) \in Seq(Byte) /\ Len(SubSeq(whole, q + 1, q + k)) = k
        /\ \A i \in 1 .. k : SubSeq(whole, q + 1, q + k)[i] = whole[q + i]
    BY <1>1, <1>5, <1>12
  <2> QED BY <2>1, <2>2, SeqEqual
<1>17. SubSeq(whole, 1, q) = left
  <2>1. ASSUME NEW i \in 1 .. q PROVE whole[i] = left[i]
    <3>1. i \in 1 .. k + e /\ i \in 1 .. q + k /\ i <= q + k /\ i <= q
      BY <1>1, <1>5
    <3> QED BY <1>11, <1>12, <3>1
  <2>2. /\ SubSeq(whole, 1, q) \in Seq(Byte) /\ Len(SubSeq(whole, 1, q)) = q
        /\ \A i \in 1 .. q : SubSeq(whole, 1, q)[i] = whole[i]
    BY <1>1, <1>5, <1>12
  <2> QED BY <1>6, <2>1, <2>2, SeqEqual
<1>18. SubSeq(whole, q + k + 1, k + e) = right
  <2>1. ASSUME NEW i \in 1 .. e - q PROVE whole[q + k + i] = right[i]
    <3>1. q + k + i \in 1 .. k + e /\ ~ (q + k + i <= q + k) /\ (q + k + i) - (q + k) = i
      BY <1>1, <1>5
    <3> QED BY <1>12, <3>1
  <2>2. /\ SubSeq(whole, q + k + 1, k + e) \in Seq(Byte)
        /\ Len(SubSeq(whole, q + k + 1, k + e)) = e - q
        /\ \A i \in 1 .. e - q : SubSeq(whole, q + k + 1, k + e)[i] = whole[q + k + i]
    <3>1. /\ whole \in Seq(Byte) /\ Len(whole) = k + e /\ q + k + 1 \in Nat \ {0}
          /\ k + e \in Nat /\ (k + e) - (q + k + 1) + 1 = e - q /\ e - q \in Nat
      BY <1>1, <1>5, <1>12
    <3> DEFINE i0 == q + k + 1
               j0 == k + e
               slice == SubSeq(whole, i0, j0)
    <3>2. i0 \in Nat \ {0} /\ j0 \in Nat /\ j0 - i0 + 1 = e - q /\ e - q \in Nat
          /\ Len(whole) = j0 /\ whole \in Seq(Byte)
      BY <3>1
    <3> HIDE DEF i0, j0, k, e
    <3>3. /\ slice \in Seq(Byte) /\ Len(slice) = e - q
          /\ \A i \in 1 .. e - q : slice[i] = whole[i0 + i - 1]
      BY <3>2
    <3>4. \A i \in 1 .. e - q : i0 + i - 1 = q + k + i
      BY <1>1, <1>5, <3>1 DEF i0
    <3> QED BY <3>3, <3>4 DEF i0, j0
  <2> QED BY <1>6, <2>1, <2>2, SeqEqual
<1>19. 1 + (k + e) = 1 + k + e
  BY <1>1
<1> QED BY <1>7, <1>12, <1>14, <1>15, <1>16, <1>17, <1>18, <1>19 DEF body, p

-----------------------------------------------------------------------------
(* The fields.                                                               *)

\* What XorAll computes, number by number.
LEMMA XorSteps ==
    ASSUME NEW s \in Seq(Nat)
    PROVE  \E f \in [0 .. Len(s) -> Nat] :
              /\ f[0] = 0 /\ XorAll(s) = f[Len(s)]
              /\ \A n \in 1 .. Len(s) : f[n] = Xor(f[n - 1], s[n])
<1> DEFINE T == Nat
           base == 0
           step == [n \in 1 .. Len(s) |-> [t \in T |-> Xor(t, s[n])]]
           Def(g) == [n \in 0 .. Len(s) |-> IF n = 0 THEN 0 ELSE Xor(g[n - 1], s[n])]
           upTo == CHOOSE g : g = Def(g)
<1>1. Len(s) \in Nat /\ base \in T /\ \A n \in 1 .. Len(s) : s[n] \in Nat
  OBVIOUS
<1>2. \A n \in 1 .. Len(s), t \in Nat : step[n][t] = Xor(t, s[n])
  OBVIOUS
<1>3. step \in [1 .. Len(s) -> [T -> T]]
  <2>1. \A n \in 1 .. Len(s), t \in T : Xor(t, s[n]) \in T
    BY <1>1, XorOfWords
  <2> HIDE DEF T
  <2> QED BY <2>1
<1>4. PICK f \in [0 .. Len(s) -> Nat] :
          f[0] = 0 /\ \A n \in 1 .. Len(s) : f[n] = step[n][f[n - 1]]
  <2> HIDE DEF T, base, step
  <2>1. Recursions(T, base, Len(s), step) # {}
    BY <1>1, <1>3, RecursionExists
  <2> QED BY <2>1 DEF Recursions, T, base
<1>5. ASSUME NEW n \in 1 .. Len(s) PROVE f[n] = Xor(f[n - 1], s[n])
  <2> HIDE DEF step
  <2>1. n - 1 \in 0 .. Len(s)
    BY <1>1
  <2>2. f[n - 1] \in Nat
    BY <2>1
  <2> QED BY <1>2, <1>4, <2>2
<1> HIDE DEF step
<1>6. f = Def(f)
  BY <1>4, <1>5
<1>7. upTo = Def(upTo)
  BY <1>6
<1> HIDE DEF upTo
<1>8. upTo[0] = 0 /\ \A n \in 1 .. Len(s) : upTo[n] = Xor(upTo[n - 1], s[n])
  BY <1>1, <1>7
<1> HIDE DEF Def
<1> DEFINE same == {n \in Nat : upTo[n] = f[n]}
<1>9. Len(s) \in same
  <2>1. 0 \in same
    BY <1>4, <1>8
  <2>2. \A n \in 1 .. Len(s) : n - 1 \in same => n \in same
    BY <1>5, <1>8
  <2> HIDE DEF same
  <2> QED BY <1>1, <2>1, <2>2, CountUp
<1>10. upTo[Len(s)] = f[Len(s)]
  BY <1>1, <1>9
<1>11. XorAll(s) = upTo[Len(s)]
  BY DEF XorAll, upTo, Def
<1> QED BY <1>4, <1>5, <1>10, <1>11

\* The exclusive or of numbers is one.
LEMMA XorAllNumber ==
    ASSUME NEW s \in Seq(Nat)
    PROVE  XorAll(s) \in Nat
<1>1. PICK f \in [0 .. Len(s) -> Nat] : XorAll(s) = f[Len(s)]
  BY XorSteps
<1>2. Len(s) \in 0 .. Len(s)
  OBVIOUS
<1> QED BY <1>1, <1>2

-----------------------------------------------------------------------------
\* What a field is.
Field == [tag : Byte, word : Nat, number : Nat, bytes : Seq(Byte)]

\* The bytes of a number: two or four.
LEMMA BytesOfNumber ==
    ASSUME NEW n \in Nat
    PROVE  /\ NumberBytes(n) \in Seq(Byte)
           /\ Len(NumberBytes(n)) = IF n < 255 * 255 THEN 2 ELSE 4
<1>1. \A m \in Nat : m % 256 \in Byte
  BY DEF Byte
<1>2. BigEndian(n, 2) \in Seq(Byte) /\ Len(BigEndian(n, 2)) = 2
  <2> DEFINE d(k) == (n \div Weights[4 - 2 + k]) % 256
  <2>1. d(1) = (n \div 256) % 256 /\ d(2) = (n \div 1) % 256
    BY DEF Weights
  <2>2. n \div 256 \in Nat /\ n \div 1 \in Nat
    OBVIOUS
  <2>3. \A k \in 1 .. 2 : d(k) \in Byte
    <3>1. d(1) \in Byte /\ d(2) \in Byte
      BY <1>1, <2>1, <2>2
    <3> HIDE DEF d
    <3> QED BY <3>1
  <2>4. BigEndian(n, 2) = [k \in 1 .. 2 |-> d(k)]
    BY DEF BigEndian
  <2> HIDE DEF d
  <2>5. BigEndian(n, 2) \in [1 .. 2 -> Byte]
    BY <2>3, <2>4
  <2>6. \A i \in Nat : \A u \in [1 .. i -> Byte] : u \in Seq(Byte) /\ Len(u) = i
    OBVIOUS
  <2>7. 2 \in Nat
    OBVIOUS
  <2> QED BY <2>5, <2>6, <2>7, Zenon
<1>3. BigEndian(n, 4) \in Seq(Byte) /\ Len(BigEndian(n, 4)) = 4
  <2> DEFINE d(k) == (n \div Weights[4 - 4 + k]) % 256
  <2>1. d(1) = (n \div 16777216) % 256 /\ d(2) = (n \div 65536) % 256
        /\ d(3) = (n \div 256) % 256 /\ d(4) = (n \div 1) % 256
    BY DEF Weights
  <2>2. n \div 256 \in Nat /\ n \div 1 \in Nat /\ n \div 65536 \in Nat /\ n \div 16777216 \in Nat
    OBVIOUS
  <2>3. \A k \in 1 .. 4 : d(k) \in Byte
    <3>1. d(1) \in Byte /\ d(2) \in Byte /\ d(3) \in Byte /\ d(4) \in Byte
      BY <1>1, <2>1, <2>2
    <3> HIDE DEF d
    <3> QED BY <3>1
  <2>4. BigEndian(n, 4) = [k \in 1 .. 4 |-> d(k)]
    BY DEF BigEndian
  <2> HIDE DEF d
  <2>5. BigEndian(n, 4) \in [1 .. 4 -> Byte]
    BY <2>3, <2>4
  <2>6. \A i \in Nat : \A u \in [1 .. i -> Byte] : u \in Seq(Byte) /\ Len(u) = i
    OBVIOUS
  <2>7. 4 \in Nat
    OBVIOUS
  <2> QED BY <2>5, <2>6, <2>7, Zenon
<1> QED BY <1>2, <1>3 DEF NumberBytes

\* The field of a number.
LEMMA NumberIsField ==
    ASSUME NEW tag \in Byte, NEW n \in Nat
    PROVE  /\ Number(tag, n) \in Field /\ Number(tag, n).tag = tag
           /\ Number(tag, n).bytes = NumberBytes(n)
  BY BytesOfNumber DEF Number, Field

\* The field of a text.
LEMMA TextIsField ==
    ASSUME NEW tag \in Byte, NEW text \in Seq(Byte), Len(text) >= 4
    PROVE  Text(tag, text) \in Field /\ Text(tag, text).tag = tag /\ Text(tag, text).bytes = text
<1>1. /\ 1 \in 1 .. Len(text) /\ 2 \in 1 .. Len(text) /\ 3 \in 1 .. Len(text)
      /\ 4 \in 1 .. Len(text)
  OBVIOUS
<1>2. text[1] \in Byte /\ text[2] \in Byte /\ text[3] \in Byte /\ text[4] \in Byte
  BY <1>1
<1>3. text[1] \in Nat /\ text[2] \in Nat /\ text[3] \in Nat /\ text[4] \in Nat
  <2>1. \A x \in Byte : x \in Nat
    BY DEF Byte
  <2> QED BY <1>2, <2>1
<1>4. \A a, b \in Nat : a * 256 + b \in Nat
  OBVIOUS
<1>5. FirstFour(text) \in Nat
  BY <1>3, <1>4 DEF FirstFour
<1> QED BY <1>5 DEF Text, Field

\* What a message is.
LEMMA MessageParts ==
    ASSUME NEW m \in Messages
    PROVE  /\ m.query \in Queries /\ m.seconds \in Nat /\ m.seconds >= 255 * 255
           /\ m.millis \in Nat
<1>1. PICK q \in Queries, c \in Clocks :
         m = [query |-> q, seconds |-> c.seconds, millis |-> c.millis]
  BY DEF Messages
<1>2. c.seconds \in Nat /\ c.seconds >= 255 * 255 /\ c.millis \in Nat
  BY TimeAssumption DEF TimeAssumption
<1> QED BY <1>1, <1>2

\* What is given of a query, of the body and of the user agent.
LEMMA GivenParts ==
    ASSUME NEW h \in {Agent, Body} \cup Queries
    PROVE  /\ h.hash \in Seq(Byte) /\ Len(h.hash) \in Nat /\ Len(h.hash) >= 4
           /\ Len(h.hash) < 255 * 255 /\ Len(h.hash) % 3 = 2
           /\ h.bogus[1] \in Byte /\ h.bogus[2] \in Byte
           /\ h.bogus = <<h.bogus[1], h.bogus[2]>>
<1>1. /\ h.hash \in Seq(Byte) /\ Len(h.hash) \in 4 .. 255 * 255 - 1 /\ Len(h.hash) % 3 = 2
      /\ h.bogus \in Byte \X Byte
  BY HashAssumption, Zenon DEF HashAssumption
<1>2. \A n \in 4 .. 255 * 255 - 1 : n \in Nat /\ n >= 4 /\ n < 255 * 255
  OBVIOUS
<1>3. Len(h.hash) \in Nat /\ Len(h.hash) >= 4 /\ Len(h.hash) < 255 * 255
  BY <1>1, <1>2, Zenon
<1>4. PICK x \in Byte, y \in Byte : h.bogus = <<x, y>>
  <2> DEFINE b == h.bogus
  <2>1. b \in Byte \X Byte
    BY <1>1
  <2> HIDE DEF b
  <2>2. \E x \in Byte, y \in Byte : b = <<x, y>>
    BY <2>1, SMT
  <2> QED BY <2>2, Zenon DEF b
<1>5. h.bogus[1] \in Byte /\ h.bogus[2] \in Byte /\ h.bogus = <<h.bogus[1], h.bogus[2]>>
  BY <1>4, SMT
<1> QED BY <1>1, <1>3, <1>5, Zenon

\* The thirteen fields of a message; the checksums are numbers.
LEMMA FieldsOf ==
    ASSUME NEW m \in Messages
    PROVE  \E all \in Nat, numbers \in Nat :
              /\ Fields(m) \in Seq(Field) /\ Len(Fields(m)) = 13
              /\ Fields(m)[1] = Number(1, 1) /\ Fields(m)[2] = Number(2, 14)
              /\ Fields(m)[3] = Text(3, m.query.hash) /\ Fields(m)[4] = Text(4, Body.hash)
              /\ Fields(m)[5] = Text(5, Agent.hash) /\ Fields(m)[6] = Number(6, m.seconds)
              /\ Fields(m)[7] = Number(7, Canvas) /\ Fields(m)[8] = Number(8, m.millis)
              /\ Fields(m)[9] = Text(9, Version) /\ Fields(m)[10] = Text(10, SdkVersion)
              /\ Fields(m)[11] = Number(11, 1) /\ Fields(m)[12] = Number(12, all)
              /\ Fields(m)[13] = Number(0, numbers)
<1> DEFINE given == <<Number(1, 1), Number(2, 14), Text(3, m.query.hash),
                      Text(4, Body.hash), Text(5, Agent.hash), Number(6, m.seconds),
                      Number(7, Canvas), Number(8, m.millis), Text(9, Version),
                      Text(10, SdkVersion), Number(11, 1)>>
           all == Checksum(given)
           summed == Append(given, Number(12, all))
           numbers == NumbersChecksum(summed)
<1>1. /\ Number(1, 1) \in Field /\ Number(2, 14) \in Field /\ Number(6, m.seconds) \in Field
      /\ Number(7, Canvas) \in Field /\ Number(8, m.millis) \in Field
      /\ Number(11, 1) \in Field
      /\ \A n \in Nat : Number(12, n) \in Field /\ Number(0, n) \in Field
  <2>1. 1 \in Byte /\ 2 \in Byte /\ 6 \in Byte /\ 7 \in Byte /\ 8 \in Byte /\ 11 \in Byte
        /\ 12 \in Byte /\ 0 \in Byte
    BY DEF Byte
  <2>2. Canvas \in Nat /\ 1 \in Nat /\ 14 \in Nat
    BY DEF Canvas
  <2>3. m.seconds \in Nat /\ m.millis \in Nat
    BY MessageParts
  <2>4. \A tag \in Byte, n \in Nat : Number(tag, n) \in Field
    BY NumberIsField
  <2> QED BY <2>1, <2>2, <2>3, <2>4, Zenon
<1>2. Text(3, m.query.hash) \in Field /\ Text(4, Body.hash) \in Field
      /\ Text(5, Agent.hash) \in Field
  <2>1. 3 \in Byte /\ 4 \in Byte /\ 5 \in Byte
    BY DEF Byte
  <2>2. /\ m.query.hash \in Seq(Byte) /\ Len(m.query.hash) >= 4
        /\ Body.hash \in Seq(Byte) /\ Len(Body.hash) >= 4
        /\ Agent.hash \in Seq(Byte) /\ Len(Agent.hash) >= 4
    BY MessageParts, GivenParts
  <2>3. \A tag \in Byte : \A text \in Seq(Byte) : Len(text) >= 4 => Text(tag, text) \in Field
    BY TextIsField
  <2> QED BY <2>1, <2>2, <2>3
<1>3. Text(9, Version) \in Field /\ Text(10, SdkVersion) \in Field
  <2>1. 9 \in Byte /\ 10 \in Byte
    BY DEF Byte
  <2>2. /\ Version \in Seq(Byte) /\ Len(Version) >= 4
        /\ SdkVersion \in Seq(Byte) /\ Len(SdkVersion) >= 4
    BY DEF Version, SdkVersion, Byte
  <2>3. \A tag \in Byte : \A text \in Seq(Byte) : Len(text) >= 4 => Text(tag, text) \in Field
    BY TextIsField
  <2> QED BY <2>1, <2>2, <2>3, Zenon
<1>4. given \in Seq(Field)
  BY <1>1, <1>2, <1>3
<1>5. \A fields \in Seq(Field) :
         /\ [n \in DOMAIN fields |-> fields[n].word] \in Seq(Nat)
         /\ [n \in DOMAIN fields |-> fields[n].number] \in Seq(Nat)
  <2> TAKE fields \in Seq(Field)
  <2>1. \A n \in 1 .. Len(fields) : fields[n] \in Field
    OBVIOUS
  <2>2. \A n \in 1 .. Len(fields) : fields[n].word \in Nat /\ fields[n].number \in Nat
    BY <2>1 DEF Field
  <2>3. DOMAIN fields = 1 .. Len(fields) /\ Len(fields) \in Nat
    OBVIOUS
  <2>4. /\ [n \in DOMAIN fields |-> fields[n].word] \in [1 .. Len(fields) -> Nat]
        /\ [n \in DOMAIN fields |-> fields[n].number] \in [1 .. Len(fields) -> Nat]
    BY <2>2, <2>3
  <2> QED BY <2>3, <2>4
<1> HIDE DEF given
<1>6. all \in Nat
  BY <1>4, <1>5, XorAllNumber DEF Checksum
<1> HIDE DEF all
<1>7. summed \in Seq(Field)
  BY <1>1, <1>4, <1>6
<1> HIDE DEF summed
<1>8. numbers \in Nat
  BY <1>5, <1>7, XorAllNumber DEF NumbersChecksum
<1> HIDE DEF numbers
<1>9. Append(summed, Number(0, numbers)) \in Seq(Field)
  BY <1>1, <1>7, <1>8
<1>10. Fields(m) = Append(summed, Number(0, numbers))
  BY DEF Fields, numbers, summed, all, given
<1>11. Fields(m)[12] = Number(12, all) /\ Fields(m)[13] = Number(0, numbers)
       /\ Len(Fields(m)) = 13 /\ \A n \in 1 .. 11 : Fields(m)[n] = given[n]
  <2>1. Len(given) = 11
    BY DEF given
  <2>3. \A t \in Seq(Field), x \in Field :
           /\ Len(Append(t, x)) = Len(t) + 1 /\ Append(t, x)[Len(t) + 1] = x
           /\ \A n \in 1 .. Len(t) : Append(t, x)[n] = t[n]
    OBVIOUS
  <2>4. Number(12, all) \in Field /\ Number(0, numbers) \in Field
    BY <1>1, <1>6, <1>8
  <2> DEFINE last == Number(12, all)
             final == Number(0, numbers)
  <2>5. last \in Field /\ summed = Append(given, last) /\ 11 + 1 = 12 /\ 12 + 1 = 13
        /\ final \in Field /\ Fields(m) = Append(summed, final)
    BY <1>10, <2>4 DEF summed
  <2> HIDE DEF last, final
  <2>2. Len(summed) = 12 /\ summed[12] = last /\ \A n \in 1 .. 11 : summed[n] = given[n]
    <3>1. /\ Len(Append(given, last)) = Len(given) + 1 /\ Append(given, last)[Len(given) + 1] = last
          /\ \A n \in 1 .. Len(given) : Append(given, last)[n] = given[n]
      BY <1>4, <2>3, <2>5, Zenon
    <3> QED BY <2>1, <2>5, <3>1
  <2>6. /\ Len(Fields(m)) = 13 /\ Fields(m)[13] = final
        /\ \A n \in 1 .. 12 : Fields(m)[n] = summed[n]
    BY <1>7, <2>2, <2>3, <2>5
  <2>7. \A n \in 1 .. 11 : n \in 1 .. 12
    OBVIOUS
  <2> QED BY <2>2, <2>6, <2>7 DEF last, final
<1>12. /\ given[1] = Number(1, 1) /\ given[2] = Number(2, 14)
       /\ given[3] = Text(3, m.query.hash) /\ given[4] = Text(4, Body.hash)
       /\ given[5] = Text(5, Agent.hash) /\ given[6] = Number(6, m.seconds)
       /\ given[7] = Number(7, Canvas) /\ given[8] = Number(8, m.millis)
       /\ given[9] = Text(9, Version) /\ given[10] = Text(10, SdkVersion)
       /\ given[11] = Number(11, 1)
  BY DEF given
<1> WITNESS all \in Nat, numbers \in Nat
<1> QED BY <1>9, <1>10, <1>11, <1>12

-----------------------------------------------------------------------------
(* The payload, and an X-Gnarly taken apart.                                 *)

\* How long each field is.
Sizes(m) == [n \in 1 .. 13 |-> Len(Fields(m)[n].bytes)]

\* How long the fields of a message are: a number has two bytes or four.
LEMMA LengthsOf ==
    ASSUME NEW m \in Messages
    PROVE  /\ Sizes(m) \in [1 .. 13 -> 0 .. 255 * 255 - 1]
           /\ \A n \in 1 .. 13 : Fields(m)[n].bytes \in Seq(Byte)
           /\ Sizes(m)[1] = 2 /\ Sizes(m)[2] = 2 /\ Sizes(m)[6] = 4 /\ Sizes(m)[7] = 4
           /\ Sizes(m)[9] = 5 /\ Sizes(m)[10] = 9 /\ Sizes(m)[11] = 2
           /\ \A n \in {3, 4, 5} : Sizes(m)[n] % 3 = 2
           /\ \A n \in {8, 12, 13} : Sizes(m)[n] \in {2, 4}
           /\ \A n \in 1 .. 13 : Fields(m)[n].tag \in {0, 8, 12} <=> n \in {8, 12, 13}
<1> DEFINE size(n) == Len(Fields(m)[n].bytes)
           fields == Fields(m)
<1>1. PICK all \in Nat, numbers \in Nat :
              /\ fields \in Seq(Field) /\ Len(fields) = 13
              /\ fields[1] = Number(1, 1) /\ fields[2] = Number(2, 14)
              /\ fields[3] = Text(3, m.query.hash) /\ fields[4] = Text(4, Body.hash)
              /\ fields[5] = Text(5, Agent.hash) /\ fields[6] = Number(6, m.seconds)
              /\ fields[7] = Number(7, Canvas) /\ fields[8] = Number(8, m.millis)
              /\ fields[9] = Text(9, Version) /\ fields[10] = Text(10, SdkVersion)
              /\ fields[11] = Number(11, 1) /\ fields[12] = Number(12, all)
              /\ fields[13] = Number(0, numbers)
  BY FieldsOf
<1>2. \A n \in Nat : Len(NumberBytes(n)) = IF n < 255 * 255 THEN 2 ELSE 4
  BY BytesOfNumber
<1>3. ASSUME NEW tag, NEW n PROVE Number(tag, n).bytes = NumberBytes(n) /\ Number(tag, n).tag = tag
  BY DEF Number
<1>4. ASSUME NEW tag, NEW text PROVE Text(tag, text).bytes = text /\ Text(tag, text).tag = tag
  BY DEF Text
<1>5. m.seconds \in Nat /\ m.seconds >= 255 * 255 /\ m.millis \in Nat
  BY MessageParts
<1>6. /\ size(1) = 2 /\ size(2) = 2 /\ size(6) = 4 /\ size(7) = 4 /\ size(11) = 2
  <2>1. Canvas \in Nat /\ ~ (Canvas < 255 * 255)
    BY DEF Canvas
  <2>2. 1 \in Nat /\ 1 < 255 * 255 /\ 14 \in Nat /\ 14 < 255 * 255 /\ ~ (m.seconds < 255 * 255)
    BY <1>5
  <2>3. /\ fields[1].bytes = NumberBytes(1) /\ fields[2].bytes = NumberBytes(14)
        /\ fields[6].bytes = NumberBytes(m.seconds) /\ fields[7].bytes = NumberBytes(Canvas)
        /\ fields[11].bytes = NumberBytes(1)
    BY <1>1, <1>3
  <2> HIDE DEF fields
  <2> QED BY <1>2, <1>5, <2>1, <2>2, <2>3 DEF fields
<1>7. size(8) \in {2, 4} /\ size(12) \in {2, 4} /\ size(13) \in {2, 4}
  <2>1. /\ fields[8].bytes = NumberBytes(m.millis) /\ fields[12].bytes = NumberBytes(all)
        /\ fields[13].bytes = NumberBytes(numbers)
    BY <1>1, <1>3
  <2>2. \A n \in Nat : Len(NumberBytes(n)) \in {2, 4}
    BY <1>2
  <2> QED BY <1>1, <1>5, <2>1, <2>2
<1>8. size(9) = 5 /\ size(10) = 9
  <2>1. fields[9].bytes = Version /\ fields[10].bytes = SdkVersion
    BY <1>1, <1>4
  <2>2. Len(Version) = 5 /\ Len(SdkVersion) = 9
    BY DEF Version, SdkVersion
  <2> QED BY <2>1, <2>2
<1>9. /\ size(3) % 3 = 2 /\ size(4) % 3 = 2 /\ size(5) % 3 = 2
      /\ size(3) < 255 * 255 /\ size(4) < 255 * 255 /\ size(5) < 255 * 255
  <2>1. fields[3].bytes = m.query.hash /\ fields[4].bytes = Body.hash /\ fields[5].bytes = Agent.hash
    BY <1>1, <1>4
  <2>2. \A h \in {Agent, Body} \cup Queries : Len(h.hash) < 255 * 255 /\ Len(h.hash) % 3 = 2
    BY GivenParts, Zenon
  <2>3. m.query \in Queries
    BY MessageParts
  <2>4. /\ Len(m.query.hash) < 255 * 255 /\ Len(m.query.hash) % 3 = 2
        /\ Len(Body.hash) < 255 * 255 /\ Len(Body.hash) % 3 = 2
        /\ Len(Agent.hash) < 255 * 255 /\ Len(Agent.hash) % 3 = 2
    BY <2>2, <2>3
  <2> QED BY <2>1, <2>4, Zenon
<1>10. /\ fields[1].tag = 1 /\ fields[2].tag = 2 /\ fields[3].tag = 3 /\ fields[4].tag = 4
       /\ fields[5].tag = 5 /\ fields[6].tag = 6 /\ fields[7].tag = 7 /\ fields[8].tag = 8
       /\ fields[9].tag = 9 /\ fields[10].tag = 10 /\ fields[11].tag = 11
       /\ fields[12].tag = 12 /\ fields[13].tag = 0
  BY <1>1, <1>3, <1>4
<1>11. ASSUME NEW n \in 1 .. 13
       PROVE  fields[n].bytes \in Seq(Byte) /\ size(n) \in Nat
  <2>1. fields[n] \in Field
    <3>1. n \in 1 .. Len(fields) /\ fields \in Seq(Field)
      BY <1>1
    <3> HIDE DEF fields
    <3> QED BY <3>1
  <2>2. fields[n].bytes \in Seq(Byte)
    BY <2>1 DEF Field
  <2> QED BY <2>2
<1> HIDE DEF fields
<1>12. \A n \in 1 .. 13 : fields[n].tag \in {0, 8, 12} <=> n \in {8, 12, 13}
  BY <1>10
<1>13. \A n \in 1 .. 13 : n = 1 \/ n = 2 \/ n = 3 \/ n = 4 \/ n = 5 \/ n = 6 \/ n = 7 \/ n = 8
                          \/ n = 9 \/ n = 10 \/ n = 11 \/ n = 12 \/ n = 13
  OBVIOUS
<1> HIDE DEF size
<1>14. \A n \in 1 .. 13 : size(n) < 255 * 255
  BY <1>6, <1>7, <1>8, <1>9, <1>13
<1>15. \A n \in 1 .. 13 : Sizes(m)[n] = size(n)
  BY DEF Sizes, size, fields
<1>16. Sizes(m) \in [1 .. 13 -> 0 .. 255 * 255 - 1]
  <2>1. \A n \in 1 .. 13 : size(n) \in 0 .. 255 * 255 - 1
    <3>1. \A k \in Nat : k < 255 * 255 => k \in 0 .. 255 * 255 - 1
      <4> DEFINE bound == 255 * 255
      <4>1. bound \in Nat
        OBVIOUS
      <4> HIDE DEF bound
      <4>2. \A k \in Nat : k < bound => k \in 0 .. bound - 1
        BY <4>1
      <4> QED BY <4>2 DEF bound
    <3> QED BY <1>11, <1>14, <3>1, Zenon
  <2>2. Sizes(m) = [n \in 1 .. 13 |-> size(n)]
    BY DEF Sizes, size, fields
  <2> QED BY <2>1, <2>2
<1>17. /\ Sizes(m)[1] = 2 /\ Sizes(m)[2] = 2 /\ Sizes(m)[6] = 4 /\ Sizes(m)[7] = 4
       /\ Sizes(m)[9] = 5 /\ Sizes(m)[10] = 9 /\ Sizes(m)[11] = 2
  BY <1>6, <1>8, <1>15
<1>18. /\ \A n \in {3, 4, 5} : Sizes(m)[n] % 3 = 2
       /\ \A n \in {8, 12, 13} : Sizes(m)[n] \in {2, 4}
  BY <1>7, <1>9, <1>15
<1> QED BY <1>11, <1>12, <1>16, <1>17, <1>18 DEF fields

\* What thirteen parts add up to.
LEMMA ThirteenSteps ==
    ASSUME NEW size \in [1 .. 13 -> Nat], NEW length \in [0 .. 13 -> Nat], length[0] = 0,
           \A n \in 1 .. 13 : length[n] = length[n - 1] + 3 + size[n]
    PROVE  1 + length[13] = 40 + size[1] + size[2] + size[3] + size[4] + size[5] + size[6]
                            + size[7] + size[8] + size[9] + size[10] + size[11] + size[12]
                            + size[13]
<1>1. /\ length[1] = length[0] + 3 + size[1] /\ length[2] = length[1] + 3 + size[2]
      /\ length[3] = length[2] + 3 + size[3] /\ length[4] = length[3] + 3 + size[4]
      /\ length[5] = length[4] + 3 + size[5] /\ length[6] = length[5] + 3 + size[6]
      /\ length[7] = length[6] + 3 + size[7] /\ length[8] = length[7] + 3 + size[8]
      /\ length[9] = length[8] + 3 + size[9] /\ length[10] = length[9] + 3 + size[10]
      /\ length[11] = length[10] + 3 + size[11] /\ length[12] = length[11] + 3 + size[12]
      /\ length[13] = length[12] + 3 + size[13]
  OBVIOUS
<1>2. length[5] = 15 + size[1] + size[2] + size[3] + size[4] + size[5]
  BY <1>1
<1>3. length[9] = length[5] + 12 + size[6] + size[7] + size[8] + size[9]
  BY <1>1
<1>4. length[13] = length[9] + 12 + size[10] + size[11] + size[12] + size[13]
  BY <1>1
<1> QED BY <1>2, <1>3, <1>4

\* The payload: the number of fields, and for each its tag, its length and its bytes.
LEMMA PayloadOf ==
    ASSUME NEW m \in Messages
    PROVE  /\ Payload(Fields(m)) \in Seq(Byte)
           /\ Len(Payload(Fields(m)))
              = 40 + Sizes(m)[1] + Sizes(m)[2] + Sizes(m)[3] + Sizes(m)[4] + Sizes(m)[5]
                + Sizes(m)[6] + Sizes(m)[7] + Sizes(m)[8] + Sizes(m)[9] + Sizes(m)[10]
                + Sizes(m)[11] + Sizes(m)[12] + Sizes(m)[13]
<1> DEFINE size == Sizes(m)
           fields == Fields(m)
           part(n) == <<fields[n].tag>> \o NumberBytes(Len(fields[n].bytes)) \o fields[n].bytes
           parts == [n \in DOMAIN fields |-> part(n)]
           T == Seq(Byte)
<1>1. fields \in Seq(Field) /\ Len(fields) = 13 /\ DOMAIN fields = 1 .. 13
  BY FieldsOf
<1> HIDE DEF fields
<1>2. ASSUME NEW n \in 1 .. 13
      PROVE  part(n) \in T /\ Len(part(n)) = 3 + size[n] /\ size[n] \in Nat
  <2> DEFINE tag == <<fields[n].tag>>
             count == NumberBytes(Len(fields[n].bytes))
             bytes == fields[n].bytes
  <2>1. tag \in Seq(Byte) /\ Len(tag) = 1
    <3>0. fields[n] \in Field
      BY <1>1
    <3>1. fields[n].tag \in Byte
      BY <3>0 DEF Field
    <3> QED BY <3>1
  <2>2. bytes \in Seq(Byte) /\ Len(bytes) = size[n] /\ Len(bytes) < 255 * 255 /\ Len(bytes) \in Nat
    <3>0. size \in [1 .. 13 -> 0 .. 255 * 255 - 1]
          /\ \A k \in 1 .. 13 : Fields(m)[k].bytes \in Seq(Byte)
      BY LengthsOf, Zenon
    <3>2. Len(bytes) = size[n]
      BY DEF Sizes, fields
    <3>3. bytes \in Seq(Byte)
      BY <3>0 DEF fields
    <3> HIDE DEF size, bytes
    <3>4. size[n] \in 0 .. 255 * 255 - 1
      BY <3>0
    <3>5. \A k \in 0 .. 255 * 255 - 1 : k < 255 * 255 /\ k \in Nat
      <4> DEFINE bound == 255 * 255
      <4>1. bound \in Nat
        OBVIOUS
      <4> HIDE DEF bound
      <4>2. \A k \in 0 .. bound - 1 : k < bound /\ k \in Nat
        BY <4>1
      <4> QED BY <4>2 DEF bound
    <3> QED BY <3>2, <3>3, <3>4, <3>5, Zenon
  <2>3. count \in Seq(Byte) /\ Len(count) = 2
    BY <2>2, BytesOfNumber
  <2>6. part(n) = (tag \o count) \o bytes
    OBVIOUS
  <2> HIDE DEF tag, count, bytes, part, size
  <2>4. tag \o count \in Seq(Byte) /\ Len(tag \o count) = Len(tag) + Len(count)
    BY <2>1, <2>3, ConcatProperties
  <2>5. (tag \o count) \o bytes \in Seq(Byte)
        /\ Len((tag \o count) \o bytes) = Len(tag \o count) + Len(bytes)
    BY <2>2, <2>4, ConcatProperties
  <2>7. Len(part(n)) = (1 + 2) + size[n] /\ size[n] \in Nat
    BY <2>1, <2>2, <2>3, <2>4, <2>5, <2>6
  <2> QED BY <2>5, <2>6, <2>7
<1> HIDE DEF part, size, T
<1>3. parts \in Seq(T) /\ Len(parts) = 13 /\ \A n \in 1 .. 13 : parts[n] = part(n)
  <2>1. parts \in [1 .. 13 -> T] /\ \A n \in 1 .. 13 : parts[n] = part(n)
    BY <1>1, <1>2
  <2>2. \A i \in Nat : \A u \in [1 .. i -> T] : u \in Seq(T) /\ Len(u) = i
    OBVIOUS
  <2>3. 13 \in Nat
    OBVIOUS
  <2> HIDE DEF parts
  <2> QED BY <2>1, <2>2, <2>3, Zenon
<1>4. Payload(fields) = <<Len(fields)>> \o FlattenSeq(parts)
  BY DEF Payload, part
<1> HIDE DEF parts
<1>5. PICK f \in [0 .. Len(parts) -> T] :
         /\ f[0] = <<>> /\ FlattenSeq(parts) = f[Len(parts)]
         /\ \A n \in 1 .. Len(parts) : f[n] = f[n - 1] \o parts[n]
  BY <1>3, FlattenSteps DEF T
<1>6. ASSUME NEW n \in 1 .. 13
      PROVE  Len(f[n]) = Len(f[n - 1]) + 3 + size[n] /\ Len(f[n]) \in Nat
  <2>1. f[n - 1] \in T /\ f[n] \in T
    <3>1. n - 1 \in 0 .. Len(parts) /\ n \in 0 .. Len(parts)
      BY <1>3
    <3> QED BY <3>1
  <2>2. f[n] = f[n - 1] \o part(n) /\ part(n) \in T /\ Len(part(n)) = 3 + size[n] /\ size[n] \in Nat
    BY <1>2, <1>3, <1>5
  <2>3. Len(f[n - 1] \o part(n)) = Len(f[n - 1]) + Len(part(n))
    BY <2>1, <2>2, ConcatProperties DEF T
  <2>4. Len(f[n - 1]) \in Nat /\ Len(f[n]) \in Nat
    BY <2>1 DEF T
  <2>5. Len(f[n]) = Len(f[n - 1]) + (3 + size[n])
    BY <2>2, <2>3
  <2> DEFINE a == Len(f[n])
             b == Len(f[n - 1])
             c == size[n]
  <2>6. a = b + (3 + c) /\ a \in Nat /\ b \in Nat /\ c \in Nat
    BY <2>2, <2>4, <2>5
  <2> HIDE DEF a, b, c
  <2>7. a = b + 3 + c /\ a \in Nat
    BY <2>6
  <2> QED BY <2>7 DEF a, b, c
<1>7. Len(f[0]) = 0
  BY <1>5
<1> DEFINE length == [n \in 0 .. 13 |-> Len(f[n])]
<1>8. size \in [1 .. 13 -> Nat]
  <2>1. size \in [1 .. 13 -> 0 .. 255 * 255 - 1]
    BY LengthsOf, Zenon DEF size
  <2>2. \A k \in 0 .. 255 * 255 - 1 : k \in Nat
    OBVIOUS
  <2> QED BY <2>1, <2>2
<1>9. /\ length \in [0 .. 13 -> Nat] /\ length[0] = 0
      /\ \A n \in 1 .. 13 : length[n] = length[n - 1] + 3 + size[n]
  <2>1. \A n \in 0 .. 13 : Len(f[n]) \in Nat
    BY <1>6, <1>7
  <2>2. \A n \in 1 .. 13 : n \in 0 .. 13 /\ n - 1 \in 0 .. 13
    OBVIOUS
  <2> QED BY <1>6, <1>7, <2>1, <2>2
<1> HIDE DEF length
<1>10. 1 + length[13] = 40 + size[1] + size[2] + size[3] + size[4] + size[5] + size[6]
                        + size[7] + size[8] + size[9] + size[10] + size[11] + size[12]
                        + size[13]
  BY <1>8, <1>9, ThirteenSteps
<1>11. f[13] \in T /\ FlattenSeq(parts) = f[13]
  <2>1. 13 \in 0 .. Len(parts)
    BY <1>3
  <2> QED BY <1>3, <1>5, <2>1
<1>12. <<Len(fields)>> \in Seq(Byte) /\ Len(<<Len(fields)>>) = 1
  <2>1. 13 \in Byte
    BY DEF Byte
  <2> QED BY <1>1, <2>1
<1> DEFINE first == <<Len(fields)>>
<1>13. first \in Seq(Byte) /\ Len(first) = 1 /\ Payload(fields) = first \o f[13]
  BY <1>4, <1>11, <1>12
<1> HIDE DEF first
<1>14. first \o f[13] \in Seq(Byte) /\ Len(first \o f[13]) = Len(first) + Len(f[13])
  BY <1>11, <1>13, ConcatProperties DEF T
<1>15. Len(Payload(fields)) = 1 + length[13]
  <2>1. length[13] = Len(f[13])
    BY DEF length
  <2> QED BY <1>13, <1>14, <2>1
<1>16. Len(Payload(fields))
       = 40 + size[1] + size[2] + size[3] + size[4] + size[5] + size[6] + size[7]
         + size[8] + size[9] + size[10] + size[11] + size[12] + size[13]
  BY <1>10, <1>15, Zenon
<1> QED BY <1>13, <1>14, <1>16 DEF size, fields

\* Thirds of what is put together.
LEMMA Thirds ==
    ASSUME NEW size \in [1 .. 13 -> Nat], NEW k \in Nat, NEW x \in {2, 4}, k % 3 = 0,
           size[1] = 2, size[2] = 2, size[6] = 4, size[7] = 4, size[9] = 5, size[10] = 9,
           size[11] = 2, size[3] % 3 = 2, size[4] % 3 = 2, size[5] % 3 = 2,
           size[8] = x, size[12] = x, size[13] = x
    PROVE  (1 + 4 * k + (40 + size[1] + size[2] + size[3] + size[4] + size[5] + size[6]
                            + size[7] + size[8] + size[9] + size[10] + size[11] + size[12]
                            + size[13])) % 3 = 0
<1>1. size[3] \in Nat /\ size[4] \in Nat /\ size[5] \in Nat
  OBVIOUS
<1>2. PICK a \in Nat, b \in Nat, c \in Nat, d \in Nat :
         size[3] = 3 * a + 2 /\ size[4] = 3 * b + 2 /\ size[5] = 3 * c + 2 /\ k = 3 * d
  <2>1. ASSUME NEW n \in Nat, NEW r \in {0, 2}, n % 3 = r PROVE \E q \in Nat : n = 3 * q + r
    <3> DEFINE q == n \div 3
    <3>1. r = n - 3 * q /\ q \in Nat
      BY <2>1
    <3> HIDE DEF q
    <3>2. q \in Nat /\ n = 3 * q + r
      BY <3>1
    <3> QED BY <3>2
  <2>2. PICK d \in Nat : k = 3 * d + 0
    BY <2>1
  <2>3. k = 3 * d
    BY <2>2
  <2>4. PICK a \in Nat : size[3] = 3 * a + 2
    BY <1>1, <2>1
  <2>5. PICK b \in Nat : size[4] = 3 * b + 2
    BY <1>1, <2>1
  <2>6. PICK c \in Nat : size[5] = 3 * c + 2
    BY <1>1, <2>1
  <2> QED BY <2>3, <2>4, <2>5, <2>6
<1>3. 1 + 4 * k + (40 + size[1] + size[2] + size[3] + size[4] + size[5] + size[6]
                            + size[7] + size[8] + size[9] + size[10] + size[11] + size[12]
                            + size[13])
      = 3 * (4 * d + 25 + a + b + c + x)
  BY <1>2
<1>4. \A n \in Nat : (3 * n) % 3 = 0
  OBVIOUS
<1>5. 4 * d + 25 + a + b + c + x \in Nat
  BY <1>2
<1> QED BY <1>3, <1>4, <1>5, Zenon

\* An X-Gnarly is not cut off when none or all of the fields that may be are short.
LEMMA WholeFits ==
    ASSUME NEW m \in Messages, ShortFields(Fields(m)) \in {0, 3}
    PROVE  (1 + 4 * KeyWords + Len(Payload(Fields(m)))) % 3 = 0
<1> DEFINE size == Sizes(m)
           short == {n \in DOMAIN Fields(m) : /\ Fields(m)[n].tag \in {0, 8, 12}
                                              /\ Len(Fields(m)[n].bytes) = 2}
<1>1. Cardinality(short) \in {0, 3}
  BY DEF ShortFields
<1>2. DOMAIN Fields(m) = 1 .. 13
  BY FieldsOf
<1>3. short = {n \in {8, 12, 13} : size[n] = 2}
  <2>1. \A n \in 1 .. 13 : Fields(m)[n].tag \in {0, 8, 12} <=> n \in {8, 12, 13}
    BY LengthsOf, Zenon
  <2>2. \A n \in 1 .. 13 : size[n] = Len(Fields(m)[n].bytes)
    BY DEF Sizes
  <2>3. {8, 12, 13} \subseteq 1 .. 13
    OBVIOUS
  <2> HIDE DEF size
  <2> QED BY <1>2, <2>1, <2>2, <2>3
<1>4. \A n \in {8, 12, 13} : size[n] \in {2, 4}
  BY LengthsOf, Zenon
<1> HIDE DEF size, short
<1>5. short = {} \/ short = {8, 12, 13}
  <2>1. IsFiniteSet({8, 12, 13}) /\ Cardinality({8, 12, 13}) = 3
    <3>1. IsFiniteSet({}) /\ Cardinality({}) = 0
      BY FS_EmptySet
    <3>2. IsFiniteSet({8}) /\ Cardinality({8}) = 1
      BY FS_Singleton
    <3>3. IsFiniteSet({8} \cup {12}) /\ Cardinality({8} \cup {12}) = 2
      BY <3>2, FS_AddElement
    <3>4. IsFiniteSet(({8} \cup {12}) \cup {13}) /\ Cardinality(({8} \cup {12}) \cup {13}) = 3
      BY <3>3, FS_AddElement
    <3>5. ({8} \cup {12}) \cup {13} = {8, 12, 13}
      OBVIOUS
    <3> QED BY <3>4, <3>5
  <2>2. short \in SUBSET {8, 12, 13}
    BY <1>3
  <2>3. IsFiniteSet(short) /\ (Cardinality(short) = 3 => short = {8, 12, 13})
    BY <2>1, <2>2, FS_Subset
  <2>4. Cardinality(short) = 0 => short = {}
    BY <2>3, FS_EmptySet
  <2> QED BY <1>1, <2>3, <2>4
<1>6. PICK x \in {2, 4} : size[8] = x /\ size[12] = x /\ size[13] = x
  <2>1. CASE short = {}
    BY <1>3, <1>4, <2>1
  <2>2. CASE short = {8, 12, 13}
    BY <1>3, <1>4, <2>2
  <2> QED BY <1>5, <2>1, <2>2
<1>7. KeyWords \in Nat /\ KeyWords % 3 = 0
  BY GeneratorAssumption, CipherAssumption DEF GeneratorAssumption, CipherAssumption
<1>8. size \in [1 .. 13 -> Nat]
  <2>1. size \in [1 .. 13 -> 0 .. 255 * 255 - 1]
    BY LengthsOf, Zenon DEF size
  <2>2. \A k \in 0 .. 255 * 255 - 1 : k \in Nat
    OBVIOUS
  <2> QED BY <2>1, <2>2
<1>9. /\ size[1] = 2 /\ size[2] = 2 /\ size[6] = 4 /\ size[7] = 4 /\ size[9] = 5
      /\ size[10] = 9 /\ size[11] = 2 /\ size[3] % 3 = 2 /\ size[4] % 3 = 2 /\ size[5] % 3 = 2
  <2>1. \A n \in {3, 4, 5} : size[n] % 3 = 2
    BY LengthsOf, Zenon DEF size
  <2> QED BY <2>1, LengthsOf DEF size
<1>10. (1 + 4 * KeyWords + (40 + size[1] + size[2] + size[3] + size[4] + size[5] + size[6]
                            + size[7] + size[8] + size[9] + size[10] + size[11] + size[12]
                            + size[13])) % 3 = 0
  BY <1>6, <1>7, <1>8, <1>9, Thirds
<1>11. Len(Payload(Fields(m)))
       = 40 + size[1] + size[2] + size[3] + size[4] + size[5] + size[6] + size[7]
         + size[8] + size[9] + size[10] + size[11] + size[12] + size[13]
  BY PayloadOf, Zenon DEF size
<1> QED BY <1>10, <1>11, Zenon

\* Who knows how long the key is gets the payload back.
LEMMA GnarlyGivesPayload ==
    ASSUME NEW words \in [1 .. KeyWords -> DrawnWords], NEW m \in Messages,
           ShortFields(Fields(m)) \in {0, 3}
    PROVE  OpenedGnarly(Gnarly(Payload(Fields(m)), words), 4 * KeyWords) = Payload(Fields(m))
<1> DEFINE payload == Payload(Fields(m))
           keyBytes == KeyBytes(words)
           encrypted == Encrypted(keyBytes, payload)
           assembled == Assembled(keyBytes, encrypted)
           body == Tail(assembled)
           p == Sum(body) % (Len(body) - Len(keyBytes) + 1)
<1>1. payload \in Seq(Byte)
  BY PayloadOf
<1>2. keyBytes \in Seq(Byte) /\ Len(keyBytes) = 4 * KeyWords /\ KeyWords \in Nat
  BY BytesOfKey, GeneratorAssumption DEF GeneratorAssumption
<1>3. \A block \in 0 .. (Len(payload) - 1) \div 64 :
         Keystream(keyBytes, Rounds(keyBytes), block) \in [1 .. 64 -> Byte]
  BY CipherAssumption DEF CipherAssumption
<1> HIDE DEF payload, keyBytes
<1>4. /\ encrypted \in Seq(Byte) /\ Len(encrypted) = Len(payload)
      /\ Encrypted(keyBytes, encrypted) = payload
  BY <1>1, <1>3, EncryptedTwice
<1> HIDE DEF encrypted
<1>5. /\ assembled \in Seq(Byte) /\ Len(assembled) = 1 + Len(keyBytes) + Len(encrypted)
      /\ SubSeq(body, p + 1, p + Len(keyBytes)) = keyBytes
      /\ SubSeq(body, 1, p) \o SubSeq(body, p + Len(keyBytes) + 1, Len(body)) = encrypted
  <2> HIDE DEF body, p
  <2>2. /\ Assembled(keyBytes, encrypted) \in Seq(Byte)
        /\ Len(Assembled(keyBytes, encrypted)) = 1 + Len(keyBytes) + Len(encrypted)
        /\ SubSeq(body, p + 1, p + Len(keyBytes)) = keyBytes
        /\ SubSeq(body, 1, p) \o SubSeq(body, p + Len(keyBytes) + 1, Len(body)) = encrypted
    BY <1>2, <1>4, KeyIsFound, Zenon DEF body, p
  <2> QED BY <2>2
<1> HIDE DEF assembled
<1>6. Len(assembled) % 3 = 0
  <2>1. (1 + 4 * KeyWords + Len(payload)) % 3 = 0
    BY WholeFits DEF payload
  <2> QED BY <1>2, <1>4, <1>5, <2>1
<1>7. Decoded(Encoded(assembled)) = assembled
  BY <1>5, <1>6, EncodingOpens
<1>8. Gnarly(payload, words) = Encoded(assembled)
  BY DEF Gnarly, assembled, encrypted, keyBytes
<1> DEFINE found == SubSeq(body, p + 1, p + 4 * KeyWords)
           rest == SubSeq(body, 1, p) \o SubSeq(body, p + 4 * KeyWords + 1, Len(body))
<1>9. p = Sum(body) % ((Len(body) - 4 * KeyWords) + 1)
  BY <1>2
<1>10. OpenedGnarly(Gnarly(payload, words), 4 * KeyWords) = Encrypted(found, rest)
  BY <1>7, <1>8, <1>9, Zenon DEF OpenedGnarly
<1>11. found = keyBytes /\ rest = encrypted
  BY <1>2, <1>5
<1> HIDE DEF found, rest
<1>12. OpenedGnarly(Gnarly(payload, words), 4 * KeyWords) = payload
  BY <1>4, <1>10, <1>11
<1> QED BY <1>12 DEF payload

-----------------------------------------------------------------------------
(* Checksums of bytes.                                                       *)

\* The exclusive or of bytes is one of them, is associative, and cancels.
LEMMA XorOnBytes ==
    ASSUME NEW a \in Byte, NEW b \in Byte, NEW c \in Byte
    PROVE  /\ Xor(a, b) \in Byte /\ Xor(Xor(a, b), c) = Xor(a, Xor(b, c))
           /\ Xor(a, a) = 0 /\ Xor(0, a) = a /\ Xor(a, 0) = a /\ Xor(Xor(a, b), b) = a
<1>1. \A x, y \in Byte : Xor(x, y) = XorBytes[x][y] /\ Xor(x, y) \in Byte
  BY XorOfWords, XorOfBytes
<1>2. \A x, y \in Byte, k \in 1 .. 8 : Bits(Xor(x, y))[k] = (Bits(x)[k] + Bits(y)[k]) % 2
  <2> TAKE x, y \in Byte, k \in 1 .. 8
  <2>1. Bits(XorBytes[x][y])[k] = (Bits(x)[k] + Bits(y)[k]) % 2
    BY XorOfBytes
  <2>2. Xor(x, y) = XorBytes[x][y]
    BY <1>1
  <2> QED BY <2>1, <2>2, Zenon
<1>3. \A x \in Byte, k \in 1 .. 8 : Bits(x)[k] \in {0, 1}
  BY BitsOfByte
<1>4. 0 \in Byte /\ \A k \in 1 .. 8 : Bits(0)[k] = 0
  <2>1. 0 % 2 = 0 /\ (0 \div 2) % 2 = 0 /\ (0 \div 4) % 2 = 0 /\ (0 \div 8) % 2 = 0
        /\ (0 \div 16) % 2 = 0 /\ (0 \div 32) % 2 = 0 /\ (0 \div 64) % 2 = 0
        /\ (0 \div 128) % 2 = 0
    OBVIOUS
  <2>2. \A k \in 1 .. 8 : k = 1 \/ k = 2 \/ k = 3 \/ k = 4 \/ k = 5 \/ k = 6 \/ k = 7 \/ k = 8
    OBVIOUS
  <2> QED BY <2>1, <2>2 DEF Byte, Bits
<1>5. \A x, y, z \in {0, 1} : /\ (((x + y) % 2) + z) % 2 = (x + ((y + z) % 2)) % 2
                              /\ (x + x) % 2 = 0 /\ (0 + x) % 2 = x /\ (x + 0) % 2 = x
                              /\ (((x + y) % 2) + y) % 2 = x
  OBVIOUS
<1>6. Xor(Xor(a, b), c) = Xor(a, Xor(b, c))
  <2>1. ASSUME NEW k \in 1 .. 8 PROVE Bits(Xor(Xor(a, b), c))[k] = Bits(Xor(a, Xor(b, c)))[k]
    <3>1. /\ Bits(Xor(Xor(a, b), c))[k] = (((Bits(a)[k] + Bits(b)[k]) % 2) + Bits(c)[k]) % 2
          /\ Bits(Xor(a, Xor(b, c)))[k] = (Bits(a)[k] + ((Bits(b)[k] + Bits(c)[k]) % 2)) % 2
      <4>1. Xor(a, b) \in Byte /\ Xor(b, c) \in Byte
        BY <1>1
      <4>2. /\ Bits(Xor(Xor(a, b), c))[k] = (Bits(Xor(a, b))[k] + Bits(c)[k]) % 2
            /\ Bits(Xor(a, Xor(b, c)))[k] = (Bits(a)[k] + Bits(Xor(b, c))[k]) % 2
            /\ Bits(Xor(a, b))[k] = (Bits(a)[k] + Bits(b)[k]) % 2
            /\ Bits(Xor(b, c))[k] = (Bits(b)[k] + Bits(c)[k]) % 2
        BY <1>2, <4>1, Zenon
      <4> QED BY <4>2
    <3> QED BY <1>3, <1>5, <3>1
  <2> QED BY <1>1, <2>1, SameBits
<1>7. Xor(a, a) = 0 /\ Xor(0, a) = a /\ Xor(a, 0) = a
  <2>1. ASSUME NEW k \in 1 .. 8
        PROVE  /\ Bits(Xor(a, a))[k] = Bits(0)[k] /\ Bits(Xor(0, a))[k] = Bits(a)[k]
               /\ Bits(Xor(a, 0))[k] = Bits(a)[k]
    BY <1>2, <1>3, <1>4, <1>5
  <2> QED BY <1>1, <1>4, <2>1, SameBits
<1>8. Xor(Xor(a, b), b) = a
  <2>1. Xor(a, b) \in Byte /\ Xor(a, b) = XorBytes[a][b]
        /\ Xor(Xor(a, b), b) = XorBytes[Xor(a, b)][b]
    BY <1>1, Zenon
  <2>2. XorBytes[XorBytes[a][b]][b] = a
    BY XorTwice
  <2> QED BY <2>1, <2>2, Zenon
<1> QED BY <1>1, <1>6, <1>7, <1>8

\* What is combined with all that came after it leaves nothing.
LEMMA ChecksumCancels ==
    ASSUME NEW a \in Byte, NEW mid \in Seq(Byte), NEW s \in Seq(Byte),
           Len(s) = Len(mid) + 2, s[1] = a, \A i \in 1 .. Len(mid) : s[i + 1] = mid[i],
           s[Len(mid) + 2] = Xor(a, XorAll(mid))
    PROVE  XorAll(s) = 0
<1> DEFINE n == Len(mid)
<1>1. n \in Nat /\ Byte \subseteq Nat
  BY DEF Byte
<1>2. mid \in Seq(Nat) /\ s \in Seq(Nat)
  BY <1>1, SeqMonotonic
<1>3. PICK g \in [0 .. n -> Nat] :
         g[0] = 0 /\ XorAll(mid) = g[n] /\ \A i \in 1 .. n : g[i] = Xor(g[i - 1], mid[i])
  BY <1>2, XorSteps
<1>4. PICK f \in [0 .. n + 2 -> Nat] :
         f[0] = 0 /\ XorAll(s) = f[n + 2] /\ \A i \in 1 .. n + 2 : f[i] = Xor(f[i - 1], s[i])
  BY <1>2, XorSteps
<1> HIDE DEF n
<1>5. f[1] = a
  <2>1. 1 \in 1 .. n + 2 /\ 1 - 1 = 0
    BY <1>1
  <2>2. f[1] = Xor(0, a)
    BY <1>4, <2>1
  <2> QED BY <2>2, XorOnBytes
<1> DEFINE right == {i \in Nat : g[i] \in Byte /\ f[i + 1] = Xor(a, g[i])}
<1>6. 0 \in right
  <2>1. 0 \in Byte
    BY DEF Byte
  <2> QED BY <1>3, <1>5, <2>1, XorOnBytes
<1>7. ASSUME NEW i \in 1 .. n, i - 1 \in right PROVE i \in right
  <2>1. i + 1 \in 1 .. n + 2 /\ (i + 1) - 1 = i /\ (i - 1) + 1 = i /\ i \in Nat
    BY <1>1
  <2>2. mid[i] \in Byte /\ s[i + 1] = mid[i]
    BY DEF n
  <2>3. g[i - 1] \in Byte /\ f[i] = Xor(a, g[i - 1])
    BY <1>7, <2>1
  <2>4. f[i + 1] = Xor(f[i], mid[i]) /\ g[i] = Xor(g[i - 1], mid[i])
    <3>1. f[i + 1] = Xor(f[(i + 1) - 1], s[i + 1])
      BY <1>4, <2>1
    <3> QED BY <1>3, <2>1, <2>2, <3>1
  <2>5. g[i] \in Byte /\ Xor(Xor(a, g[i - 1]), mid[i]) = Xor(a, Xor(g[i - 1], mid[i]))
    <3> DEFINE x == g[i - 1]
               y == mid[i]
    <3>0. x \in Byte /\ y \in Byte
      BY <2>2, <2>3
    <3> HIDE DEF x, y
    <3>2. Xor(x, y) \in Byte /\ Xor(Xor(a, x), y) = Xor(a, Xor(x, y))
      BY <3>0, XorOnBytes
    <3>1. Xor(g[i - 1], mid[i]) \in Byte
          /\ Xor(Xor(a, g[i - 1]), mid[i]) = Xor(a, Xor(g[i - 1], mid[i]))
      BY <3>2 DEF x, y
    <3> QED BY <2>4, <3>1, Zenon
  <2> QED BY <2>1, <2>3, <2>4, <2>5
<1> HIDE DEF right
<1>8. n \in right
  BY <1>1, <1>6, <1>7, CountUp
<1>9. g[n] \in Byte /\ f[n + 1] = Xor(a, g[n]) /\ Xor(a, g[n]) \in Byte
  BY <1>8, XorOnBytes DEF right
<1>10. f[n + 2] = Xor(f[n + 1], s[n + 2])
  <2>1. n + 2 \in 1 .. n + 2 /\ (n + 2) - 1 = n + 1
    BY <1>1
  <2>2. f[n + 2] = Xor(f[(n + 2) - 1], s[n + 2])
    BY <1>4, <2>1
  <2> QED BY <2>1, <2>2
<1>11. s[n + 2] = Xor(a, g[n])
  BY <1>3 DEF n
<1> QED BY <1>4, <1>9, <1>10, <1>11, XorOnBytes

-----------------------------------------------------------------------------
(* The salt, and an X-Bogus taken apart.                                     *)

\* A number by its four bytes.
LEMMA FourBytes ==
    ASSUME NEW n \in Nat
    PROVE  BigEndian(n, 4) \in Seq(Byte) /\ Len(BigEndian(n, 4)) = 4
<1> DEFINE d(k) == (n \div Weights[4 - 4 + k]) % 256
<1>1. d(1) = (n \div 16777216) % 256 /\ d(2) = (n \div 65536) % 256
      /\ d(3) = (n \div 256) % 256 /\ d(4) = (n \div 1) % 256
  BY DEF Weights
<1>2. n \div 256 \in Nat /\ n \div 1 \in Nat /\ n \div 65536 \in Nat /\ n \div 16777216 \in Nat
  OBVIOUS
<1>3. \A m \in Nat : m % 256 \in Byte
  BY DEF Byte
<1>4. \A k \in 1 .. 4 : d(k) \in Byte
  <2>1. d(1) \in Byte /\ d(2) \in Byte /\ d(3) \in Byte /\ d(4) \in Byte
    BY <1>1, <1>2, <1>3
  <2> HIDE DEF d
  <2> QED BY <2>1
<1>5. BigEndian(n, 4) = [k \in 1 .. 4 |-> d(k)]
  BY DEF BigEndian
<1> HIDE DEF d
<1>6. BigEndian(n, 4) \in [1 .. 4 -> Byte]
  BY <1>4, <1>5
<1>7. \A i \in Nat : \A u \in [1 .. i -> Byte] : u \in Seq(Byte) /\ Len(u) = i
  OBVIOUS
<1>8. 4 \in Nat
  OBVIOUS
<1> QED BY <1>6, <1>7, <1>8, Zenon

\* What stands where in the salt: 64, what is signed, the time, and what makes up for it.
LEMMA SaltOf ==
    ASSUME NEW m \in Messages
    PROVE  LET salt == Salt(m)
           IN  /\ \A i \in 3 .. 20 : salt[i] \in Byte
               /\ salt[3] = 64 /\ salt[7] = m.query.bogus[1] /\ salt[8] = m.query.bogus[2]
               /\ \A i \in 1 .. 4 : salt[12 + i] = BigEndian(m.seconds, 4)[i]
               /\ \E mid \in Seq(Byte) :
                     /\ Len(mid) = 17 /\ \A i \in 1 .. 17 : mid[i] = salt[i + 3]
                     /\ salt[21] = Xor(64, XorAll(mid))
<1> DEFINE q == m.query.bogus
           first == <<m.seconds, Magic, 64, 0, 1, 14, q[1], q[2],
                      Body.bogus[1], Body.bogus[2], Agent.bogus[1], Agent.bogus[2]>>
           time == BigEndian(m.seconds, 4)
           magic == BigEndian(Magic, 4)
           head == first \o time
           given == head \o magic
           last == <<SaltChecksum(given), 255>>
           mid == SubSeq(given, 4, Len(given))
           salt == given \o last
<1>1. salt = Salt(m)
  BY DEF Salt
<1>2. m.seconds \in Nat /\ Magic \in Nat
  BY MessageParts DEF Magic
<1>3. /\ q[1] \in Byte /\ q[2] \in Byte /\ Body.bogus[1] \in Byte /\ Body.bogus[2] \in Byte
      /\ Agent.bogus[1] \in Byte /\ Agent.bogus[2] \in Byte
  BY MessageParts, GivenParts
<1>4. Byte \subseteq Nat /\ \A n \in {64, 0, 1, 14} : n \in Byte
  BY DEF Byte
<1> HIDE DEF q
<1>5. /\ first \in Seq(Nat) /\ Len(first) = 12
      /\ first[3] = 64 /\ first[7] = q[1] /\ first[8] = q[2]
      /\ \A i \in 3 .. 12 : first[i] \in Byte
  <2>1. first \in Seq(Nat) /\ Len(first) = 12
    <3>1. q[1] \in Nat /\ q[2] \in Nat /\ Body.bogus[1] \in Nat /\ Body.bogus[2] \in Nat
          /\ Agent.bogus[1] \in Nat /\ Agent.bogus[2] \in Nat
      BY <1>3, <1>4
    <3> QED BY <1>2, <3>1
  <2>2. /\ first[3] = 64 /\ first[4] = 0 /\ first[5] = 1 /\ first[6] = 14
        /\ first[7] = q[1] /\ first[8] = q[2] /\ first[9] = Body.bogus[1]
        /\ first[10] = Body.bogus[2] /\ first[11] = Agent.bogus[1] /\ first[12] = Agent.bogus[2]
    OBVIOUS
  <2>3. \A i \in 3 .. 12 : i = 3 \/ i = 4 \/ i = 5 \/ i = 6 \/ i = 7 \/ i = 8 \/ i = 9 \/ i = 10
                           \/ i = 11 \/ i = 12
    OBVIOUS
  <2> HIDE DEF first
  <2>4. \A i \in 3 .. 12 : first[i] \in Byte
    BY <1>3, <1>4, <2>2, <2>3
  <2> QED BY <2>1, <2>2, <2>4
<1>6. /\ time \in Seq(Nat) /\ Len(time) = 4 /\ \A i \in 1 .. 4 : time[i] \in Byte
      /\ magic \in Seq(Nat) /\ Len(magic) = 4 /\ \A i \in 1 .. 4 : magic[i] \in Byte
  <2>1. time \in Seq(Byte) /\ Len(time) = 4 /\ magic \in Seq(Byte) /\ Len(magic) = 4
    BY <1>2, FourBytes
  <2> HIDE DEF time, magic
  <2>2. time \in Seq(Nat) /\ magic \in Seq(Nat)
    BY <1>4, <2>1, SeqMonotonic
  <2>3. (\A i \in 1 .. 4 : time[i] \in Byte) /\ \A i \in 1 .. 4 : magic[i] \in Byte
    BY <2>1
  <2> QED BY <2>1, <2>2, <2>3
<1> HIDE DEF first, time, magic
<1>7. /\ head \in Seq(Nat) /\ Len(head) = 16
      /\ \A i \in 1 .. 12 : head[i] = first[i]
      /\ \A i \in 1 .. 4 : head[12 + i] = time[i]
  <2>1. /\ head \in Seq(Nat) /\ Len(head) = Len(first) + Len(time)
        /\ \A i \in 1 .. Len(first) : head[i] = first[i]
        /\ \A i \in 1 .. Len(time) : head[Len(first) + i] = time[i]
    <3>1. first \in Seq(Nat) /\ time \in Seq(Nat)
      BY <1>5, <1>6
    <3> QED BY <3>1, Joined
  <2> HIDE DEF head
  <2> QED BY <1>5, <1>6, <2>1
<1> HIDE DEF head
<1>8. /\ given \in Seq(Nat) /\ Len(given) = 20
      /\ \A i \in 1 .. 16 : given[i] = head[i]
      /\ \A i \in 1 .. 4 : given[16 + i] = magic[i]
  <2>1. /\ given \in Seq(Nat) /\ Len(given) = Len(head) + Len(magic)
        /\ \A i \in 1 .. Len(head) : given[i] = head[i]
        /\ \A i \in 1 .. Len(magic) : given[Len(head) + i] = magic[i]
    <3>1. head \in Seq(Nat) /\ magic \in Seq(Nat)
      BY <1>6, <1>7
    <3> QED BY <3>1, Joined
  <2> HIDE DEF given
  <2> QED BY <1>6, <1>7, <2>1
<1> HIDE DEF given
<1>9. \A i \in 3 .. 20 : given[i] \in Byte
  <2> TAKE i \in 3 .. 20
  <2>1. CASE i <= 12
    BY <1>5, <1>7, <1>8, <2>1
  <2>2. CASE i > 12 /\ i <= 16
    <3>1. i - 12 \in 1 .. 4 /\ 12 + (i - 12) = i /\ i \in 1 .. 16
      BY <2>2
    <3> QED BY <1>6, <1>7, <1>8, <3>1
  <2>3. CASE i > 16
    <3>1. i - 16 \in 1 .. 4 /\ 16 + (i - 16) = i
      BY <2>3
    <3> QED BY <1>6, <1>8, <3>1
  <2> QED BY <2>1, <2>2, <2>3
<1>10. mid \in Seq(Byte) /\ Len(mid) = 17 /\ \A i \in 1 .. 17 : mid[i] = given[i + 3]
  <2>1. mid = SubSeq(given, 4, 20) /\ given \in Seq(Nat) /\ Len(given) = 20
    BY <1>8
  <2> HIDE DEF mid
  <2>2. mid = [i \in 1 .. 17 |-> given[i + 3]]
    <3>1. \A i \in 1 .. 17 : given[i + 4 - 1] = given[i + 3]
      OBVIOUS
    <3>2. SubSeq(given, 4, 20) = [i \in 1 .. (1 + 20 - 4) |-> given[i + 4 - 1]]
      BY <2>1
    <3> QED BY <2>1, <3>1, <3>2
  <2>3. \A i \in 1 .. 17 : i + 3 \in 3 .. 20
    OBVIOUS
  <2>4. mid \in [1 .. 17 -> Byte]
    BY <1>9, <2>2, <2>3
  <2>5. mid \in Seq(Byte) /\ Len(mid) = 17
    <3>1. \A k \in Nat : \A u \in [1 .. k -> Byte] : u \in Seq(Byte) /\ Len(u) = k
      OBVIOUS
    <3>2. 17 \in Nat
      OBVIOUS
    <3> QED BY <2>4, <3>1, <3>2, Zenon
  <2> QED BY <2>2, <2>5
<1>11. SaltChecksum(given) = Xor(64, XorAll(mid))
  BY DEF SaltChecksum
<1> DEFINE check == SaltChecksum(given)
<1>12. check \in Nat
  <2>1. mid \in Seq(Nat)
    BY <1>4, <1>10, SeqMonotonic
  <2>2. XorAll(mid) \in Nat /\ 64 \in Nat
    BY <2>1, XorAllNumber
  <2> QED BY <1>11, <2>2, XorOfWords
<1> HIDE DEF mid, check
<1>13. last = <<check, 255>>
  BY DEF check
<1>14. last \in Seq(Nat) /\ Len(last) = 2 /\ last[1] = check
  BY <1>12, <1>13
<1> HIDE DEF last
<1>15. (\A i \in 1 .. 20 : salt[i] = given[i]) /\ salt[21] = check
  <2>1. /\ \A i \in 1 .. Len(given) : salt[i] = given[i]
        /\ \A i \in 1 .. Len(last) : salt[Len(given) + i] = last[i]
    <3>1. given \in Seq(Nat) /\ last \in Seq(Nat)
      BY <1>8, <1>14
    <3> QED BY <3>1, Joined
  <2> HIDE DEF salt
  <2>2. 1 \in 1 .. Len(last) /\ Len(given) + 1 = 21
    BY <1>8, <1>14
  <2>3. salt[Len(given) + 1] = last[1]
    BY <2>1, <2>2
  <2> QED BY <1>8, <1>14, <2>1, <2>2, <2>3
<1> HIDE DEF salt
<1>16. /\ \A i \in 3 .. 20 : salt[i] \in Byte
       /\ salt[3] = 64 /\ salt[7] = q[1] /\ salt[8] = q[2]
       /\ \A i \in 1 .. 4 : salt[12 + i] = time[i]
  <2>1. \A i \in 3 .. 20 : i \in 1 .. 20
    OBVIOUS
  <2>2. \A i \in {3, 7, 8} : salt[i] = first[i]
    <3>1. \A i \in {3, 7, 8} : i \in 1 .. 12 /\ i \in 1 .. 16 /\ i \in 1 .. 20
      OBVIOUS
    <3> QED BY <1>7, <1>8, <1>15, <3>1
  <2>3. \A i \in 1 .. 4 : salt[12 + i] = time[i]
    <3>1. \A i \in 1 .. 4 : 12 + i \in 1 .. 20 /\ 12 + i \in 1 .. 16
      OBVIOUS
    <3> QED BY <1>7, <1>8, <1>15, <3>1
  <2> QED BY <1>5, <1>9, <1>15, <2>1, <2>2, <2>3
<1>17. /\ \A i \in 1 .. 17 : mid[i] = salt[i + 3]
       /\ salt[21] = Xor(64, XorAll(mid))
  <2>1. \A i \in 1 .. 17 : i + 3 \in 1 .. 20
    OBVIOUS
  <2> QED BY <1>10, <1>11, <1>15, <2>1 DEF check
<1> QED BY <1>1, <1>10, <1>16, <1>17 DEF q, time

\* Filtered and scrambled, a salt is what it was from the third byte to the last but one.
LEMMA Places ==
    ASSUME NEW s, NEW n \in 1 .. 19
    PROVE  Scrambled(Filtered(s))[n] = s[n + 2]
<1> DEFINE b == Filtered(s)
<1>1. CASE n % 2 = 1
  <2> DEFINE k == (n + 1) \div 2
  <2>1. k \in 1 .. 10 /\ 2 * k + 1 = n + 2
    BY <1>1
  <2>2. Scrambled(b)[n] = b[k]
    BY <1>1 DEF Scrambled
  <2> HIDE DEF k
  <2>3. k \in 1 .. 19 /\ k <= 10
    BY <2>1
  <2>4. b[k] = s[2 * k + 1]
    BY <2>3 DEF Filtered
  <2> QED BY <2>1, <2>2, <2>4
<1>2. CASE n % 2 # 1
  <2> DEFINE k == 10 + n \div 2
  <2>1. k \in 11 .. 19 /\ 2 * (k - 10) + 2 = n + 2
    BY <1>2
  <2>2. Scrambled(b)[n] = b[k]
    BY <1>2 DEF Scrambled
  <2> HIDE DEF k
  <2>3. k \in 1 .. 19 /\ ~ (k <= 10)
    BY <2>1
  <2>4. b[k] = s[2 * (k - 10) + 2]
    BY <2>3 DEF Filtered
  <2> QED BY <2>1, <2>2, <2>4
<1> QED BY <1>1, <1>2

\* Bytes combined are a byte.
LEMMA XorAllByte ==
    ASSUME NEW s \in Seq(Byte)
    PROVE  XorAll(s) \in Byte
<1>1. s \in Seq(Nat) /\ Len(s) \in Nat
  <2>1. Byte \subseteq Nat
    BY DEF Byte
  <2>2. s \in Seq(Nat)
    BY <2>1, SeqMonotonic
  <2> QED BY <2>2
<1>2. PICK f \in [0 .. Len(s) -> Nat] :
         f[0] = 0 /\ XorAll(s) = f[Len(s)] /\ \A n \in 1 .. Len(s) : f[n] = Xor(f[n - 1], s[n])
  BY <1>1, XorSteps
<1> DEFINE right == {n \in Nat : f[n] \in Byte}
<1>3. 0 \in right
  BY <1>2 DEF Byte
<1>4. ASSUME NEW n \in 1 .. Len(s), n - 1 \in right PROVE n \in right
  <2>1. f[n - 1] \in Byte /\ s[n] \in Byte
    BY <1>4
  <2>2. Xor(f[n - 1], s[n]) \in Byte
    <3> DEFINE x == f[n - 1]
               y == s[n]
    <3>1. x \in Byte /\ y \in Byte
      BY <2>1
    <3> HIDE DEF x, y
    <3>2. Xor(x, y) \in Byte
      BY <3>1, XorOnBytes
    <3> QED BY <3>2 DEF x, y
  <2>3. f[n] = Xor(f[n - 1], s[n])
    BY <1>2
  <2> QED BY <2>2, <2>3
<1> HIDE DEF right
<1>5. Len(s) \in right
  BY <1>1, <1>3, <1>4, CountUp
<1> QED BY <1>2, <1>5 DEF right

\* Who takes an X-Bogus apart gets the salt from the third byte to the last but one.
LEMMA BogusOpens ==
    ASSUME NEW m \in Messages
    PROVE  /\ OpenedBogus(Bogus(m)) = [n \in 1 .. 19 |-> Salt(m)[n + 2]]
           /\ \A n \in 1 .. 19 : Salt(m)[n + 2] \in Byte
<1> DEFINE salt == Salt(m)
           mixed == [n \in 1 .. 19 |-> Xor(Scrambled(Filtered(salt))[n], Rc4Stream[n])]
           bytes == <<2, 255>> \o mixed
<1>1. \A n \in 1 .. 19 : salt[n + 2] \in Byte
  <2>1. (\A i \in 3 .. 20 : salt[i] \in Byte) /\ salt[21] \in Byte
    <3>1. PICK mid \in Seq(Byte) : salt[21] = Xor(64, XorAll(mid))
      BY SaltOf
    <3>2. 64 \in Byte /\ XorAll(mid) \in Byte
      BY XorAllByte DEF Byte
    <3>3. Xor(64, XorAll(mid)) \in Byte
      BY <3>2, XorOnBytes
    <3> QED BY <3>1, <3>3, SaltOf
  <2>2. \A n \in 1 .. 19 : n + 2 \in 3 .. 20 \/ n + 2 = 21
    OBVIOUS
  <2> HIDE DEF salt
  <2> QED BY <2>1, <2>2
<1> HIDE DEF salt
<1>2. \A n \in 1 .. 19 : Rc4Stream[n] \in Byte
  BY CipherAssumption DEF CipherAssumption
<1>3. \A n \in 1 .. 19 : mixed[n] = Xor(salt[n + 2], Rc4Stream[n])
  BY Places
<1>4. \A n \in 1 .. 19 : mixed[n] \in Byte /\ Xor(mixed[n], Rc4Stream[n]) = salt[n + 2]
  <2> TAKE n \in 1 .. 19
  <2> DEFINE x == salt[n + 2]
             y == Rc4Stream[n]
  <2>1. x \in Byte /\ y \in Byte
    BY <1>1, <1>2
  <2> HIDE DEF x, y
  <2>2. Xor(x, y) \in Byte /\ Xor(Xor(x, y), y) = x
    BY <2>1, XorOnBytes
  <2>3. mixed[n] = Xor(x, y)
    BY <1>3 DEF x, y
  <2> HIDE DEF mixed
  <2>4. mixed[n] \in Byte /\ Xor(mixed[n], y) = x
    BY <2>2, <2>3, Zenon
  <2> QED BY <2>4 DEF x, y
<1>5. mixed \in Seq(Byte) /\ Len(mixed) = 19
  <2>1. mixed \in [1 .. 19 -> Byte]
    BY <1>4
  <2>2. \A k \in Nat : \A u \in [1 .. k -> Byte] : u \in Seq(Byte) /\ Len(u) = k
    OBVIOUS
  <2>3. 19 \in Nat
    OBVIOUS
  <2> HIDE DEF mixed
  <2> QED BY <2>1, <2>2, <2>3, Zenon
<1> HIDE DEF mixed
<1>6. bytes \in Seq(Byte) /\ Len(bytes) = 21 /\ \A n \in 1 .. 19 : bytes[n + 2] = mixed[n]
  <2> DEFINE head == <<2, 255>>
  <2>1. head \in Seq(Byte) /\ Len(head) = 2
    BY DEF Byte
  <2>2. bytes = head \o mixed
    OBVIOUS
  <2> HIDE DEF head, bytes
  <2>3. /\ head \o mixed \in Seq(Byte) /\ Len(head \o mixed) = Len(head) + Len(mixed)
        /\ \A i \in 1 .. Len(mixed) : (head \o mixed)[Len(head) + i] = mixed[i]
    <3>1. head \in Seq(Byte) /\ mixed \in Seq(Byte)
      BY <1>5, <2>1
    <3> QED BY <3>1, Joined
  <2>4. \A n \in 1 .. 19 : bytes[2 + n] = mixed[n]
    BY <1>5, <2>1, <2>2, <2>3
  <2>5. \A n \in 1 .. 19 : 2 + n = n + 2
    OBVIOUS
  <2>6. \A n \in 1 .. 19 : bytes[n + 2] = mixed[n]
    BY <2>4, <2>5
  <2>7. bytes \in Seq(Byte) /\ Len(bytes) = Len(head) + Len(mixed)
    BY <2>2, <2>3, Zenon
  <2>8. Len(bytes) = 21
    BY <1>5, <2>1, <2>7
  <2> QED BY <2>6, <2>7, <2>8, Zenon
<1> HIDE DEF bytes
<1>7. Bogus(m) = Encoded(bytes)
  <2>1. Bogus(m) = BogusEncoded(bytes)
    BY DEF Bogus, bytes, mixed, salt
  <2>2. 3 * (Len(bytes) \div 3) + 1 > Len(bytes)
    BY <1>6
  <2> QED BY <2>1, <2>2 DEF BogusEncoded
<1>8. Decoded(Bogus(m)) = bytes
  <2>1. Len(bytes) % 3 = 0
    BY <1>6
  <2>2. Decoded(Encoded(bytes)) = bytes
    BY <1>6, <2>1, EncodingOpens
  <2> QED BY <1>7, <2>2, Zenon
<1>9. OpenedBogus(Bogus(m)) = [n \in 1 .. 19 |-> Xor(bytes[n + 2], Rc4Stream[n])]
  BY <1>8, Zenon DEF OpenedBogus
<1>10. \A n \in 1 .. 19 : Xor(bytes[n + 2], Rc4Stream[n]) = salt[n + 2]
  <2> TAKE n \in 1 .. 19
  <2>1. bytes[n + 2] = mixed[n] /\ Xor(mixed[n], Rc4Stream[n]) = salt[n + 2]
    BY <1>4, <1>6
  <2> QED BY <2>1, Zenon
<1>11. OpenedBogus(Bogus(m)) = [n \in 1 .. 19 |-> salt[n + 2]]
  BY <1>9, <1>10
<1> QED BY <1>1, <1>11 DEF salt

\* The bytes of an X-Bogus cancel out, and carry the hash and the time.
LEMMA EveryBogusAddsUp ==
    ASSUME NEW m \in Messages
    PROVE  AddsUp(m)
<1> DEFINE bytes == OpenedBogus(Bogus(m))
           salt == Salt(m)
           time == BigEndian(m.seconds, 4)
<1>1. /\ bytes \in Seq(Byte) /\ Len(bytes) = 19
      /\ \A n \in 1 .. 19 : bytes[n] \in Byte /\ bytes[n] = salt[n + 2]
  <2>1. bytes = [n \in 1 .. 19 |-> salt[n + 2]] /\ \A n \in 1 .. 19 : salt[n + 2] \in Byte
    BY BogusOpens
  <2> HIDE DEF bytes, salt
  <2>2. bytes \in [1 .. 19 -> Byte]
    BY <2>1
  <2>3. \A k \in Nat : \A u \in [1 .. k -> Byte] : u \in Seq(Byte) /\ Len(u) = k
    OBVIOUS
  <2>4. 19 \in Nat
    OBVIOUS
  <2>5. bytes \in Seq(Byte) /\ Len(bytes) = 19
    BY <2>2, <2>3, <2>4, ZenonT(40)
  <2>6. \A n \in 1 .. 19 : bytes[n] \in Byte /\ bytes[n] = salt[n + 2]
    BY <2>1
  <2> QED BY <2>5, <2>6
<1>2. PICK mid \in Seq(Byte) :
         /\ Len(mid) = 17 /\ \A i \in 1 .. 17 : mid[i] = salt[i + 3]
         /\ salt[21] = Xor(64, XorAll(mid))
  BY SaltOf
<1>3. /\ salt[3] = 64 /\ salt[7] = m.query.bogus[1] /\ salt[8] = m.query.bogus[2]
      /\ \A i \in 1 .. 4 : salt[12 + i] = time[i]
  BY SaltOf
<1>4. time \in Seq(Byte) /\ Len(time) = 4
  BY MessageParts, FourBytes
<1>5. m.query.bogus = <<m.query.bogus[1], m.query.bogus[2]>>
  BY MessageParts, GivenParts
<1> HIDE DEF bytes, salt, time
<1>6. XorAll(bytes) = 0
  <2>1. 64 \in Byte /\ Len(bytes) = Len(mid) + 2
    BY <1>1, <1>2 DEF Byte
  <2>2. bytes[1] = 64
    <3>1. 1 \in 1 .. 19 /\ 1 + 2 = 3
      OBVIOUS
    <3>2. bytes[1] = salt[1 + 2]
      BY <1>1, <3>1
    <3> QED BY <1>3, <3>2
  <2>3. \A i \in 1 .. Len(mid) : bytes[i + 1] = mid[i]
    <3>1. \A i \in 1 .. 17 : i + 1 \in 1 .. 19 /\ (i + 1) + 2 = i + 3
      OBVIOUS
    <3> QED BY <1>1, <1>2, <3>1
  <2>4. bytes[Len(mid) + 2] = Xor(64, XorAll(mid))
    <3>1. Len(mid) + 2 = 19 /\ 19 \in 1 .. 19 /\ 19 + 2 = 21
      BY <1>2
    <3>2. bytes[19] = salt[19 + 2]
      BY <1>1, <3>1
    <3> QED BY <1>2, <3>1, <3>2
  <2> DEFINE a == 64
  <2>5. /\ a \in Byte /\ bytes \in Seq(Byte) /\ Len(bytes) = Len(mid) + 2 /\ bytes[1] = a
        /\ bytes[Len(mid) + 2] = Xor(a, XorAll(mid))
    BY <1>1, <2>1, <2>2, <2>4
  <2> HIDE DEF a
  <2> QED BY <2>3, <2>5, ChecksumCancels
<1>7. SubSeq(bytes, 5, 6) = m.query.bogus
  <2>1. SubSeq(bytes, 5, 6) = <<bytes[5], bytes[6]>>
    <3> DEFINE part == SubSeq(bytes, 5, 6)
    <3>1. part = [i \in 1 .. 2 |-> bytes[i + 4]]
      <4>1. part = [i \in 1 .. (1 + 6 - 5) |-> bytes[i + 5 - 1]]
        BY <1>1
      <4>2. \A i \in 1 .. 2 : i + 5 - 1 = i + 4
        OBVIOUS
      <4> QED BY <4>1, <4>2
    <3>2. [i \in 1 .. 2 |-> bytes[i + 4]] = <<bytes[5], bytes[6]>>
      OBVIOUS
    <3> QED BY <3>1, <3>2
  <2>2. bytes[5] = salt[7] /\ bytes[6] = salt[8]
    <3>1. 5 \in 1 .. 19 /\ 6 \in 1 .. 19 /\ 5 + 2 = 7 /\ 6 + 2 = 8
      OBVIOUS
    <3>2. bytes[5] = salt[5 + 2] /\ bytes[6] = salt[6 + 2]
      BY <1>1, <3>1
    <3> QED BY <3>1, <3>2
  <2> QED BY <1>3, <1>5, <2>1, <2>2
<1>8. SubSeq(bytes, 11, 14) = time
  <2> DEFINE part == SubSeq(bytes, 11, 14)
  <2>1. part = [i \in 1 .. 4 |-> bytes[i + 10]]
    <3>1. part \in Seq(Byte) /\ Len(part) = 4
          /\ \A i \in 1 .. 14 - 11 + 1 : part[i] = bytes[11 + i - 1]
      <4>1. \A i \in 11 .. 14 : bytes[i] \in Byte
        BY <1>1
      <4>2. 11 \in Int /\ 14 \in Int
        OBVIOUS
      <4> QED BY <4>1, <4>2, SubSeqProperties
    <3> HIDE DEF part
    <3>2. \A i \in 1 .. 4 : part[i] = bytes[i + 10]
      <4>1. \A i \in 1 .. 4 : i \in 1 .. 14 - 11 + 1 /\ 11 + i - 1 = i + 10
        OBVIOUS
      <4> QED BY <3>1, <4>1
    <3> QED BY <3>1, <3>2
  <2> HIDE DEF part
  <2>2. \A i \in 1 .. 4 : i + 10 \in 1 .. 19 /\ (i + 10) + 2 = 12 + i
    OBVIOUS
  <2>3. \A i \in 1 .. 4 : bytes[i + 10] \in Byte /\ bytes[i + 10] = salt[12 + i]
    <3>1. \A n \in 1 .. 19 : bytes[n] \in Byte
      BY <1>1
    <3>2. \A i \in 1 .. 4 : bytes[i + 10] = salt[(i + 10) + 2]
      BY <1>1, <2>2
    <3> QED BY <2>2, <3>1, <3>2
  <2>4. \A i \in 1 .. 4 : part[i] = time[i]
    BY <1>3, <2>1, <2>3
  <2>5. part \in Seq(Byte) /\ Len(part) = 4
    <3>1. part \in [1 .. 4 -> Byte]
      BY <2>1, <2>3
    <3>2. \A k \in Nat : \A u \in [1 .. k -> Byte] : u \in Seq(Byte) /\ Len(u) = k
      OBVIOUS
    <3>3. 4 \in Nat
      OBVIOUS
    <3> QED BY <3>1, <3>2, <3>3, Zenon
  <2>6. part = time
    BY <1>4, <2>4, <2>5, SeqEqual
  <2> QED BY <2>6 DEF part
<1> QED BY <1>6, <1>7, <1>8 DEF AddsUp, bytes, time

-----------------------------------------------------------------------------
(* Signatures, whatever words are drawn.                                     *)

\* A thread that draws has fewer words than a key, or as many at the end of a block; one
\* that has its key has them all.
Counted(d, words) ==
    /\ words \in Seq(DrawnWords)
    /\ d.state = "keyed" => Len(words) = KeyWords
    /\ d.state \in {"copying", "adding", "reading"} => Len(words) < KeyWords
    /\ d.state \in {"counting", "storing"} => Len(words) <= KeyWords
    /\ d.state = "idle" => words = <<>>

KeysCounted == \A t \in Threads : Counted(draw[t], key[t])

\* So it stays whatever a thread does.
LEMMA CountedKept ==
    ASSUME KeysCounted, GeneratorTypeOK, IndexInBlock, [GeneratorNext]_generatorVars
    PROVE  KeysCounted'
<1>1. \A t \in Threads : Counted(draw[t], key[t])
  BY DEF KeysCounted
<1>2. DOMAIN draw = Threads /\ DOMAIN key = Threads
  BY DEF GeneratorTypeOK
\* A step of one thread.
<1>3. ASSUME NEW t \in Threads, NEW d, NEW words, Counted(d, words),
             draw' = [draw EXCEPT ![t] = d], key' = [key EXCEPT ![t] = words]
      PROVE  KeysCounted'
  <2>1. ASSUME NEW u \in Threads PROVE Counted(draw'[u], key'[u])
    <3>1. CASE u = t
      <4>1. draw'[u] = d /\ key'[u] = words
        BY <1>2, <1>3, <3>1
      <4> QED BY <1>3, <4>1
    <3>2. CASE u # t
      <4>1. draw'[u] = draw[u] /\ key'[u] = key[u]
        BY <1>2, <1>3, <3>2
      <4> QED BY <1>1, <4>1
    <3> QED BY <3>1, <3>2
  <2> QED BY <2>1 DEF KeysCounted, Counted
<1>4. ASSUME NEW t \in Threads
      PROVE  key = [key EXCEPT ![t] = key[t]]
  BY DEF GeneratorTypeOK
<1>5. \A words \in Seq(DrawnWords) :
         Len(words) <= KeyWords => Counted(AfterWord(Len(words)), words)
  BY GeneratorAssumption DEF Counted, AfterWord, At
<1>6. ASSUME NEW t \in Threads, Begins(t) PROVE KeysCounted'
  <2>1. Counted(At("copying"), key[t])
    BY <1>1, <1>6, GeneratorAssumption DEF Begins, Counted, At
  <2>2. draw' = [draw EXCEPT ![t] = At("copying")] /\ key' = [key EXCEPT ![t] = key[t]]
    BY <1>4, <1>6 DEF Begins
  <2> QED BY <1>3, <2>1, <2>2
<1>7. ASSUME NEW t \in Threads, Copies(t) PROVE KeysCounted'
  <2> DEFINE d == [draw[t] EXCEPT !.state = "adding", !.copied = counter]
  <2>1. d.state = "adding"
    BY DEF GeneratorTypeOK
  <2>2. draw' = [draw EXCEPT ![t] = d] /\ key' = [key EXCEPT ![t] = key[t]]
    BY <1>4, <1>7 DEF Copies
  <2> HIDE DEF d
  <2>3. Counted(d, key[t])
    BY <1>1, <1>7, <2>1 DEF Copies, Counted
  <2> QED BY <1>3, <2>2, <2>3
<1>8. ASSUME NEW t \in Threads, Adds(t) PROVE KeysCounted'
  <2> DEFINE d == [draw[t] EXCEPT !.state = "reading", !.added = counter]
  <2>1. d.state = "reading"
    BY DEF GeneratorTypeOK
  <2>2. draw' = [draw EXCEPT ![t] = d] /\ key' = [key EXCEPT ![t] = key[t]]
    BY <1>4, <1>8 DEF Adds
  <2> HIDE DEF d
  <2>3. Counted(d, key[t])
    BY <1>1, <1>8, <2>1 DEF Adds, Counted
  <2> QED BY <1>3, <2>2, <2>3
<1>9. ASSUME NEW t \in Threads, Reads(t) PROVE KeysCounted'
  <2> DEFINE w == [copied |-> draw[t].copied, added |-> draw[t].added, at |-> index]
             longer == Append(key[t], w)
             d == IF index = Outputs - 1 THEN At("counting") ELSE AfterWord(Len(key[t]) + 1)
  <2>1. w \in DrawnWords
    BY DEF GeneratorTypeOK, IndexInBlock, DrawnWords
  <2>2. key[t] \in Seq(DrawnWords) /\ Len(key[t]) < KeyWords
    BY <1>1, <1>9 DEF Reads, Counted
  <2> HIDE DEF w
  <2>3. longer \in Seq(DrawnWords) /\ Len(longer) = Len(key[t]) + 1 /\ Len(longer) <= KeyWords
    BY <2>1, <2>2, GeneratorAssumption
  <2>4. Counted(At("counting"), longer)
    BY <2>3 DEF Counted, At
  <2>5. Counted(d, longer)
    BY <1>5, <2>3, <2>4
  <2>6. draw' = [draw EXCEPT ![t] = d] /\ key' = [key EXCEPT ![t] = longer]
    BY <1>9 DEF Reads, w
  <2> HIDE DEF d, longer
  <2> QED BY <1>3, <2>5, <2>6
<1>10. ASSUME NEW t \in Threads, Increments(t) PROVE KeysCounted'
  <2> DEFINE d == [draw[t] EXCEPT !.state = "storing", !.next = Successor(counter)]
  <2>1. d.state = "storing"
    BY DEF GeneratorTypeOK
  <2>2. draw' = [draw EXCEPT ![t] = d] /\ key' = [key EXCEPT ![t] = key[t]]
    BY <1>4, <1>10 DEF Increments
  <2> HIDE DEF d
  <2>3. Counted(d, key[t])
    BY <1>1, <1>10, <2>1 DEF Increments, Counted
  <2> QED BY <1>3, <2>2, <2>3
<1>11. ASSUME NEW t \in Threads, Stores(t) PROVE KeysCounted'
  <2>1. Counted(AfterWord(Len(key[t])), key[t])
    BY <1>1, <1>5, <1>11 DEF Stores, Counted
  <2>2. draw' = [draw EXCEPT ![t] = AfterWord(Len(key[t]))] /\ key' = [key EXCEPT ![t] = key[t]]
    BY <1>4, <1>11 DEF Stores
  <2> QED BY <1>3, <2>1, <2>2
<1>12. ASSUME NEW t \in Threads, Keyed(t) PROVE KeysCounted'
  <2>1. Counted(At("idle"), <<>>)
    BY DEF Counted, At
  <2>2. draw' = [draw EXCEPT ![t] = At("idle")] /\ key' = [key EXCEPT ![t] = <<>>]
    BY <1>12 DEF Keyed
  <2> QED BY <1>3, <2>1, <2>2
<1>13. CASE UNCHANGED generatorVars
  BY <1>13 DEF generatorVars, KeysCounted, Counted
<1> QED
  BY <1>6, <1>7, <1>8, <1>9, <1>10, <1>11, <1>12, <1>13 DEF GeneratorNext, Draws

\* Whatever words threads draw beside each other, who gets an X-Gnarly that was not cut
\* off finds the key and the payload in it (GnarlyOpens).
THEOREM GnarlyAlwaysOpens == GeneratorSpec => []GnarlyOpens
<1>1. GeneratorInit => KeysCounted
  BY GeneratorAssumption DEF GeneratorInit, KeysCounted, Counted, At
<1>2. KeysCounted => GnarlyOpens
  <2> SUFFICES ASSUME KeysCounted, NEW t \in Threads, draw[t].state = "keyed", NEW m \in Whole
               PROVE  OpenedGnarly(Gnarly(Payloads[m], key[t]), 4 * KeyWords) = Payloads[m]
    BY DEF GnarlyOpens
  <2>1. m \in Messages /\ ShortFields(Fields(m)) \in {0, 3} /\ Payloads[m] = Payload(Fields(m))
    BY DEF Whole, Payloads
  <2>2. key[t] \in [1 .. KeyWords -> DrawnWords]
    BY DEF KeysCounted, Counted
  <2> QED BY <2>1, <2>2, GnarlyGivesPayload
<1>3. KeysCounted /\ GeneratorTypeOK /\ IndexInBlock /\ [GeneratorNext]_generatorVars
      => KeysCounted'
  BY CountedKept
<1> QED BY <1>1, <1>2, <1>3, GeneratorTypes, IndexStaysInBlock, PTL DEF GeneratorSpec

\* Every X-Bogus that is put on a request adds up to nothing, and carries the hash and
\* the time of that request in their places (BogusAddsUp).
THEOREM BogusAlwaysAddsUp == GeneratorSpec => []BogusAddsUp
<1>1. SoundMessages = Messages
  BY EveryBogusAddsUp DEF SoundMessages
<1>2. BogusAddsUp
  BY <1>1 DEF BogusAddsUp
<1> QED BY <1>2, PTL
=============================================================================
