--------------------------- MODULE YouTubeSession ---------------------------
(* crawlers/youtube/client.py: the API key and the visitor data that every        *)
(* request to YouTube uses, scraped from its homepage under one asyncio.Lock.     *)
(* Calls get the key, scraping when it has expired; the warm-up task of the       *)
(* start scrapes when there is no visitor data.  The client version is read and   *)
(* kept like the visitor data and left out; proxies do not matter here.           *)
EXTENDS Naturals, SequencesExt

CONSTANTS Calls,      \* requests to YouTube, each in need of the key
          WarmUp,     \* the task of warm_youtube_session
          Nobody,
          KeyTtl,     \* YOUTUBE_KEY_TTL
          MaxScrape   \* bound on the time one scrape takes, from the client's timeout

ASSUME SessionAssumption ==
    /\ WarmUp \notin Calls /\ Nobody \notin Calls \cup {WarmUp}
    /\ KeyTtl \in Nat /\ MaxScrape \in Nat /\ MaxScrape < KeyTtl

Users == Calls \cup {WarmUp}

VARIABLES keyLeft,      \* time until the key expires; Forever for INNERTUBE_API_KEY
          visitorLeft,  \* time until the visitor data expire; 0: none
          user,         \* user[u]: "idle", "waiting", "scraping" or "done"
          holder,       \* who holds _key_lock
          queue,        \* who waits for it, in order
          scrapeAge     \* time since the scrape began, whose expiry dates count from then

sessionVars == <<keyLeft, visitorLeft, user, holder, queue, scrapeAge>>

Forever == KeyTtl + 1

-----------------------------------------------------------------------------
\* What a user must find to go without a scrape: calls an API key that has not
\* expired, the warm-up visitor data.
Satisfied(u) == IF u = WarmUp THEN visitorLeft > 0 ELSE keyLeft > 0

\* The check is made again once the lock is held; faulty variant: it is not.
Unchecked(u) == FALSE
FoundUnderLock(u) == Satisfied(u)

SessionInit ==
    /\ keyLeft = Forever /\ visitorLeft = 0
    /\ user = [u \in Users |-> "idle"]
    /\ holder = Nobody /\ queue = <<>> /\ scrapeAge = 0

\* get_youtube_api_key, warm_youtube_session: up to the first await.  A lock that
\* is free and has no waiters is taken at once, and the check finds nothing new.
Ask(u) ==
    /\ user[u] = "idle"
    /\ IF Satisfied(u)
       THEN user' = [user EXCEPT ![u] = "done"] /\ UNCHANGED <<holder, queue>>
       ELSE IF holder = Nobody /\ queue = <<>>
            THEN user' = [user EXCEPT ![u] = "scraping"] /\ holder' = u /\ UNCHANGED queue
            ELSE user' = [user EXCEPT ![u] = "waiting"] /\ queue' = Append(queue, u)
                 /\ UNCHANGED holder
    /\ UNCHANGED <<keyLeft, visitorLeft, scrapeAge>>

\* The first waiter gets the lock.
Turn(u) ==
    /\ holder = Nobody /\ queue # <<>> /\ u = Head(queue)
    /\ queue' = Tail(queue)
    /\ IF FoundUnderLock(u)
       THEN user' = [user EXCEPT ![u] = "done"] /\ UNCHANGED holder
       ELSE user' = [user EXCEPT ![u] = "scraping"] /\ holder' = u
    /\ UNCHANGED <<keyLeft, visitorLeft, scrapeAge>>

\* _scrape_homepage: any part of what is looked for may be found, or nothing if it
\* fails, which is only logged: the call goes on with the key there is.
ScrapeEnds(u, key, visitor) ==
    /\ user[u] = "scraping"
    /\ keyLeft' = IF key THEN KeyTtl - scrapeAge ELSE keyLeft
    /\ visitorLeft' = IF visitor THEN KeyTtl - scrapeAge ELSE visitorLeft
    /\ user' = [user EXCEPT ![u] = "done"]
    /\ holder' = Nobody /\ scrapeAge' = 0
    /\ UNCHANGED queue

\* The waiters of the lock when u has left them.
Without(u) ==
    IF u \in ToSet(queue)
    THEN RemoveAt(queue, CHOOSE place \in DOMAIN queue : queue[place] = u) ELSE queue

\* task.cancel(): the task leaves whatever it waits for, and async with gives the
\* lock back.
Cancelled(u) ==
    /\ user' = [user EXCEPT ![u] = "done"]
    /\ holder' = IF holder = u THEN Nobody ELSE holder
    /\ queue' = Without(u)
    /\ scrapeAge' = IF holder = u THEN 0 ELSE scrapeAge
    /\ UNCHANGED <<keyLeft, visitorLeft>>

\* The caller has used what it was given, and may come again.
Forgets(u) ==
    /\ user[u] = "done"
    /\ user' = [user EXCEPT ![u] = "idle"]
    /\ UNCHANGED <<keyLeft, visitorLeft, holder, queue, scrapeAge>>

SessionTick ==
    /\ holder # Nobody => scrapeAge < MaxScrape
    /\ keyLeft' = IF keyLeft \in 1 .. KeyTtl THEN keyLeft - 1 ELSE keyLeft
    /\ visitorLeft' = IF visitorLeft > 0 THEN visitorLeft - 1 ELSE 0
    /\ scrapeAge' = IF holder # Nobody THEN scrapeAge + 1 ELSE 0
    /\ UNCHANGED <<user, holder, queue>>

-----------------------------------------------------------------------------
(* Properties.                                                                 *)

\* One user scrapes at a time, the one that holds the lock; those that wait are in
\* the queue, once each.
SessionTypeOK ==
    /\ keyLeft \in 0 .. Forever /\ visitorLeft \in 0 .. KeyTtl
    /\ user \in [Users -> {"idle", "waiting", "scraping", "done"}]
    /\ holder \in Users \cup {Nobody} /\ scrapeAge \in 0 .. MaxScrape
    /\ \A u \in Users : user[u] = "scraping" <=> holder = u
    /\ ToSet(queue) = {u \in Users : user[u] = "waiting"} /\ IsInjective(queue)

\* Calls that find the key expired together make one scrape between them, not one
\* each: nobody scrapes when the scrape of another has brought what it needs.
OneScrapeForAll ==
    [][ \A u \in Users : user[u] # "scraping" /\ user'[u] = "scraping" => ~Satisfied(u) ]_sessionVars
=============================================================================
