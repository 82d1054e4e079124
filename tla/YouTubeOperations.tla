-------------------------- MODULE YouTubeOperations -------------------------
(* app/services/youtube.py: the operations, between the checks of what they are  *)
(* given and the pages that they return.  An operation finds out the channel of   *)
(* a handle or the playlists of a topic first; both, and every page, are kept in  *)
(* one cache, whose keys alone tell the results of different requests apart.      *)
(*                                                                             *)
(* How a page is filled (Paging), retried (ProxyRetry), kept and evicted          *)
(* (ServiceCache) is left to modules of their own: here a page is known by the    *)
(* list that YouTube was asked for and by where it starts, a list has three of     *)
(* them, and the cache may lose any entry at any time.                           *)
EXTENDS Integers, FiniteSets

CONSTANTS Callers,      \* the tasks that call operations
          Wishes,       \* first requests: [op, about, option, limit]
          Channels,     \* channel ids
          Lower,        \* the handles there are, each with its spelling in lower case
          Playlists,    \* featured playlists
          SearchTopics, \* SEARCH_TOPICS: topic -> [about, option]
          ChannelTopics,\* CHANNEL_TOPICS, each standing for its channel, too
          Unfit,        \* a subject or option that the checks turn down
          Blank,        \* the empty query
          Absent,       \* None
          Standard, Most, \* DEFAULT_PAGE_LIMIT, MAX_PAGE_LIMIT
          Room          \* bound: results, and leads to them, that are in the cache at a time

ASSUME OperationsAssumption ==
    /\ Standard \in 1 .. Most /\ Most \in Nat /\ Room \in Nat
    /\ Playlists # {} /\ Absent \notin Playlists /\ Absent \notin Channels

VARIABLES progress, \* per caller: "idle", "resolves", "fetches", "answered", "failed"
                    \* or "refused"
          wish,     \* its request, with the cursor
          target,   \* the channel or playlist it has been led to, else Absent
          answer,   \* what it is given: [of, from, size, names, next]
          kept,     \* _cache
          owner,    \* upstream: the channel of a handle
          featured  \* upstream: the first of a topic's playlists, Absent if it has none

opsVars == <<progress, wish, target, answer, kept, owner, featured>>

-----------------------------------------------------------------------------
(* Requests and what they are led to.                                          *)

Spellings == {Lower[h] : h \in DOMAIN Lower}

\* A cursor: the token of a list that YouTube goes on with, or none, and whether it
\* points into the first page.
Start == [token |-> Absent, skip |-> 0]

Lists == {"search", "live", "region", "comments", "channel_videos", "channel_playlists",
          "playlist_videos"}
Leads == {"handle", "topic_playlists"}
OfChannels == {"channel", "channel_videos", "channel_playlists"}

\* What is found out first is kept beside the results: no operation has a key like that.
ASSUME WishesAssumption == \A w \in Wishes : w.op \notin Leads

\* _limit
Size(limit) ==
    LET asked == IF limit = 0 THEN Standard ELSE limit
    IN  IF asked < 1 THEN 1 ELSE IF asked > Most THEN Most ELSE asked

\* _check, _param, _query and resolve_channel: only a live search needs no words.
TurnedDown(w) ==
    \/ w.about = Unfit \/ w.option = Unfit
    \/ w.about = Blank /\ w.op # "live"

IsHandle(w) == w.op \in OfChannels /\ w.about \in DOMAIN Lower
OfChannelTopic(w) == w.op = "topic" /\ w.about \in ChannelTopics

\* What has to be found out first, by its key in the cache.
Lead(op, about) == [op |-> op, about |-> about, option |-> Absent, size |-> 0, from |-> Start]
LeadOf(w) ==
    IF IsHandle(w) THEN Lead("handle", Lower[w.about]) ELSE Lead("topic_playlists", w.about)
NeedsLead(w) == IsHandle(w) \/ OfChannelTopic(w)

\* The operation that a request comes down to: a topic is a search, or its playlist.
Plain(w, led) ==
    CASE OfChannelTopic(w) -> [w EXCEPT !.op = "playlist_videos", !.about = led]
      [] w.op = "topic" /\ ~OfChannelTopic(w) ->
            [w EXCEPT !.op = "search", !.about = SearchTopics[w.about].about,
                      !.option = SearchTopics[w.about].option]
      [] IsHandle(w) -> [w EXCEPT !.about = led]
      [] OTHER -> w

\* The key of its result; faulty variant: all options share one.
KeyOf(op, about, option, w) ==
    [op |-> op, about |-> about, option |-> option,
     size |-> IF op \in Lists \cup {"shorts"} THEN Size(w.limit) ELSE 0,
     from |-> IF op \in Lists THEN w.cursor ELSE Start]
KeyWithoutOption(w) == KeyOf(w.op, w.about, Absent, w)
Key(w) == KeyOf(w.op, w.about, w.option, w)

\* What YouTube is asked for: a live search is one with a filter; a token says it all.
List(w) ==
    IF w.cursor.token # Absent THEN w.cursor.token
    ELSE [op |-> IF w.op \in {"live", "region"} THEN "search" ELSE w.op, about |-> w.about,
          option |-> IF w.op = "live" THEN "filter" ELSE w.option]

Nothing == [of |-> Absent, from |-> Start, size |-> 0, names |-> Absent, next |-> Start]
NoWish == [op |-> "none", about |-> Absent, option |-> Absent, limit |-> 0, cursor |-> Start]

\* Where the next page starts: a list has two within YouTube's first page, and one
\* more behind a token.
NextCursor(w) ==
    IF w.op \notin Lists \/ w.cursor.token # Absent THEN Start
    ELSE IF w.cursor = Start THEN [token |-> Absent, skip |-> 1]
    ELSE [token |-> List(w), skip |-> 0]

-----------------------------------------------------------------------------
OpsInit ==
    /\ progress = [c \in Callers |-> "idle"]
    /\ wish = [c \in Callers |-> NoWish]
    /\ target = [c \in Callers |-> Absent]
    /\ answer = [c \in Callers |-> Nothing]
    /\ kept = [k \in {} |-> Nothing]
    /\ owner \in [Spellings -> Channels]
    /\ featured \in [ChannelTopics -> Playlists \cup {Absent}]

Awaits(c) == progress[c] \in {"resolves", "fetches"}

\* How far caller c is, with which request, led to what, and with which answer.
Becomes(c, state, w, led, result) ==
    /\ progress' = [progress EXCEPT ![c] = state]
    /\ wish' = [wish EXCEPT ![c] = w]
    /\ target' = [target EXCEPT ![c] = led]
    /\ answer' = [answer EXCEPT ![c] = result]

\* _cache.put: if there is no room left, another has to go.
Put(k, value) ==
    LET others == {j \in DOMAIN kept \ {k} : j.op \in Leads <=> k.op \in Leads}
    IN  \E gone \in IF Cardinality(others) < Room THEN {{}} ELSE {{j} : j \in others} :
            kept' = [j \in (DOMAIN kept \ gone) \cup {k} |-> IF j = k THEN value ELSE kept[j]]

\* The answer with what the operation adds to the page: the channel's id, or the
\* playlist that is featured.
Named(w, led, result) == [result EXCEPT !.names = IF NeedsLead(w) THEN led ELSE Absent]

\* _cache.get_or_fetch of the result, once the request has been led to its target.
Looks(c, w, led, cache) ==
    LET k == Key(Plain(w, led))
    IN  IF OfChannelTopic(w) /\ led = Absent THEN Becomes(c, "answered", w, Absent, Nothing)
        ELSE IF k \in DOMAIN cache THEN Becomes(c, "answered", w, Absent, Named(w, led, cache[k]))
        ELSE Becomes(c, "fetches", w, led, Nothing)

\* A request: the checks, and the cache as far as it knows.
Asks(c, w) ==
    /\ ~Awaits(c)
    /\ IF TurnedDown(w) THEN Becomes(c, "refused", NoWish, Absent, Nothing)
       ELSE IF ~NeedsLead(w) THEN Looks(c, w, Absent, kept)
       ELSE IF LeadOf(w) \in DOMAIN kept THEN Looks(c, w, kept[LeadOf(w)].of, kept)
       ELSE Becomes(c, "resolves", w, Absent, Nothing)
    /\ UNCHANGED <<kept, owner, featured>>

\* The next page: the same request with the cursor that came with the answer.
Follows(c) ==
    /\ progress[c] = "answered" /\ answer[c].next # Start
    /\ Asks(c, [wish[c] EXCEPT !.cursor = answer[c].next])

\* The channel of the handle, or the playlists of the topic, arrive and are kept.
Resolves(c) ==
    LET w == wish[c]
        led == IF IsHandle(w) THEN owner[Lower[w.about]] ELSE featured[w.about]
    IN  /\ progress[c] = "resolves"
        /\ Put(LeadOf(w), [Nothing EXCEPT !.of = led])
        /\ Looks(c, w, led, kept')
        /\ UNCHANGED <<owner, featured>>

\* The page arrives and is kept.
Fetches(c) ==
    LET w == Plain(wish[c], target[c])
        result == [of |-> List(w), from |-> Key(w).from, size |-> Key(w).size,
                   names |-> Absent, next |-> NextCursor(w)]
    IN  /\ progress[c] = "fetches"
        /\ Put(Key(w), result)
        /\ Becomes(c, "answered", wish[c], Absent, Named(wish[c], target[c], result))
        /\ UNCHANGED <<owner, featured>>

\* What is awaited fails in the end: the exception leaves the operation, nothing is kept.
Fails(c) ==
    /\ Awaits(c)
    /\ Becomes(c, "failed", NoWish, Absent, Nothing)
    /\ UNCHANGED <<kept, owner, featured>>

\* An entry expires.
Expires(k) ==
    /\ kept' = [j \in DOMAIN kept \ {k} |-> kept[j]]
    /\ UNCHANGED <<progress, wish, target, answer, owner, featured>>

\* A handle goes to another channel, a topic features another playlist.
Upstream ==
    /\ \/ \E h \in Spellings, channel \in Channels :
             owner' = [owner EXCEPT ![h] = channel] /\ UNCHANGED featured
       \/ \E t \in ChannelTopics, p \in Playlists \cup {Absent} :
             featured' = [featured EXCEPT ![t] = p] /\ UNCHANGED owner
    /\ UNCHANGED <<progress, wish, target, answer, kept>>

OpsNext ==
    \/ \E c \in Callers :
          \/ \E w \in Wishes : Asks(c, [op |-> w.op, about |-> w.about, option |-> w.option,
                                        limit |-> w.limit, cursor |-> Start])
          \/ Follows(c) \/ Resolves(c) \/ Fetches(c) \/ Fails(c)
    \/ \E k \in DOMAIN kept : Expires(k)
    \/ Upstream

OpsSpec == OpsInit /\ [][OpsNext]_opsVars

-----------------------------------------------------------------------------
(* Properties.                                                                 *)

OpsTypeOK ==
    /\ progress \in [Callers -> {"idle", "resolves", "fetches", "answered", "failed",
                                 "refused"}]
    /\ target \in [Callers -> Channels \cup Playlists \cup {Absent}]
    /\ Cardinality(DOMAIN kept) <= 2 * Room
    /\ owner \in [Spellings -> Channels]
    /\ featured \in [ChannelTopics -> Playlists \cup {Absent}]

\* Whoever filled the cache, with whatever request, an answer is the caller's own: of
\* the list that its request is about, or that its cursor continues, from where the
\* cursor points, of the size asked for; and a first page is one of the channel or
\* the playlist that the answer names, also when handles and topics have moved on.
AnswersItsRequest ==
    \A c \in Callers : progress[c] = "answered" /\ answer[c].of # Absent =>
        LET w == wish[c]
            own == Plain(w, answer[c].names)
        IN  /\ answer[c].of = List(own)
            /\ own.op \in Lists => answer[c].from = w.cursor
            /\ own.op \in Lists \cup {"shorts"} => answer[c].size = Size(w.limit)
            /\ NeedsLead(w) => answer[c].names # Absent
=============================================================================
