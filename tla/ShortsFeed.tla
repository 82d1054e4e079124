----------------------------- MODULE ShortsFeed -----------------------------
(* app/crawlers/youtube/shorts/shorts.py: get_shorts_feed.  Searches come first; *)
(* when they do not fill the feed, it asks the reel endpoint, in batches that    *)
(* each begin at a random place and follow YouTube's positions from there.  The  *)
(* set seen_ids is what has been collected: nothing else is ever added to it.    *)
EXTENDS Integers, SequencesExt, Selections

CONSTANTS Shorts,     \* the shorts YouTube may show
          Positions,  \* the values of params in its answers
          Nothing,    \* no position, no short
          Limit,      \* max_results
          Queries,    \* the number of searches
          PerAnswer,  \* bound on the shorts of one search result
          Restarts,   \* batches at most
          EmptyLimit, \* batches in a row without a new short
          MinSteps,   \* a batch has at least so many steps,
          SpareSteps, \* and so many more than shorts are missing
          DupLimit,   \* known shorts in a row that end a batch
          StaleLimit  \* unchanged positions in a row that end a batch

ASSUME ShortsAssumption ==
    /\ Nothing \notin Shorts \cup Positions
    /\ {Limit, Queries, Restarts, EmptyLimit, MinSteps, DupLimit, StaleLimit} \subseteq Nat \ {0}
    /\ {SpareSteps, PerAnswer} \subseteq Nat

VARIABLES stage,   \* "idle", "search", "reel", "done" or "failed"
          query,   \* the search under way
          found,   \* shorts
          batch,   \* shorts of the batch under way
          step,    \* its steps so far
          pos,     \* pos_params, which is last_pos_params as well
          stale,   \* stale_count
          dup,     \* dup_count
          empties, \* consecutive_empty
          yields   \* history: how many shorts each batch has found

reelVars == <<batch, step, pos, stale, dup>>
shortsVars == <<stage, query, found, reelVars, empties, yields>>

-----------------------------------------------------------------------------
\* seen_ids; faulty variant: a set for every batch.
SeenInBatch == ToSet(batch)
Seen == ToSet(found) \cup ToSet(batch)

\* The unseen shorts of a search result, up to max_per_query of them.
Fresh(items) ==
    LET new == {n \in Firsts(items) : items[n] \notin Seen}
    IN  Selected(items, {n \in new : Cardinality({m \in new : m <= n}) <= Limit})

StepLimit ==
    LET wanted == Limit - Len(found) + SpareSteps
    IN  IF wanted > MinSteps THEN wanted ELSE MinSteps

FreshBatch ==
    batch' = <<>> /\ step' = 0 /\ pos' = Nothing /\ stale' = 0 /\ dup' = 0

\* consecutive_empty = 0; faulty variant: counted over all batches.
EmptiesSoFar == empties
EmptiesAfterYield == 0

\* The batch ends with these shorts: the next one begins, or the feed is done.
BatchEnds(new) ==
    /\ found' = found \o new
    /\ yields' = Append(yields, Len(new))
    /\ empties' = IF new = <<>> THEN empties + 1 ELSE EmptiesAfterYield
    /\ stage' = IF \/ Len(yields') = Restarts
                   \/ Len(found') >= Limit
                   \/ new = <<>> /\ empties' >= EmptyLimit
                THEN "done" ELSE "reel"
    /\ FreshBatch
    /\ UNCHANGED query

-----------------------------------------------------------------------------
ShortsInit ==
    /\ stage = "idle" /\ query = 1 /\ found = <<>>
    /\ batch = <<>> /\ step = 0 /\ pos = Nothing /\ stale = 0 /\ dup = 0
    /\ empties = 0 /\ yields = <<>>

StartShorts ==
    /\ stage = "idle" /\ stage' = "search"
    /\ UNCHANGED <<query, found, reelVars, empties, yields>>

\* A search returns shorts, known ones among them; none if it has failed.
SearchReturns(items) ==
    /\ stage = "search"
    /\ found' = found \o Fresh(items)
    /\ IF query < Queries /\ Len(found') < Limit
       THEN query' = query + 1 /\ UNCHANGED stage
       ELSE stage' = (IF Len(found') < Limit THEN "reel" ELSE "done") /\ UNCHANGED query
    /\ UNCHANGED <<reelVars, empties, yields>>

\* No answer, no JSON, a status other than success, or an HTTP error, which at
\* the first step of a batch leaves the function with all that was collected.
StepFails(httpError) ==
    /\ stage = "reel"
    /\ IF httpError /\ step = 0
       THEN stage' = "failed" /\ UNCHANGED <<query, found, reelVars, empties, yields>>
       ELSE BatchEnds(batch)

\* stale_count >= 3.
TooStale(n) == n >= StaleLimit

\* for i in range(batch_limit); faulty variant: steps not counted.
Uncounted(n) == n
Counted(n) == n + 1

\* The reel endpoint answers with a short, or with none that can be parsed, and
\* with the position to ask for next.
StepReturns(short, next) ==
    LET known == short \in Seen
        new == IF short = Nothing \/ known THEN batch ELSE Append(batch, short)
        dups == IF known THEN dup + 1 ELSE IF short = Nothing THEN dup ELSE 0
        stales == IF next # Nothing /\ next = pos THEN stale + 1 ELSE 0
    IN  /\ stage = "reel"
        /\ IF \/ known /\ dups >= DupLimit
              \/ TooStale(stales)
              \/ next = Nothing
              \/ Counted(step) = StepLimit
           THEN BatchEnds(new)
           ELSE /\ batch' = new /\ dup' = dups /\ stale' = stales /\ pos' = next
                /\ step' = Counted(step)
                /\ UNCHANGED <<stage, query, found, empties, yields>>

SearchResults == UNION {[1 .. n -> Shorts] : n \in 0 .. PerAnswer}

ShortsAnswer ==
    \/ \E items \in SearchResults : SearchReturns(items)
    \/ \E httpError \in BOOLEAN : StepFails(httpError)
    \/ \E short \in Shorts \cup {Nothing}, next \in Positions \cup {Nothing} :
          StepReturns(short, next)

ShortsNext == StartShorts \/ ShortsAnswer

-----------------------------------------------------------------------------
(* Properties.                                                                 *)

ShortsTypeOK ==
    /\ stage \in {"idle", "search", "reel", "done", "failed"}
    /\ query \in 1 .. Queries
    /\ found \in Seq(Shorts) /\ batch \in Seq(Shorts)
    /\ step \in 0 .. StepLimit - 1
    /\ pos \in Positions \cup {Nothing}
    /\ stale \in 0 .. StaleLimit - 1 /\ dup \in 0 .. DupLimit - 1
    /\ empties \in 0 .. EmptyLimit
    /\ yields \in Seq(Nat) /\ Len(yields) <= Restarts

\* No short comes up twice in the feed, over searches, batches and both ways a
\* short can be found in an answer.
NoShortTwice == IsInjective(found \o batch)

\* A feed that is not full has tried everything: all batches have been used, or
\* the last EmptyLimit of them, without a break, brought nothing new.
ShortOnlyIfExhausted ==
    stage = "done" /\ Len(found) < Limit =>
        \/ Len(yields) = Restarts
        \/ \A n \in Len(yields) - EmptyLimit + 1 .. Len(yields) : yields[n] = 0
=============================================================================
