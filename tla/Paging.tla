------------------------------- MODULE Paging -------------------------------
(* app/crawlers/youtube/shared/paging.py: collect_page, which fills one page   *)
(* of a list operation from YouTube's own pages, and a caller who walks a feed *)
(* by handing every next_cursor back (_list in app/services/youtube.py).       *)
(*                                                                             *)
(* A feed is a sequence of YouTube pages, a page a sequence of items.  The     *)
(* continuation token of page p is modelled by p, and the absent token of the  *)
(* first page by 1.  Pages behind a token do not change, the first page, which *)
(* has none, is fetched anew and may.                                          *)
EXTENDS Integers, FiniteSets, Sequences

CONSTANTS Items,         \* what the callers' key function tells apart
          Feeds,         \* the feeds upstream may serve
          FirstPages,    \* what the first page may turn into
          Requests,      \* the limits callers ask for; 0 stands for none given
          DefaultLimit,  \* DEFAULT_PAGE_LIMIT
          MaxLimit,      \* MAX_PAGE_LIMIT
          MaxPages,      \* MAX_PAGES_PER_CALL
          MaxFailures,   \* bound: fetches that fail in a behaviour
          MaxChanges     \* bound: times the first page changes in a behaviour

ASSUME ConstantsAssumption ==
    /\ Feeds \subseteq {f \in Seq(Seq(Items)) : Len(f) > 0}
    /\ FirstPages \subseteq Seq(Items)
    /\ Requests \subseteq Int
    /\ DefaultLimit \in Nat \ {0} /\ MaxLimit \in Nat \ {0} /\ DefaultLimit <= MaxLimit
    /\ MaxPages \in Nat \ {0}
    /\ MaxFailures \in Nat /\ MaxChanges \in Nat

VARIABLES feed,       \* upstream: the pages, in the order of their tokens
          cursor,     \* what the caller holds: [token, skip]
          pc,         \* "idle", "fetch", "scan", or "ended" when next_cursor is None
          limit,      \* the limit of the call
          token,      \* the page the call is at
          index,      \* its next position in that page, counted from 0 as in the code
          page,       \* page_items, as fetched
          pages,      \* pages read by the call
          items,      \* items of the call: [page, index, item]
          delivered,  \* history: everything returned to the caller, with its call
          calls,      \* history: number of calls that returned items
          changes,    \* history: how often the first page changed
          failures    \* history: how often a fetch failed

callVars == <<limit, token, index, page, pages, items>>
caller   == <<cursor, delivered, calls>>
vars == <<feed, cursor, pc, limit, token, index, page, pages, items,
          delivered, calls, changes, failures>>

-----------------------------------------------------------------------------
(* The pieces of collect_page.                                                 *)

Clamped(n) == IF n < 1 THEN 1 ELSE IF n > MaxLimit THEN MaxLimit ELSE n

\* _limit; faulty variant: a request for 0 items is taken literally.
LiteralLimit(n) == IF n = 0 THEN 0 ELSE Clamped(n)
EffectiveLimit(n) == Clamped(IF n = 0 THEN DefaultLimit ELSE n)

\* len(items) == limit
Full == Len(items) = limit

\* item_key in seen; faulty variant: key ignored.
NeverSeen(i) == FALSE
Seen(i) == \E j \in DOMAIN items : items[j].item = i

\* encode_cursor(token, index) inside a page; faulty variants: one item further,
\* one item back.
CursorPastItem == [token |-> token, skip |-> index + 1]
CursorAtLastItem == [token |-> token, skip |-> index - 1]
CursorHere == [token |-> token, skip |-> index]

\* encode_cursor(token, 0) at a page boundary; faulty variant: the page's own
\* token, as if token, skip = next_token, 0 came after the break.
CursorOfSamePage == [token |-> token, skip |-> 0]
CursorOfNextPage == [token |-> token + 1, skip |-> 0]

\* The loop has read its pages.
PagesExhausted == pages = MaxPages

\* next_token
HasNextPage == token < Len(feed)

\* return Page(items, ...): the caller gets the items and the new cursor.
Return(c, next) ==
    /\ cursor' = c
    /\ pc' = next
    /\ delivered' = delivered \cup
          {[page |-> items[j].page, index |-> items[j].index,
            item |-> items[j].item, call |-> calls + 1] : j \in DOMAIN items}
    /\ calls' = IF items = <<>> THEN calls ELSE calls + 1
    /\ items' = <<>>
    /\ pages' = 0
    /\ page' = <<>>
    /\ UNCHANGED <<feed, limit, token, index, changes, failures>>

-----------------------------------------------------------------------------
Init ==
    /\ feed \in Feeds
    /\ cursor = [token |-> 1, skip |-> 0]
    /\ pc = "idle"
    /\ limit = 1 /\ token = 1 /\ index = 0
    /\ page = <<>> /\ pages = 0 /\ items = <<>>
    /\ delivered = {} /\ calls = 0 /\ changes = 0 /\ failures = 0

\* The caller asks for the page at its cursor, which decode_cursor takes apart.
Call(n) ==
    /\ pc = "idle"
    /\ pc' = "fetch"
    /\ limit' = EffectiveLimit(n)
    /\ token' = cursor.token
    /\ index' = cursor.skip
    /\ UNCHANGED <<feed, page, pages, items, caller, changes, failures>>

\* page_items, next_token = await fetch(token)
FetchPage ==
    /\ pc = "fetch"
    /\ pc' = "scan"
    /\ page' = feed[token]
    /\ pages' = pages + 1
    /\ UNCHANGED <<feed, limit, token, index, items, caller, changes, failures>>

\* fetch raises: the call is lost with all it had collected, the cursor is not.
FetchFails ==
    /\ pc = "fetch"
    /\ failures < MaxFailures
    /\ failures' = failures + 1
    /\ pc' = "idle"
    /\ items' = <<>> /\ pages' = 0 /\ page' = <<>>
    /\ UNCHANGED <<feed, limit, token, index, caller, changes>>

\* The call is full in the middle of a page.
ReturnMidPage ==
    /\ pc = "scan" /\ index < Len(page)
    /\ Full
    /\ Return(CursorHere, "idle")

SkipDuplicate ==
    /\ pc = "scan" /\ index < Len(page)
    /\ ~Full
    /\ Seen(page[index + 1])
    /\ index' = index + 1
    /\ UNCHANGED <<feed, pc, limit, token, page, pages, items, caller, changes, failures>>

TakeItem ==
    /\ pc = "scan" /\ index < Len(page)
    /\ ~Full
    /\ ~Seen(page[index + 1])
    /\ items' = Append(items, [page |-> token, index |-> index, item |-> page[index + 1]])
    /\ index' = index + 1
    /\ UNCHANGED <<feed, pc, limit, token, page, pages, caller, changes, failures>>

\* if not next_token: return Page(items, None)
ReturnLast ==
    /\ pc = "scan" /\ index >= Len(page)
    /\ ~HasNextPage
    /\ Return([token |-> token, skip |-> index], "ended")

\* token, skip = next_token, 0 and the loop goes on.
NextPage ==
    /\ pc = "scan" /\ index >= Len(page)
    /\ HasNextPage /\ ~Full /\ ~PagesExhausted
    /\ pc' = "fetch"
    /\ token' = token + 1
    /\ index' = 0
    /\ page' = <<>>
    /\ UNCHANGED <<feed, limit, pages, items, caller, changes, failures>>

\* The loop ends at a page boundary: the call is full, or has read its pages.
ReturnAtBoundary ==
    /\ pc = "scan" /\ index >= Len(page)
    /\ HasNextPage /\ (Full \/ PagesExhausted)
    /\ Return(CursorOfNextPage, "idle")

\* Upstream serves another first page from now on.
FirstPageChanges(p) ==
    /\ changes < MaxChanges
    /\ p # feed[1]
    /\ feed' = [feed EXCEPT ![1] = p]
    /\ changes' = changes + 1
    /\ UNCHANGED <<pc, callVars, caller, failures>>

CollectPage ==
    \/ FetchPage \/ ReturnMidPage \/ SkipDuplicate \/ TakeItem
    \/ ReturnLast \/ NextPage \/ ReturnAtBoundary

Walk == CollectPage \/ \E n \in Requests : Call(n)

Next ==
    \/ Walk
    \/ FetchFails
    \/ \E p \in FirstPages : FirstPageChanges(p)

\* The caller keeps asking for the next page and every fetch returns or raises.
Spec == Init /\ [][Next]_vars /\ WF_vars(Walk)

-----------------------------------------------------------------------------
(* Properties.                                                                 *)

ItemRecord == [page : Nat, index : Nat, item : Items]

TypeOK ==
    /\ feed \in Seq(Seq(Items)) /\ Len(feed) > 0
    /\ cursor \in [token : 1 .. Len(feed), skip : Nat]
    /\ pc \in {"idle", "fetch", "scan", "ended"}
    /\ limit \in Int
    /\ token \in 1 .. Len(feed)
    /\ index \in Nat
    /\ page \in Seq(Items)
    /\ pages \in 0 .. MaxPages
    /\ items \in Seq(ItemRecord)
    /\ delivered \subseteq [page : Nat, index : Nat, item : Items, call : Nat]
    /\ calls \in Nat /\ changes \in Nat /\ failures \in Nat

Before(p, i, q, j) == p < q \/ (p = q /\ i < j)

\* Walking by cursors loses nothing: every item in front of the caller's cursor
\* has been returned by some call, whatever the limits, duplicates, empty pages,
\* page caps and failed calls on the way.  The first page is only covered while
\* it stays as it was: its cursor counts positions in a page that is refetched.
NothingSkipped ==
    \A p \in 1 .. Len(feed) : p > 1 \/ changes = 0 =>
        \A i \in 0 .. Len(feed[p]) - 1 :
            pc = "ended" \/ Before(p, i, cursor.token, cursor.skip)
                => \E d \in delivered : d.item = feed[p][i + 1]

\* Successive calls return successive stretches of the feed: nothing is returned
\* for the same position twice, and nothing goes backwards.
InFeedOrder ==
    \A d, e \in delivered :
        d.call < e.call => Before(d.page, d.index, e.page, e.index)

\* One call never returns the same item twice, however often YouTube repeats it.
NoRepeatWithinCall ==
    \A d, e \in delivered : d.call = e.call /\ d.item = e.item => d = e

\* A call returns at most the limit the service promises for the request, which
\* is never more than MAX_PAGE_LIMIT, and reads at most MAX_PAGES_PER_CALL pages.
CallIsBounded == Len(items) <= limit /\ pages <= MaxPages

\* A call that returns a cursor returns a later one: a caller who follows the
\* cursors cannot go round in circles, even when its page came back empty.
CursorAdvances ==
    [][ pc = "scan" /\ pc' = "idle"
          => Before(cursor.token, cursor.skip, cursor'.token, cursor'.skip) ]_vars

\* With finitely many failures the walk reaches the end of the feed.
WalkEnds == <>(pc = "ended")
=============================================================================
