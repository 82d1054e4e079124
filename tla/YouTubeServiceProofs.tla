------------------------ MODULE YouTubeServiceProofs -------------------------
(* Proofs about the YouTube service.  Walks through pages (Paging), for every feed,  *)
(* every limit and every bound: nothing is skipped, repeated or out of order, and    *)
(* every call goes on.  The operations and the cache they share (YouTubeOperations), *)
(* for any callers, requests and room in the cache: an answer is of what was asked.  *)
EXTENDS Paging, YouTubeOperations, SequenceTheorems, TLAPS

-----------------------------------------------------------------------------
(* Walks.                                                                      *)

InCall == pc \in {"fetch", "scan"}

\* Between calls nothing is collected; in a call there is room for what is next.
CallShape ==
    /\ ~InCall => items = <<>> /\ pages = 0
    /\ InCall => limit >= 1
    /\ Len(items) <= limit
    /\ pc = "fetch" => Len(items) < limit /\ pages < MaxPages
    /\ InCall => ~Before(token, index, cursor.token, cursor.skip)
    /\ pc = "scan" /\ (token > 1 \/ changes = 0) => page = feed[token]

\* What a call has collected lies between the caller's cursor and its position.
ItemsBetween ==
    \A j \in DOMAIN items :
        /\ ~Before(items[j].page, items[j].index, cursor.token, cursor.skip)
        /\ Before(items[j].page, items[j].index, token, index)

ItemsDistinct ==
    \A i, j \in DOMAIN items : items[i].item = items[j].item => i = j

\* What has been returned lies before the caller's cursor.
DeliveredBehind ==
    \A d \in delivered :
        /\ d.call <= calls
        /\ pc # "ended" => Before(d.page, d.index, cursor.token, cursor.skip)

\* The caller has x, or will have it when the running call returns.
Got(x) == (\E d \in delivered : d.item = x) \/ Seen(x)

\* Nothing between the caller's cursor and the call's position is left out.
Scanned ==
    InCall =>
        \A p \in 1 .. Len(feed) : p > 1 \/ changes = 0 =>
            \A i \in 0 .. Len(feed[p]) - 1 :
                Before(p, i, token, index) => Got(feed[p][i + 1])

PagingInv ==
    /\ TypeOK
    /\ CallShape
    /\ ItemsBetween
    /\ ItemsDistinct
    /\ DeliveredBehind
    /\ InFeedOrder
    /\ NoRepeatWithinCall
    /\ Scanned
    /\ NothingSkipped

-----------------------------------------------------------------------------
(* Lemmas.                                                                     *)

\* _limit never returns less than one item, whatever the caller asks for.
LEMMA LimitIsPositive ==
    ASSUME ConstantsAssumption, NEW n \in Requests
    PROVE  EffectiveLimit(n) \in 1 .. MaxLimit
  BY DEF ConstantsAssumption, EffectiveLimit, Clamped

\* Positions are totally ordered.
LEMMA BeforeTransitive ==
    \A p, i, q, j, r, k \in Int :
        Before(p, i, q, j) /\ ~Before(r, k, q, j) => Before(p, i, r, k)
  BY DEF Before

\* What Return does to the history: everything collected becomes delivered by a
\* call of its own.
LEMMA ReturnedItems ==
    ASSUME TypeOK, NEW c, NEW next, Return(c, next)
    PROVE  /\ \A d \in delivered' :
                 \/ d \in delivered
                 \/ \E j \in DOMAIN items :
                       d = [page |-> items[j].page, index |-> items[j].index,
                            item |-> items[j].item, call |-> calls + 1]
           /\ delivered \subseteq delivered'
           /\ \A j \in DOMAIN items : \E d \in delivered' : d.item = items[j].item
<1> DEFINE rec(j) == [page |-> items[j].page, index |-> items[j].index,
                      item |-> items[j].item, call |-> calls + 1]
<1>1. delivered' = delivered \cup {rec(j) : j \in DOMAIN items}
  BY DEF Return
<1>2. \A j \in DOMAIN items : rec(j) \in delivered' /\ rec(j).item = items[j].item
  BY <1>1
<1> QED BY <1>1, <1>2

LEMMA PagingInit == ConstantsAssumption /\ Init => PagingInv
<1> SUFFICES ASSUME ConstantsAssumption, Init PROVE PagingInv
  OBVIOUS
<1>1. feed \in Seq(Seq(Items)) /\ Len(feed) > 0 /\ MaxPages \in Nat
  BY DEF Init, ConstantsAssumption
<1>2. TypeOK
  BY <1>1 DEF Init, TypeOK
<1>3. CallShape /\ ItemsBetween /\ ItemsDistinct /\ DeliveredBehind /\ InFeedOrder
      /\ NoRepeatWithinCall /\ Scanned
  BY <1>1 DEF Init, CallShape, InCall, ItemsBetween, ItemsDistinct, DeliveredBehind,
              InFeedOrder, NoRepeatWithinCall, Scanned
<1>4. NothingSkipped
  BY <1>1 DEF Init, NothingSkipped, Before
<1> QED BY <1>2, <1>3, <1>4 DEF PagingInv

\* Every item record a call has collected is well typed.
LEMMA ItemTypes ==
    ASSUME TypeOK, NEW j \in DOMAIN items
    PROVE  /\ items[j] \in ItemRecord
           /\ items[j].page \in Nat /\ items[j].index \in Nat /\ items[j].item \in Items
           /\ DOMAIN items = 1 .. Len(items) /\ Len(items) \in Nat
<1>1. items \in Seq(ItemRecord)
  BY DEF TypeOK
<1>2. items[j] \in ItemRecord /\ DOMAIN items = 1 .. Len(items) /\ Len(items) \in Nat
  BY <1>1
<1> QED BY <1>2 DEF ItemRecord

LEMMA DeliveredTypes ==
    ASSUME TypeOK, NEW d \in delivered
    PROVE  d.page \in Nat /\ d.index \in Nat /\ d.item \in Items /\ d.call \in Nat
  BY DEF TypeOK

LEMMA CursorTypes ==
    ASSUME TypeOK
    PROVE  /\ cursor.token \in 1 .. Len(feed) /\ cursor.skip \in Nat
           /\ token \in 1 .. Len(feed) /\ index \in Nat /\ Len(feed) \in Nat
           /\ limit \in Int /\ calls \in Nat /\ pages \in 0 .. MaxPages
           /\ Len(items) \in Nat /\ page \in Seq(Items) /\ Len(page) \in Nat
  BY DEF TypeOK

\* A call that returns with its position moved to (tok, skip), at or after the
\* call's own position, keeps the invariant.
LEMMA ReturnKeepsHistory ==
    ASSUME ConstantsAssumption, PagingInv, InCall, NEW tok \in 1 .. Len(feed), NEW skip \in Nat,
           NEW next \in {"idle", "ended"},
           Return([token |-> tok, skip |-> skip], next),
           ~Before(tok, skip, token, index)
    PROVE  /\ TypeOK' /\ CallShape' /\ ItemsBetween' /\ ItemsDistinct'
           /\ DeliveredBehind' /\ InFeedOrder' /\ NoRepeatWithinCall' /\ Scanned'
<1> USE DEF PagingInv
<1>1. /\ cursor' = [token |-> tok, skip |-> skip] /\ pc' = next
      /\ calls' = IF items = <<>> THEN calls ELSE calls + 1
      /\ items' = <<>> /\ pages' = 0 /\ page' = <<>>
      /\ UNCHANGED <<feed, limit, token, index, changes, failures>>
  BY DEF Return
<1>0. calls' \in Nat
  BY <1>1, CursorTypes
<1>2. ASSUME NEW d \in delivered', d \notin delivered
      PROVE  \E j \in DOMAIN items :
                d = [page |-> items[j].page, index |-> items[j].index,
                     item |-> items[j].item, call |-> calls + 1]
  BY <1>2, ReturnedItems
<1>3. ASSUME NEW d \in delivered'
      PROVE  d \in [page : Nat, index : Nat, item : Items, call : Nat]
  <2>1. CASE d \in delivered
    BY <2>1 DEF TypeOK
  <2>2. CASE d \notin delivered
    <3>1. PICK j \in DOMAIN items :
             d = [page |-> items[j].page, index |-> items[j].index,
                  item |-> items[j].item, call |-> calls + 1]
      BY <1>2, <2>2
    <3>2. items[j].page \in Nat /\ items[j].index \in Nat /\ items[j].item \in Items
      BY ItemTypes
    <3>3. calls + 1 \in Nat
      BY CursorTypes
    <3> QED BY <3>1, <3>2, <3>3
  <2> QED BY <2>1, <2>2
<1>4. TypeOK'
  <2>1. cursor' \in [token : 1 .. Len(feed), skip : Nat]
    BY <1>1
  <2>2. pages' \in 0 .. MaxPages
    BY <1>1 DEF ConstantsAssumption
  <2> QED BY <1>0, <1>1, <1>3, <2>1, <2>2 DEF TypeOK
<1>5. CallShape' /\ ItemsBetween' /\ ItemsDistinct' /\ Scanned'
  <2>1. limit \in Int /\ limit >= 1
    BY CursorTypes DEF CallShape
  <2> QED BY <1>1, <2>1 DEF CallShape, InCall, ItemsBetween, ItemsDistinct, Scanned
<1>6. ASSUME NEW d \in delivered'
      PROVE  /\ d.call <= calls + 1
             /\ d.call # calls + 1 => d \in delivered
             /\ d.call = calls + 1 =>
                   \E j \in DOMAIN items :
                      d = [page |-> items[j].page, index |-> items[j].index,
                           item |-> items[j].item, call |-> calls + 1]
             /\ Before(d.page, d.index, token, index)
  <2>1. CASE d \in delivered
    <3>1. d.call <= calls /\ Before(d.page, d.index, cursor.token, cursor.skip)
      BY <2>1 DEF DeliveredBehind, InCall
    <3>2. ~Before(token, index, cursor.token, cursor.skip)
      BY DEF CallShape
    <3>3. Before(d.page, d.index, token, index)
      <4>1. /\ d.page \in Int /\ d.index \in Int /\ token \in Int /\ index \in Int
            /\ cursor.token \in Int /\ cursor.skip \in Int
        BY <2>1, DeliveredTypes, CursorTypes, SMTT(30)
      <4> QED BY <3>1, <3>2, <4>1, BeforeTransitive
    <3>4. d.call \in Nat /\ calls \in Nat
      BY <2>1, DeliveredTypes, CursorTypes
    <3>5. d.call <= calls + 1 /\ d.call # calls + 1
      BY <3>1, <3>4
    <3> QED BY <2>1, <3>3, <3>5
  <2>2. CASE d \notin delivered
    <3>1. PICK j \in DOMAIN items :
             d = [page |-> items[j].page, index |-> items[j].index,
                  item |-> items[j].item, call |-> calls + 1]
      BY <1>2, <2>2
    <3>2. Before(items[j].page, items[j].index, token, index)
      BY DEF ItemsBetween
    <3>3. /\ d.page = items[j].page /\ d.index = items[j].index
          /\ d.call = calls + 1 /\ calls \in Nat
      BY <3>1, CursorTypes
    <3>4. d.call <= calls + 1
      BY <3>3
    <3> QED BY <3>1, <3>2, <3>3, <3>4
  <2> QED BY <2>1, <2>2
<1>7. DeliveredBehind'
  <2>1. SUFFICES ASSUME NEW d \in delivered'
                 PROVE  d.call <= calls' /\ Before(d.page, d.index, tok, skip)
    BY <1>1 DEF DeliveredBehind
  <2>2. d.call <= calls' /\ Before(d.page, d.index, token, index)
    <3>1. CASE d \in delivered
      <4>1. d.call <= calls /\ d.call \in Nat
        BY <3>1, DeliveredTypes DEF DeliveredBehind
      <4> QED BY <1>1, <1>6, <4>1, CursorTypes
    <3>2. CASE d \notin delivered
      <4>1. items # <<>> /\ d.call = calls + 1
        BY <1>2, <3>2
      <4> QED BY <1>1, <1>6, <4>1, CursorTypes
    <3> QED BY <3>1, <3>2
  <2>3. d.page \in Int /\ d.index \in Int /\ tok \in Int /\ token \in Int /\ index \in Int
    BY <1>3, CursorTypes, SMTT(30)
  <2> QED BY <2>2, <2>3, BeforeTransitive
<1>8. InFeedOrder'
  <2>1. SUFFICES ASSUME NEW d \in delivered', NEW e \in delivered', d.call < e.call
                 PROVE  Before(d.page, d.index, e.page, e.index)
    BY DEF InFeedOrder
  <2>2. d \in delivered /\ d.call <= calls
    <3>1. d.call \in Nat /\ e.call \in Nat /\ calls \in Nat /\ e.call <= calls + 1
      BY <1>3, <1>6, CursorTypes
    <3>2. d \in delivered
      BY <1>6, <2>1, <3>1
    <3> QED BY <3>2 DEF DeliveredBehind
  <2>3. CASE e \in delivered
    BY <2>1, <2>2, <2>3 DEF InFeedOrder
  <2>4. CASE e \notin delivered
    <3>1. PICK j \in DOMAIN items :
             e = [page |-> items[j].page, index |-> items[j].index,
                  item |-> items[j].item, call |-> calls + 1]
      BY <1>2, <2>4
    <3>2. /\ ~Before(e.page, e.index, cursor.token, cursor.skip)
          /\ Before(d.page, d.index, cursor.token, cursor.skip)
      BY <2>2, <3>1 DEF ItemsBetween, DeliveredBehind, InCall
    <3>3. /\ d.page \in Int /\ d.index \in Int /\ e.page \in Int /\ e.index \in Int
          /\ cursor.token \in Int /\ cursor.skip \in Int
      <4>1. /\ d \in [page : Nat, index : Nat, item : Items, call : Nat]
            /\ e \in [page : Nat, index : Nat, item : Items, call : Nat]
        BY <1>3
      <4>2. cursor.token \in Int /\ cursor.skip \in Int
        BY CursorTypes
      <4> QED BY <4>1, <4>2
    <3> QED BY <3>2, <3>3, BeforeTransitive
  <2> QED BY <2>3, <2>4
<1>9. NoRepeatWithinCall'
  <2>1. SUFFICES ASSUME NEW d \in delivered', NEW e \in delivered',
                        d.call = e.call, d.item = e.item
                 PROVE  d = e
    BY DEF NoRepeatWithinCall
  <2>2. CASE d.call # calls + 1
    BY <1>6, <2>1, <2>2 DEF NoRepeatWithinCall
  <2>3. CASE d.call = calls + 1
    <3>1. PICK i \in DOMAIN items :
             d = [page |-> items[i].page, index |-> items[i].index,
                  item |-> items[i].item, call |-> calls + 1]
      BY <1>6, <2>3
    <3>2. PICK j \in DOMAIN items :
             e = [page |-> items[j].page, index |-> items[j].index,
                  item |-> items[j].item, call |-> calls + 1]
      BY <1>6, <2>1, <2>3
    <3> QED BY <2>1, <3>1, <3>2 DEF ItemsDistinct
  <2> QED BY <2>2, <2>3
<1> QED BY <1>4, <1>5, <1>7, <1>8, <1>9

\* When a call returns at (tok, skip), whatever lies before that is with the
\* caller, provided nothing between the call's position and (tok, skip) exists.
LEMMA ReturnKeepsNothingSkipped ==
    ASSUME ConstantsAssumption, PagingInv, InCall, NEW tok \in 1 .. Len(feed), NEW skip \in Nat,
           NEW next \in {"idle", "ended"},
           Return([token |-> tok, skip |-> skip], next),
           \A p \in 1 .. Len(feed) : p > 1 \/ changes = 0 =>
               \A i \in 0 .. Len(feed[p]) - 1 :
                   next = "ended" \/ Before(p, i, tok, skip) => Before(p, i, token, index)
    PROVE  NothingSkipped'
<1> USE DEF PagingInv
<1>1. /\ cursor' = [token |-> tok, skip |-> skip] /\ pc' = next
      /\ UNCHANGED <<feed, changes>>
  BY DEF Return
<1>2. SUFFICES ASSUME NEW p \in 1 .. Len(feed), p > 1 \/ changes = 0,
                      NEW i \in 0 .. Len(feed[p]) - 1,
                      next = "ended" \/ Before(p, i, tok, skip)
               PROVE  \E d \in delivered' : d.item = feed[p][i + 1]
  BY <1>1 DEF NothingSkipped
<1>3. Got(feed[p][i + 1])
  BY <1>2 DEF Scanned
<1>4. CASE \E d \in delivered : d.item = feed[p][i + 1]
  BY <1>4, ReturnedItems
<1>5. CASE Seen(feed[p][i + 1])
  <2>1. PICK j \in DOMAIN items : items[j].item = feed[p][i + 1]
    BY <1>5 DEF Seen
  <2>2. \E d \in delivered' : d.item = items[j].item
    BY ReturnedItems
  <2> QED BY <2>1, <2>2
<1> QED BY <1>3, <1>4, <1>5 DEF Got

\* The parts of the invariant about the caller's history survive a step that
\* returns nothing.
CallerSees == <<cursor, delivered, calls, feed, changes>>

LEMMA HistoryUnchanged ==
    ASSUME DeliveredBehind, InFeedOrder, NoRepeatWithinCall, NothingSkipped,
           UNCHANGED CallerSees, pc' # "ended", pc # "ended"
    PROVE  DeliveredBehind' /\ InFeedOrder' /\ NoRepeatWithinCall' /\ NothingSkipped'
  BY DEF CallerSees, DeliveredBehind, InFeedOrder, NoRepeatWithinCall, NothingSkipped

-----------------------------------------------------------------------------
(* The steps.                                                                  *)

LEMMA CallStep ==
    ASSUME ConstantsAssumption, PagingInv, NEW n \in Requests, Call(n)
    PROVE  PagingInv'
<1> USE DEF PagingInv
<1>1. /\ pc = "idle" /\ pc' = "fetch" /\ limit' \in 1 .. MaxLimit
      /\ token' = cursor.token /\ index' = cursor.skip /\ items = <<>> /\ pages = 0
      /\ UNCHANGED <<feed, page, pages, items, cursor, delivered, calls, changes, failures>>
  BY LimitIsPositive DEF Call, caller, CallShape, InCall
<1>2. MaxLimit \in Nat /\ MaxPages \in Nat \ {0}
  BY DEF ConstantsAssumption
<1>3. TypeOK'
  BY <1>1, <1>2, CursorTypes DEF TypeOK
<1>4. CallShape' /\ ItemsBetween' /\ ItemsDistinct'
  BY <1>1, <1>2, CursorTypes DEF CallShape, InCall, ItemsBetween, ItemsDistinct, Before
<1>5. DeliveredBehind' /\ InFeedOrder' /\ NoRepeatWithinCall' /\ NothingSkipped'
  BY <1>1, HistoryUnchanged DEF CallerSees
<1>6. Scanned'
  BY <1>1 DEF Scanned, NothingSkipped, Got
<1> QED BY <1>3, <1>4, <1>5, <1>6

LEMMA FetchPageStep ==
    ASSUME ConstantsAssumption, PagingInv, FetchPage
    PROVE  PagingInv'
<1> USE DEF PagingInv
<1>1. /\ pc = "fetch" /\ pc' = "scan" /\ page' = feed[token] /\ pages' = pages + 1
      /\ UNCHANGED <<feed, limit, token, index, items, cursor, delivered, calls, changes, failures>>
  BY DEF FetchPage, caller
<1>2. feed[token] \in Seq(Items)
  BY CursorTypes DEF TypeOK
<1>3. MaxPages \in Nat /\ pages < MaxPages
  BY <1>1 DEF ConstantsAssumption, CallShape
<1>4. TypeOK'
  BY <1>1, <1>2, <1>3, CursorTypes DEF TypeOK
<1>5. CallShape' /\ ItemsBetween' /\ ItemsDistinct'
  BY <1>1, CursorTypes DEF CallShape, InCall, ItemsBetween, ItemsDistinct
<1>6. DeliveredBehind' /\ InFeedOrder' /\ NoRepeatWithinCall' /\ NothingSkipped'
  BY <1>1, HistoryUnchanged DEF CallerSees
<1>7. Scanned'
  BY <1>1 DEF Scanned, Got, Seen, InCall
<1> QED BY <1>4, <1>5, <1>6, <1>7

LEMMA FetchFailsStep ==
    ASSUME ConstantsAssumption, PagingInv, FetchFails
    PROVE  PagingInv'
<1> USE DEF PagingInv
<1>1. /\ pc = "fetch" /\ pc' = "idle" /\ items' = <<>> /\ pages' = 0 /\ page' = <<>>
      /\ failures' = failures + 1
      /\ UNCHANGED <<feed, limit, token, index, cursor, delivered, calls, changes>>
  BY DEF FetchFails, caller
<1>2. MaxPages \in Nat /\ limit >= 1
  BY <1>1 DEF ConstantsAssumption, CallShape, InCall
<1>3. TypeOK'
  BY <1>1, <1>2, CursorTypes DEF TypeOK
<1>4. CallShape' /\ ItemsBetween' /\ ItemsDistinct' /\ Scanned'
  BY <1>1, <1>2, CursorTypes DEF CallShape, InCall, ItemsBetween, ItemsDistinct, Scanned
<1>5. DeliveredBehind' /\ InFeedOrder' /\ NoRepeatWithinCall' /\ NothingSkipped'
  BY <1>1, HistoryUnchanged DEF CallerSees
<1> QED BY <1>3, <1>4, <1>5

LEMMA SkipDuplicateStep ==
    ASSUME ConstantsAssumption, PagingInv, SkipDuplicate
    PROVE  PagingInv'
<1> USE DEF PagingInv
<1>1. /\ pc = "scan" /\ pc' = "scan" /\ index' = index + 1 /\ index < Len(page)
      /\ Seen(page[index + 1])
      /\ UNCHANGED <<feed, limit, token, page, pages, items, cursor, delivered, calls,
                     changes, failures>>
  BY DEF SkipDuplicate, caller
<1>2. TypeOK'
  BY <1>1, CursorTypes DEF TypeOK
<1>3. CallShape' /\ ItemsDistinct'
  BY <1>1, CursorTypes DEF CallShape, InCall, ItemsDistinct, Before
<1>4. ItemsBetween'
  <2>1. SUFFICES ASSUME NEW j \in DOMAIN items
                 PROVE  /\ ~Before(items[j].page, items[j].index, cursor.token, cursor.skip)
                        /\ Before(items[j].page, items[j].index, token, index + 1)
    BY <1>1 DEF ItemsBetween
  <2>2. items[j].index \in Nat /\ index \in Nat
    BY ItemTypes, CursorTypes
  <2> QED BY <2>2 DEF ItemsBetween, Before
<1>5. DeliveredBehind' /\ InFeedOrder' /\ NoRepeatWithinCall' /\ NothingSkipped'
  BY <1>1, HistoryUnchanged DEF CallerSees
<1>6. Scanned'
  <2>1. ASSUME NEW p \in 1 .. Len(feed), p > 1 \/ changes = 0,
               NEW i \in 0 .. Len(feed[p]) - 1, Before(p, i, token, index + 1)
        PROVE  Got(feed[p][i + 1])
    <3>1. CASE Before(p, i, token, index)
      BY <1>1, <2>1, <3>1 DEF Scanned, InCall
    <3>2. CASE ~Before(p, i, token, index)
      <4>1. p = token /\ i = index
        BY <2>1, <3>2, CursorTypes DEF Before
      <4>2. page = feed[p]
        BY <1>1, <2>1, <4>1 DEF CallShape
      <4> QED BY <1>1, <4>1, <4>2 DEF Got
    <3> QED BY <3>1, <3>2
  <2>2. ASSUME NEW x, Got(x)
        PROVE  (\E d \in delivered' : d.item = x) \/ \E j \in DOMAIN items' : items'[j].item = x
    BY <1>1, <2>2 DEF Got, Seen
  <2>3. \A p \in 1 .. Len(feed') : p > 1 \/ changes' = 0 =>
           \A i \in 0 .. Len(feed'[p]) - 1 :
              Before(p, i, token', index') =>
                 \/ \E d \in delivered' : d.item = feed'[p][i + 1]
                 \/ \E j \in DOMAIN items' : items'[j].item = feed'[p][i + 1]
    BY <1>1, <2>1, <2>2
  <2> QED BY <2>3 DEF Scanned, Got, Seen
<1> QED BY <1>2, <1>3, <1>4, <1>5, <1>6

LEMMA TakeItemStep ==
    ASSUME ConstantsAssumption, PagingInv, TakeItem
    PROVE  PagingInv'
<1> USE DEF PagingInv
<1> DEFINE r == [page |-> token, index |-> index, item |-> page[index + 1]]
<1>1. /\ pc = "scan" /\ pc' = "scan" /\ index' = index + 1 /\ index < Len(page)
      /\ ~Seen(page[index + 1]) /\ Len(items) # limit
      /\ items' = Append(items, r)
      /\ UNCHANGED <<feed, limit, token, page, pages, cursor, delivered, calls,
                     changes, failures>>
  BY DEF TakeItem, caller, Full
<1>2. r \in ItemRecord /\ items \in Seq(ItemRecord)
  <2>1. page[index + 1] \in Items
    BY <1>1, CursorTypes
  <2> QED BY <2>1, CursorTypes DEF ItemRecord, TypeOK
<1>3. /\ items' \in Seq(ItemRecord) /\ Len(items') = Len(items) + 1
      /\ \A j \in DOMAIN items : j \in DOMAIN items' /\ items'[j] = items[j]
      /\ items'[Len(items) + 1] = r /\ Len(items) + 1 \in DOMAIN items'
      /\ \A j \in DOMAIN items' : j = Len(items) + 1 \/ j \in DOMAIN items
      /\ Len(items) + 1 \notin DOMAIN items
  <2> HIDE DEF r
  <2> QED BY <1>1, <1>2, AppendProperties
<1>4. TypeOK'
  BY <1>1, <1>3, CursorTypes DEF TypeOK
<1>5. CallShape'
  <2>1. Len(items) <= limit /\ limit \in Int /\ Len(items) \in Nat
    BY CursorTypes DEF CallShape
  <2>2. Len(items') <= limit
    BY <1>1, <1>3, <2>1
  <2> QED BY <1>1, <2>2, CursorTypes DEF CallShape, InCall, Before
<1>6. ItemsBetween'
  <2>1. SUFFICES ASSUME NEW j \in DOMAIN items'
                 PROVE  /\ ~Before(items'[j].page, items'[j].index, cursor.token, cursor.skip)
                        /\ Before(items'[j].page, items'[j].index, token, index + 1)
    BY <1>1 DEF ItemsBetween
  <2>2. CASE j \in DOMAIN items
    <3>1. items[j].index \in Nat /\ index \in Nat
      BY <2>2, ItemTypes, CursorTypes
    <3> QED BY <1>3, <2>2, <3>1 DEF ItemsBetween, Before
  <2>3. CASE j = Len(items) + 1
    BY <1>1, <1>3, <2>3, CursorTypes, SMTT(30) DEF CallShape, InCall, Before
  <2> QED BY <1>3, <2>2, <2>3
<1>7. ItemsDistinct'
  <2>1. \A j \in DOMAIN items : items'[j].item # items'[Len(items) + 1].item
    BY <1>1, <1>3 DEF Seen
  <2>2. SUFFICES ASSUME NEW i \in DOMAIN items', NEW j \in DOMAIN items',
                        items'[i].item = items'[j].item
                 PROVE  i = j
    BY DEF ItemsDistinct
  <2>3. CASE i \in DOMAIN items /\ j \in DOMAIN items
    BY <1>3, <2>2, <2>3 DEF ItemsDistinct
  <2> QED BY <1>3, <2>1, <2>2, <2>3
<1>8. DeliveredBehind' /\ InFeedOrder' /\ NoRepeatWithinCall' /\ NothingSkipped'
  BY <1>1, HistoryUnchanged DEF CallerSees
<1>9. Scanned'
  <2>0. \A x : Got(x) => Got(x)'
    BY <1>1, <1>3 DEF Got, Seen
  <2>1. SUFFICES ASSUME NEW p \in 1 .. Len(feed), p > 1 \/ changes = 0,
                        NEW i \in 0 .. Len(feed[p]) - 1, Before(p, i, token, index + 1)
                 PROVE  Got(feed[p][i + 1])'
    BY <1>1 DEF Scanned
  <2>2. CASE Before(p, i, token, index)
    <3>1. Got(feed[p][i + 1])
      BY <1>1, <2>1, <2>2 DEF Scanned, InCall
    <3>2. (\E d \in delivered' : d.item = feed[p][i + 1])
          \/ \E j \in DOMAIN items' : items'[j].item = feed[p][i + 1]
      BY <1>1, <1>3, <3>1 DEF Got, Seen
    <3> QED BY <1>1, <3>2 DEF Got, Seen
  <2>3. CASE ~Before(p, i, token, index)
    <3>1. p = token /\ i = index
      BY <2>1, <2>3, CursorTypes DEF Before
    <3>2. page = feed[p]
      BY <1>1, <2>1, <3>1 DEF CallShape
    <3>3. items'[Len(items) + 1].item = feed[p][i + 1]
      BY <1>3, <3>1, <3>2
    <3> QED BY <1>1, <1>3, <3>3 DEF Got, Seen
  <2> QED BY <2>2, <2>3
<1> QED BY <1>4, <1>5, <1>6, <1>7, <1>8, <1>9

LEMMA NextPageStep ==
    ASSUME ConstantsAssumption, PagingInv, NextPage
    PROVE  PagingInv'
<1> USE DEF PagingInv
<1>1. /\ pc = "scan" /\ pc' = "fetch" /\ token' = token + 1 /\ index' = 0 /\ page' = <<>>
      /\ index >= Len(page) /\ token < Len(feed)
      /\ Len(items) # limit /\ pages # MaxPages
      /\ UNCHANGED <<feed, limit, pages, items, cursor, delivered, calls, changes, failures>>
  BY DEF NextPage, caller, HasNextPage, Full, PagesExhausted
<1>2. TypeOK'
  BY <1>1, CursorTypes DEF TypeOK
<1>3. CallShape'
  <2>1. Len(items) < limit
    BY <1>1, CursorTypes DEF CallShape
  <2>2. pages < MaxPages
    BY <1>1, CursorTypes DEF ConstantsAssumption
  <2>3. ~Before(token + 1, 0, cursor.token, cursor.skip)
    BY <1>1, CursorTypes DEF CallShape, InCall, Before
  <2> QED BY <1>1, <2>1, <2>2, <2>3 DEF CallShape, InCall
<1>4. ItemsBetween'
  <2>1. SUFFICES ASSUME NEW j \in DOMAIN items
                 PROVE  /\ ~Before(items[j].page, items[j].index, cursor.token, cursor.skip)
                        /\ Before(items[j].page, items[j].index, token + 1, 0)
    BY <1>1 DEF ItemsBetween
  <2>2. items[j].page \in Nat /\ items[j].index \in Nat /\ token \in Nat
    BY ItemTypes, CursorTypes
  <2>3. /\ ~Before(items[j].page, items[j].index, cursor.token, cursor.skip)
        /\ Before(items[j].page, items[j].index, token, index)
    BY DEF ItemsBetween
  <2> QED BY <2>2, <2>3 DEF Before
<1>5. ItemsDistinct'
  BY <1>1 DEF ItemsDistinct
<1>6. DeliveredBehind' /\ InFeedOrder' /\ NoRepeatWithinCall' /\ NothingSkipped'
  BY <1>1, HistoryUnchanged DEF CallerSees
<1>7. Scanned'
  <2>1. SUFFICES ASSUME NEW p \in 1 .. Len(feed), p > 1 \/ changes = 0,
                        NEW i \in 0 .. Len(feed[p]) - 1, Before(p, i, token + 1, 0)
                 PROVE  Got(feed[p][i + 1])
    BY <1>1 DEF Scanned, Got, Seen
  <2>2. Before(p, i, token, index)
    <3>1. CASE p = token
      <4>1. page = feed[p]
        BY <1>1, <2>1, <3>1 DEF CallShape
      <4> QED BY <1>1, <3>1, <4>1, CursorTypes DEF Before
    <3>2. CASE p # token
      BY <2>1, <3>2, CursorTypes DEF Before
    <3> QED BY <3>1, <3>2
  <2> QED BY <1>1, <2>1, <2>2 DEF Scanned, InCall
<1> QED BY <1>2, <1>3, <1>4, <1>5, <1>6, <1>7

LEMMA FirstPageChangesStep ==
    ASSUME ConstantsAssumption, PagingInv, NEW q \in FirstPages, FirstPageChanges(q)
    PROVE  PagingInv'
<1> USE DEF PagingInv
<1>1. /\ feed' = [feed EXCEPT ![1] = q] /\ changes' = changes + 1
      /\ UNCHANGED <<pc, limit, token, index, page, pages, items, cursor, delivered, calls, failures>>
  BY DEF FirstPageChanges, callVars, caller
<1>2. /\ feed' \in Seq(Seq(Items)) /\ Len(feed') = Len(feed) /\ changes' \in Nat /\ changes' # 0
      /\ \A p \in 1 .. Len(feed) : p > 1 => feed'[p] = feed[p]
  BY <1>1 DEF TypeOK, ConstantsAssumption
<1>3. TypeOK'
  BY <1>1, <1>2, CursorTypes DEF TypeOK
<1>4. CallShape' /\ ItemsBetween' /\ ItemsDistinct'
  BY <1>1, <1>2, CursorTypes DEF CallShape, InCall, ItemsBetween, ItemsDistinct
<1>5. DeliveredBehind' /\ InFeedOrder' /\ NoRepeatWithinCall'
  BY <1>1 DEF DeliveredBehind, InFeedOrder, NoRepeatWithinCall
<1>6. Scanned'
  <2>1. ASSUME InCall', NEW p \in 1 .. Len(feed'), p > 1 \/ changes' = 0,
               NEW i \in 0 .. Len(feed'[p]) - 1, Before(p, i, token', index')
        PROVE  \/ \E d \in delivered' : d.item = feed'[p][i + 1]
               \/ \E j \in DOMAIN items' : items'[j].item = feed'[p][i + 1]
    <3>1. InCall /\ p \in 1 .. Len(feed) /\ p > 1 /\ feed'[p] = feed[p]
      BY <1>1, <1>2, <2>1 DEF InCall
    <3>2. Before(p, i, token, index)
      BY <1>1, <2>1
    <3>3. Got(feed[p][i + 1])
      BY <2>1, <3>1, <3>2 DEF Scanned
    <3> QED BY <1>1, <3>1, <3>3 DEF Got, Seen
  <2> QED BY <2>1 DEF Scanned, Got, Seen
<1>7. NothingSkipped'
  <2>1. ASSUME NEW p \in 1 .. Len(feed'), p > 1 \/ changes' = 0,
               NEW i \in 0 .. Len(feed'[p]) - 1,
               pc' = "ended" \/ Before(p, i, cursor'.token, cursor'.skip)
        PROVE  \E d \in delivered' : d.item = feed'[p][i + 1]
    <3>1. p \in 1 .. Len(feed) /\ p > 1 /\ feed'[p] = feed[p]
      BY <1>2, <2>1
    <3>2. \E d \in delivered : d.item = feed[p][i + 1]
      BY <1>1, <2>1, <3>1 DEF NothingSkipped
    <3> QED BY <1>1, <3>1, <3>2
  <2> QED BY <2>1 DEF NothingSkipped
<1> QED BY <1>3, <1>4, <1>5, <1>6, <1>7

LEMMA ReturnMidPageStep ==
    ASSUME ConstantsAssumption, PagingInv, ReturnMidPage
    PROVE  PagingInv'
<1> USE DEF PagingInv
<1>1. InCall /\ Return([token |-> token, skip |-> index], "idle")
  BY DEF ReturnMidPage, CursorHere, InCall
<1>2. ~Before(token, index, token, index)
  BY CursorTypes DEF Before
<1>3. /\ TypeOK' /\ CallShape' /\ ItemsBetween' /\ ItemsDistinct'
      /\ DeliveredBehind' /\ InFeedOrder' /\ NoRepeatWithinCall' /\ Scanned'
  BY <1>1, <1>2, CursorTypes, ReturnKeepsHistory
<1>4. NothingSkipped'
  BY <1>1, CursorTypes, ReturnKeepsNothingSkipped
<1> QED BY <1>3, <1>4

LEMMA ReturnAtBoundaryStep ==
    ASSUME ConstantsAssumption, PagingInv, ReturnAtBoundary
    PROVE  PagingInv'
<1> USE DEF PagingInv
<1>1. /\ InCall /\ pc = "scan" /\ Return([token |-> token + 1, skip |-> 0], "idle")
      /\ index >= Len(page) /\ token < Len(feed)
  BY DEF ReturnAtBoundary, CursorOfNextPage, InCall, HasNextPage
<1>2. ~Before(token + 1, 0, token, index) /\ token + 1 \in 1 .. Len(feed) /\ 0 \in Nat
  BY <1>1, CursorTypes DEF Before
<1>3. /\ TypeOK' /\ CallShape' /\ ItemsBetween' /\ ItemsDistinct'
      /\ DeliveredBehind' /\ InFeedOrder' /\ NoRepeatWithinCall' /\ Scanned'
  BY <1>1, <1>2, ReturnKeepsHistory
<1>4. ASSUME NEW p \in 1 .. Len(feed), p > 1 \/ changes = 0,
             NEW i \in 0 .. Len(feed[p]) - 1, Before(p, i, token + 1, 0)
      PROVE  Before(p, i, token, index)
  <2>1. CASE p = token
    <3>1. page = feed[p]
      BY <1>1, <1>4, <2>1 DEF CallShape
    <3> QED BY <1>1, <2>1, <3>1, CursorTypes DEF Before
  <2>2. CASE p # token
    BY <1>4, <2>2, CursorTypes DEF Before
  <2> QED BY <2>1, <2>2
<1>5. NothingSkipped'
  BY <1>1, <1>2, <1>4, ReturnKeepsNothingSkipped
<1> QED BY <1>3, <1>5

LEMMA ReturnLastStep ==
    ASSUME ConstantsAssumption, PagingInv, ReturnLast
    PROVE  PagingInv'
<1> USE DEF PagingInv
<1>1. /\ InCall /\ pc = "scan" /\ Return([token |-> token, skip |-> index], "ended")
      /\ index >= Len(page) /\ token = Len(feed)
  BY CursorTypes DEF ReturnLast, InCall, HasNextPage
<1>2. ~Before(token, index, token, index)
  BY CursorTypes DEF Before
<1>3. /\ TypeOK' /\ CallShape' /\ ItemsBetween' /\ ItemsDistinct'
      /\ DeliveredBehind' /\ InFeedOrder' /\ NoRepeatWithinCall' /\ Scanned'
  BY <1>1, <1>2, CursorTypes, ReturnKeepsHistory
<1>4. ASSUME NEW p \in 1 .. Len(feed), p > 1 \/ changes = 0, NEW i \in 0 .. Len(feed[p]) - 1
      PROVE  Before(p, i, token, index)
  <2>1. CASE p = token
    <3>1. page = feed[p]
      BY <1>1, <1>4, <2>1 DEF CallShape
    <3> QED BY <1>1, <2>1, <3>1, CursorTypes DEF Before
  <2>2. CASE p # token
    BY <1>1, <2>2, CursorTypes DEF Before
  <2> QED BY <2>1, <2>2
<1>5. NothingSkipped'
  BY <1>1, <1>4, CursorTypes, ReturnKeepsNothingSkipped
<1> QED BY <1>3, <1>5

LEMMA PagingNext == ConstantsAssumption /\ PagingInv /\ [Next]_vars => PagingInv'
<1> SUFFICES ASSUME ConstantsAssumption, PagingInv, [Next]_vars PROVE PagingInv'
  OBVIOUS
<1>1. CASE UNCHANGED vars
  BY <1>1 DEF vars, PagingInv, TypeOK, CallShape, InCall, ItemsBetween, ItemsDistinct,
              DeliveredBehind, InFeedOrder, NoRepeatWithinCall, Scanned, Got, Seen, NothingSkipped
<1> QED BY <1>1, CallStep, FetchPageStep, FetchFailsStep, SkipDuplicateStep, TakeItemStep,
           NextPageStep, FirstPageChangesStep, ReturnMidPageStep, ReturnAtBoundaryStep,
           ReturnLastStep DEF Next, Walk, CollectPage

LEMMA PagingInvariant == Spec => []PagingInv
<1>1. Init => PagingInv
  BY PagingInit, ConstantsAssumption
<1>2. PagingInv /\ [Next]_vars => PagingInv'
  BY PagingNext, ConstantsAssumption
<1> QED BY <1>1, <1>2, PTL DEF Spec

\* Every reachable state is well typed.
THEOREM TypeCorrect == Spec => []TypeOK
<1>1. PagingInv => TypeOK
  BY DEF PagingInv
<1> QED BY <1>1, PagingInvariant, PTL

\* A walk by cursors leaves out no item of a page that stays as it was.
THEOREM WalkIsLossless == Spec => []NothingSkipped
<1>1. PagingInv => NothingSkipped
  BY DEF PagingInv
<1> QED BY <1>1, PagingInvariant, PTL

\* A walk by cursors returns each position at most once, in the feed's order.
THEOREM WalkIsOrdered == Spec => []InFeedOrder
<1>1. PagingInv => InFeedOrder
  BY DEF PagingInv
<1> QED BY <1>1, PagingInvariant, PTL

\* No call returns an item twice.
THEOREM CallsDeduplicate == Spec => []NoRepeatWithinCall
<1>1. PagingInv => NoRepeatWithinCall
  BY DEF PagingInv
<1> QED BY <1>1, PagingInvariant, PTL

\* A call returns at most its limit and reads at most MAX_PAGES_PER_CALL pages.
THEOREM CallsAreBounded == Spec => []CallIsBounded
<1>1. PagingInv => CallIsBounded
  <2> SUFFICES ASSUME PagingInv PROVE CallIsBounded
    OBVIOUS
  <2>1. TypeOK /\ Len(items) <= limit
    BY DEF PagingInv, CallShape
  <2>2. pages <= MaxPages
    BY <2>1, ConstantsAssumption DEF TypeOK, ConstantsAssumption
  <2> QED BY <2>1, <2>2 DEF CallIsBounded
<1> QED BY <1>1, PagingInvariant, PTL

\* A call that returns a cursor returns a later one than it was given.
THEOREM CursorsAdvance == Spec => CursorAdvances
<1>1. PagingInv /\ [Next]_vars /\ pc = "scan" /\ pc' = "idle"
         => Before(cursor.token, cursor.skip, cursor'.token, cursor'.skip)
  <2> SUFFICES ASSUME PagingInv, [Next]_vars, pc = "scan", pc' = "idle"
               PROVE  Before(cursor.token, cursor.skip, cursor'.token, cursor'.skip)
    OBVIOUS
  <2>0. TypeOK /\ CallShape /\ ItemsBetween
    BY DEF PagingInv
  <2>1. ReturnMidPage \/ ReturnAtBoundary
    BY DEF Next, Walk, CollectPage, Call, FetchPage, FetchFails, SkipDuplicate, TakeItem,
           NextPage, FirstPageChanges, ReturnLast, Return, caller, callVars, vars
  <2>2. CASE ReturnAtBoundary
    <3>1. cursor' = [token |-> token + 1, skip |-> 0] /\ InCall
      BY <2>2 DEF ReturnAtBoundary, Return, CursorOfNextPage, InCall
    <3>2. cursor'.token = token + 1 /\ cursor'.skip = 0
      BY <3>1
    <3> QED BY <2>0, <3>1, <3>2, CursorTypes DEF CallShape, Before
  <2>3. CASE ReturnMidPage
    <3>1. /\ cursor' = [token |-> token, skip |-> index] /\ InCall /\ Len(items) = limit
      BY <2>3 DEF ReturnMidPage, Return, CursorHere, InCall, Full
    <3>2. 1 \in DOMAIN items
      <4>1. items \in Seq(ItemRecord) /\ Len(items) >= 1
        BY <2>0, <3>1, CursorTypes DEF CallShape, TypeOK
      <4> QED BY <4>1
    <3>3. /\ ~Before(items[1].page, items[1].index, cursor.token, cursor.skip)
          /\ Before(items[1].page, items[1].index, token, index)
      BY <2>0, <3>2 DEF ItemsBetween
    <3>4. cursor'.token = token /\ cursor'.skip = index
      BY <3>1
    <3>5. /\ items[1].page \in Int /\ items[1].index \in Int /\ token \in Int /\ index \in Int
          /\ cursor.token \in Int /\ cursor.skip \in Int
      BY <2>0, <3>2, ItemTypes, CursorTypes
    <3> QED BY <3>3, <3>4, <3>5, BeforeTransitive
  <2> QED BY <2>1, <2>2, <2>3
<1> QED BY <1>1, PagingInvariant, PTL DEF Spec, CursorAdvances

-----------------------------------------------------------------------------
(* What a walk can still do.                                                   *)

\* A position is in its page, or at the end of it, while upstream leaves the page as it
\* was.
Inside(tok, at) == tok > 1 \/ changes = 0 => at <= Len(feed[tok])

CursorInside == Inside(cursor.token, cursor.skip)
CallInside == InCall => Inside(token, index)

\* What a call has left to do between two fetches.
LeftInPage ==
    IF pc = "scan" THEN IF index < Len(page) THEN 1 + Len(page) - index ELSE 1 ELSE 0

\* A call never marks time: it ends, reads one page more, or goes on in its page.
ReadsOn ==
    InCall =>
        \/ ~InCall'
        \/ pages' = pages + 1 /\ pages' <= MaxPages
        \/ pages' = pages /\ LeftInPage' < LeftInPage
        \/ UNCHANGED <<pc, callVars>>

LEMMA LeftIsNatural ==
    ASSUME TypeOK
    PROVE  LeftInPage \in Nat
<1>1. index \in Nat /\ Len(page) \in Nat
  BY CursorTypes
<1>2. QED  BY <1>1 DEF LeftInPage

\* One position further in a page.
LEMMA OneFurther ==
    ASSUME TypeOK, pc = "scan", pc' = "scan", index < Len(page), index' = index + 1,
           page' = page
    PROVE  LeftInPage' < LeftInPage /\ index + 1 <= Len(page)
<1>1. index \in Nat /\ Len(page) \in Nat
  BY CursorTypes
<1>2. LeftInPage = 1 + Len(page) - index
  BY DEF LeftInPage
<1>3. LeftInPage' = IF index + 1 < Len(page) THEN 1 + Len(page) - (index + 1) ELSE 1
  BY DEF LeftInPage
<1>4. QED  BY <1>1, <1>2, <1>3

LEMMA InsideNext ==
    ASSUME ConstantsAssumption, PagingInv, CursorInside, CallInside, [Next]_vars
    PROVE  CursorInside' /\ CallInside'
<1>1. TypeOK /\ CallShape
  BY DEF PagingInv
<1>2. /\ token \in 1 .. Len(feed) /\ index \in Nat /\ Len(feed) \in Nat /\ Len(page) \in Nat
      /\ \A p \in 1 .. Len(feed) : Len(feed[p]) \in Nat
  <2>1. \A p \in 1 .. Len(feed) : feed[p] \in Seq(Items)
    BY <1>1 DEF TypeOK
  <2>2. QED  BY <1>1, <2>1, CursorTypes
<1>3. pc = "scan" /\ (token > 1 \/ changes = 0) => page = feed[token]
  BY <1>1 DEF CallShape
<1>4. ASSUME NEW n \in Requests, Call(n)
      PROVE  CursorInside' /\ CallInside'
  BY <1>4 DEF Call, caller, CursorInside, CallInside, Inside
<1>5. CASE FetchPage
  BY <1>5 DEF FetchPage, caller, CursorInside, CallInside, Inside, InCall
<1>6. CASE FetchFails
  BY <1>6 DEF FetchFails, caller, CursorInside, CallInside, Inside, InCall
<1>7. CASE SkipDuplicate \/ TakeItem
  <2>1. /\ pc = "scan" /\ pc' = "scan" /\ index < Len(page) /\ index' = index + 1 /\ page' = page
        /\ UNCHANGED <<feed, token, cursor, changes>>
    BY <1>7 DEF SkipDuplicate, TakeItem, caller
  <2>2. index + 1 <= Len(page)
    BY <1>2, <2>1
  <2>3. QED  BY <1>3, <2>1, <2>2 DEF CursorInside, CallInside, Inside
<1>8. CASE ReturnMidPage
  <2>1. /\ pc = "scan" /\ index < Len(page) /\ pc' = "idle" /\ UNCHANGED <<feed, changes>>
        /\ cursor' = [token |-> token, skip |-> index]
    BY <1>8 DEF ReturnMidPage, Return, CursorHere
  <2>2. CursorInside'
    BY <1>2, <1>3, <2>1 DEF CursorInside, Inside
  <2>3. QED  BY <2>1, <2>2 DEF CallInside, InCall
<1>9. CASE ReturnLast
  <2>1. /\ pc = "scan" /\ pc' = "ended" /\ UNCHANGED <<feed, changes>>
        /\ cursor' = [token |-> token, skip |-> index]
    BY <1>9 DEF ReturnLast, Return
  <2>2. CursorInside'
    BY <2>1 DEF CursorInside, CallInside, Inside, InCall
  <2>3. QED  BY <2>1, <2>2 DEF CallInside, InCall
<1>10. CASE ReturnAtBoundary
  <2>1. /\ pc' = "idle" /\ UNCHANGED <<feed, changes>> /\ token + 1 \in 1 .. Len(feed)
        /\ cursor' = [token |-> token + 1, skip |-> 0]
    BY <1>2, <1>10 DEF ReturnAtBoundary, Return, CursorOfNextPage, HasNextPage
  <2>2. CursorInside'
    BY <1>2, <2>1 DEF CursorInside, Inside
  <2>3. QED  BY <2>1, <2>2 DEF CallInside, InCall
<1>11. CASE NextPage
  <2>1. /\ token' = token + 1 /\ index' = 0 /\ token + 1 \in 1 .. Len(feed)
        /\ UNCHANGED <<feed, changes, cursor>>
    BY <1>2, <1>11 DEF NextPage, caller, HasNextPage
  <2>2. QED  BY <1>2, <2>1 DEF CursorInside, CallInside, Inside
<1>12. ASSUME NEW p \in FirstPages, FirstPageChanges(p)
       PROVE  CursorInside' /\ CallInside'
  <2>1. /\ feed' = [feed EXCEPT ![1] = p] /\ changes' = changes + 1 /\ changes \in Nat
        /\ UNCHANGED <<pc, token, index, cursor>>
    BY <1>1, <1>12 DEF FirstPageChanges, callVars, caller, TypeOK
  <2>2. \A q \in 1 .. Len(feed) : q > 1 => feed'[q] = feed[q]
    BY <1>1, <2>1 DEF TypeOK
  <2>3. cursor.token \in 1 .. Len(feed)
    BY <1>1, CursorTypes
  <2>4. changes' # 0
    BY <2>1
  <2>5. QED  BY <1>2, <2>1, <2>2, <2>3, <2>4 DEF CursorInside, CallInside, Inside, InCall
<1>13. CASE UNCHANGED vars
  BY <1>13 DEF vars, CursorInside, CallInside, Inside, InCall
<1>14. QED
  BY <1>4, <1>5, <1>6, <1>7, <1>8, <1>9, <1>10, <1>11, <1>12, <1>13 DEF Next, Walk, CollectPage

LEMMA ReadsOnStep ==
    ASSUME ConstantsAssumption, PagingInv, [Next]_vars
    PROVE  ReadsOn
<1>1. TypeOK /\ CallShape
  BY DEF PagingInv
<1>2. CASE FetchPage
  <2>1. pages' = pages + 1 /\ pages < MaxPages
    BY <1>1, <1>2 DEF FetchPage, CallShape
  <2>2. pages \in Nat /\ MaxPages \in Nat
    BY <1>1 DEF ConstantsAssumption, TypeOK
  <2>3. QED  BY <2>1, <2>2 DEF ReadsOn
<1>3. CASE SkipDuplicate \/ TakeItem
  <2>1. /\ pc = "scan" /\ pc' = "scan" /\ index < Len(page) /\ index' = index + 1
        /\ page' = page /\ pages' = pages
    BY <1>3 DEF SkipDuplicate, TakeItem
  <2>2. QED  BY <1>1, <2>1, OneFurther DEF ReadsOn
<1>4. CASE NextPage
  <2>1. /\ pc = "scan" /\ pc' = "fetch" /\ ~(index < Len(page)) /\ pages' = pages
    <3>1. index \in Nat /\ Len(page) \in Nat
      BY <1>1, CursorTypes
    <3>2. QED  BY <1>4, <3>1 DEF NextPage
  <2>2. LeftInPage = 1 /\ LeftInPage' = 0
    BY <2>1 DEF LeftInPage
  <2>3. QED  BY <2>1, <2>2 DEF ReadsOn
<1>5. CASE FetchFails \/ ReturnMidPage \/ ReturnLast \/ ReturnAtBoundary
  BY <1>5 DEF FetchFails, ReturnMidPage, ReturnLast, ReturnAtBoundary, Return, ReadsOn, InCall
<1>6. ASSUME NEW n \in Requests, Call(n)
      PROVE  ReadsOn
  BY <1>6 DEF Call, ReadsOn, InCall
<1>7. ASSUME NEW p \in FirstPages, FirstPageChanges(p)
      PROVE  ReadsOn
  BY <1>7 DEF FirstPageChanges, ReadsOn
<1>8. CASE UNCHANGED vars
  BY <1>8 DEF vars, callVars, ReadsOn
<1>9. QED
  BY <1>2, <1>3, <1>4, <1>5, <1>6, <1>7, <1>8 DEF Next, Walk, CollectPage

\* A call of collect_page has only so much to do: in every page it goes on to the end, and
\* it reads at most MAX_PAGES_PER_CALL of them; and a cursor points into its page, so that
\* cursors, which only advance (CursorsAdvance), come to the end of the feed.
THEOREM CallsReadOn == Spec => /\ [](LeftInPage \in Nat /\ CursorInside)
                               /\ [][ReadsOn]_vars
<1>1. Init => CursorInside /\ CallInside
  <2>1. ASSUME Init
        PROVE  CursorInside /\ CallInside
    <3>1. feed \in Seq(Seq(Items)) /\ Len(feed) > 0
      BY <2>1, ConstantsAssumption DEF Init, ConstantsAssumption
    <3>2. feed[1] \in Seq(Items)
      BY <3>1
    <3>3. 0 <= Len(feed[1])
      BY <3>2
    <3>4. QED  BY <2>1, <3>3 DEF Init, CursorInside, CallInside, Inside, InCall
  <2>2. QED  BY <2>1
<1>2. PagingInv /\ CursorInside /\ CallInside /\ [Next]_vars => CursorInside' /\ CallInside'
  BY InsideNext, ConstantsAssumption
<1>3. PagingInv /\ [Next]_vars => [ReadsOn]_vars
  BY ReadsOnStep, ConstantsAssumption
<1>4. PagingInv => LeftInPage \in Nat
  BY LeftIsNatural DEF PagingInv
<1>5. QED  BY <1>1, <1>2, <1>3, <1>4, PagingInvariant, PTL DEF Spec

-----------------------------------------------------------------------------
(* The operations and their cache.                                             *)

\* The list that the entry with a key is of, as far as the key tells.
ListOfKey(k) ==
    List([op |-> k.op, about |-> k.about, option |-> k.option, cursor |-> k.from])

Page(k, next) ==
    [of |-> ListOfKey(k), from |-> k.from, size |-> k.size, names |-> Absent, next |-> next]

\* An entry is what its key says, and goes on only if it is a page of a list; a
\* handle leads to a channel.
EntryFits(k, entry) ==
    /\ k.op \notin Leads => /\ entry = Page(k, entry.next)
                            /\ entry.next # Start => k.op \in Lists
    /\ k.op = "handle" => entry.of \in Channels

\* A request with a cursor is one for a list, or for a topic, which is one.
WishFits(w) ==
    /\ w = [op |-> w.op, about |-> w.about, option |-> w.option, limit |-> w.limit,
            cursor |-> w.cursor]
    /\ w.op \notin Leads
    /\ w.cursor # Start => Plain(w, Absent).op \in Lists

\* An answer is the entry for the request that its own names make plain.
AnswerFits(w, result) ==
    \/ result = Nothing
    \/ LET own == Plain(w, result.names)
       IN  /\ result = [Page(Key(own), result.next) EXCEPT !.names = result.names]
           /\ NeedsLead(w) => result.names # Absent
           /\ result.next # Start => own.op \in Lists

CallerFits(state, w, led, result) ==
    /\ WishFits(w)
    /\ state = "resolves" => NeedsLead(w)
    /\ state = "fetches" /\ NeedsLead(w) => led # Absent
    /\ state = "answered" => AnswerFits(w, result)

KeptInv == \A k \in DOMAIN kept : EntryFits(k, kept[k])

CallersInv ==
    /\ DOMAIN progress = Callers /\ DOMAIN wish = Callers
    /\ DOMAIN target = Callers /\ DOMAIN answer = Callers
    /\ \A c \in Callers : CallerFits(progress[c], wish[c], target[c], answer[c])

OpsInv == KeptInv /\ CallersInv /\ owner \in [Spellings -> Channels]

\* What a request comes down to, and the key of its result, from which the list can
\* be told.
LEMMA PlainFacts ==
    ASSUME NEW w, WishFits(w), NEW led
    PROVE  LET p == Plain(w, led)
           IN  /\ p.op = Plain(w, Absent).op /\ p.op \notin Leads
               /\ p.cursor = w.cursor /\ p.limit = w.limit
               /\ ~NeedsLead(w) => p = Plain(w, Absent)
               /\ Key(p).op = p.op /\ Key(p).from = w.cursor
               /\ List(p) = ListOfKey(Key(p))
               /\ p.op \in Lists \cup {"shorts"} => Key(p).size = Size(w.limit)
<1> DEFINE p == Plain(w, led)
<1>1. /\ p.op = Plain(w, Absent).op /\ p.op \notin Leads
      /\ p.cursor = w.cursor /\ p.limit = w.limit
      /\ ~NeedsLead(w) => p = Plain(w, Absent)
  <2>1. CASE OfChannelTopic(w)
    BY <2>1 DEF Plain, WishFits, NeedsLead, Leads
  <2>2. CASE w.op = "topic" /\ ~OfChannelTopic(w)
    BY <2>2 DEF Plain, WishFits, NeedsLead, Leads
  <2>3. CASE IsHandle(w)
    <3>1. ~OfChannelTopic(w) /\ w.op # "topic"
      BY <2>3 DEF OfChannelTopic, IsHandle, OfChannels
    <3> QED BY <2>3, <3>1 DEF Plain, WishFits, NeedsLead, Leads
  <2>4. CASE w.op # "topic" /\ ~IsHandle(w) /\ ~OfChannelTopic(w)
    BY <2>4 DEF Plain, WishFits, NeedsLead, Leads
  <2> QED BY <2>1, <2>2, <2>3, <2>4
<1>2. p.op \notin Lists => w.cursor = Start
  BY <1>1 DEF WishFits
<1> HIDE DEF p
<1>3. /\ Key(p).op = p.op /\ Key(p).about = p.about /\ Key(p).option = p.option
      /\ Key(p).from = w.cursor
  BY <1>1, <1>2 DEF Key, KeyOf
<1>4. List(p) = ListOfKey(Key(p))
  BY <1>1, <1>3 DEF List, ListOfKey
<1>5. p.op \in Lists \cup {"shorts"} => Key(p).size = Size(w.limit)
  BY <1>1 DEF Key, KeyOf
<1> QED BY <1>1, <1>3, <1>4, <1>5 DEF p

\* Another entry leaves the others what they are.
LEMMA PutKeeps ==
    ASSUME KeptInv, NEW k, NEW entry, Put(k, entry), EntryFits(k, entry)
    PROVE  KeptInv'
<1> PICK gone : kept' = [j \in (DOMAIN kept \ gone) \cup {k} |-> IF j = k THEN entry ELSE kept[j]]
  BY DEF Put
<1> QED BY DEF KeptInv

LEMMA BecomesKeeps ==
    ASSUME CallersInv, NEW c \in Callers, NEW state, NEW w, NEW led, NEW result,
           Becomes(c, state, w, led, result), CallerFits(state, w, led, result)
    PROVE  CallersInv'
<1>1. /\ DOMAIN progress' = Callers /\ DOMAIN wish' = Callers
      /\ DOMAIN target' = Callers /\ DOMAIN answer' = Callers
  BY DEF Becomes, CallersInv
<1>2. ASSUME NEW d \in Callers
      PROVE  CallerFits(progress'[d], wish'[d], target'[d], answer'[d])
  <2>1. CASE d = c
    BY <2>1 DEF Becomes, CallersInv
  <2>2. CASE d # c
    BY <2>2 DEF Becomes, CallersInv
  <2> QED BY <2>1, <2>2
<1>3. (\A d \in Callers : CallerFits(progress[d], wish[d], target[d], answer[d]))'
  BY <1>2 DEF CallerFits
<1> QED BY <1>1, <1>3 DEF CallersInv

\* An entry, with what the operation adds, answers the request with its key.
LEMMA NamedFits ==
    ASSUME NEW w, WishFits(w), NEW led, NeedsLead(w) => led # Absent, NEW entry,
           EntryFits(Key(Plain(w, led)), entry)
    PROVE  AnswerFits(w, Named(w, led, entry))
<1> DEFINE k == Key(Plain(w, led))
           result == Named(w, led, entry)
<1>1. k.op \notin Leads /\ k.op = Plain(w, led).op
  BY PlainFacts
<1>2. entry = Page(k, entry.next) /\ (entry.next # Start => k.op \in Lists)
  BY <1>1 DEF EntryFits
<1> HIDE DEF k
<1>3. result.names = IF NeedsLead(w) THEN led ELSE Absent
  BY <1>2 DEF Named, Page
<1>4. Plain(w, result.names) = Plain(w, led)
  BY <1>3, PlainFacts
<1>5. result = [Page(k, result.next) EXCEPT !.names = result.names] /\ result.next = entry.next
  BY <1>2 DEF Named, Page
<1> HIDE DEF result
<1> QED BY <1>1, <1>2, <1>3, <1>4, <1>5 DEF AnswerFits, k, result

\* Looking the result up: it is there, has to be fetched, or the topic has none.
LEMMA LooksKeeps ==
    ASSUME CallersInv, NEW c \in Callers, NEW w, WishFits(w), NEW led, NEW cache,
           IsHandle(w) => led # Absent, \A k \in DOMAIN cache : EntryFits(k, cache[k]),
           Looks(c, w, led, cache)
    PROVE  CallersInv'
<1> DEFINE k == Key(Plain(w, led))
<1>1. CASE OfChannelTopic(w) /\ led = Absent
  <2>1. Becomes(c, "answered", w, Absent, Nothing)
    BY <1>1 DEF Looks
  <2>2. CallerFits("answered", w, Absent, Nothing)
    BY DEF CallerFits, AnswerFits
  <2> QED BY <2>1, <2>2, BecomesKeeps
<1>2. CASE ~(OfChannelTopic(w) /\ led = Absent)
  <2>1. NeedsLead(w) => led # Absent
    BY <1>2 DEF NeedsLead
  <2>2. CASE k \in DOMAIN cache
    <3>1. Becomes(c, "answered", w, Absent, Named(w, led, cache[k]))
      BY <1>2, <2>2 DEF Looks
    <3>2. AnswerFits(w, Named(w, led, cache[k]))
      BY <2>1, <2>2, NamedFits
    <3>3. CallerFits("answered", w, Absent, Named(w, led, cache[k]))
      BY <3>2 DEF CallerFits
    <3> QED BY <3>1, <3>3, BecomesKeeps
  <2>3. CASE k \notin DOMAIN cache
    <3>1. Becomes(c, "fetches", w, led, Nothing)
      BY <1>2, <2>3 DEF Looks
    <3>2. CallerFits("fetches", w, led, Nothing)
      BY <2>1 DEF CallerFits
    <3> QED BY <3>1, <3>2, BecomesKeeps
  <2> QED BY <2>2, <2>3
<1> QED BY <1>1, <1>2

LEMMA NoWishFits ==
    ASSUME NEW state \in {"idle", "failed", "refused"}
    PROVE  CallerFits(state, NoWish, Absent, Nothing)
BY DEF CallerFits, WishFits, NoWish, Leads

\* A request is led by the cache only where a handle of its channel is kept.
LEMMA AsksKeeps ==
    ASSUME OpsInv, NEW c \in Callers, NEW w, WishFits(w), Asks(c, w)
    PROVE  OpsInv'
<1>1. kept' = kept /\ owner' = owner
  BY DEF Asks
<1>2. KeptInv' /\ owner' \in [Spellings -> Channels]
  BY <1>1 DEF OpsInv, KeptInv
<1>3. CallersInv'
  <2>1. CASE TurnedDown(w)
    <3>1. Becomes(c, "refused", NoWish, Absent, Nothing)
      BY <2>1 DEF Asks
    <3> QED BY <3>1, BecomesKeeps, NoWishFits DEF OpsInv
  <2>2. CASE ~TurnedDown(w) /\ ~NeedsLead(w)
    <3>1. Looks(c, w, Absent, kept)
      BY <2>2 DEF Asks
    <3>2. ~IsHandle(w)
      BY <2>2 DEF NeedsLead
    <3> QED BY <3>1, <3>2, LooksKeeps DEF OpsInv, KeptInv
  <2>3. CASE ~TurnedDown(w) /\ NeedsLead(w) /\ LeadOf(w) \in DOMAIN kept
    <3>1. Looks(c, w, kept[LeadOf(w)].of, kept)
      BY <2>3 DEF Asks
    <3>2. ASSUME IsHandle(w) PROVE kept[LeadOf(w)].of # Absent
      <4>1. LeadOf(w).op = "handle"
        BY <3>2 DEF LeadOf, Lead
      <4>2. kept[LeadOf(w)].of \in Channels
        BY <2>3, <4>1 DEF OpsInv, KeptInv, EntryFits
      <4> QED BY <4>2, OperationsAssumption
    <3> QED BY <3>1, <3>2, LooksKeeps DEF OpsInv, KeptInv
  <2>4. CASE ~TurnedDown(w) /\ NeedsLead(w) /\ LeadOf(w) \notin DOMAIN kept
    <3>1. Becomes(c, "resolves", w, Absent, Nothing)
      BY <2>4 DEF Asks
    <3>2. CallerFits("resolves", w, Absent, Nothing)
      BY <2>4 DEF CallerFits
    <3> QED BY <3>1, <3>2, BecomesKeeps DEF OpsInv
  <2> QED BY <2>1, <2>2, <2>3, <2>4
<1> QED BY <1>2, <1>3 DEF OpsInv

\* The next page is asked for with the request that has been answered.
LEMMA FollowsKeeps ==
    ASSUME OpsInv, NEW c \in Callers, Follows(c)
    PROVE  OpsInv'
<1> DEFINE w == wish[c]
           next == answer[c].next
           more == [w EXCEPT !.cursor = next]
<1>1. progress[c] = "answered" /\ next # Start /\ Asks(c, more)
  BY DEF Follows
<1>2. WishFits(w) /\ AnswerFits(w, answer[c])
  BY <1>1 DEF OpsInv, CallersInv, CallerFits
<1>3. Plain(w, answer[c].names).op \in Lists
  BY <1>1, <1>2 DEF AnswerFits, Nothing
<1>4. Plain(w, Absent).op \in Lists
  BY <1>2, <1>3, PlainFacts
<1> HIDE DEF w, next
<1>5. /\ more.op = w.op /\ more.about = w.about /\ more.option = w.option
      /\ more = [op |-> more.op, about |-> more.about, option |-> more.option,
                 limit |-> more.limit, cursor |-> more.cursor]
  BY <1>2 DEF WishFits
<1>6. Plain(more, Absent).op = Plain(w, Absent).op
  <2>1. /\ OfChannelTopic(more) <=> OfChannelTopic(w)
        /\ IsHandle(more) <=> IsHandle(w)
    BY <1>5 DEF OfChannelTopic, IsHandle
  <2> HIDE DEF more
  <2>2. CASE OfChannelTopic(w)
    BY <1>2, <1>5, <2>1, <2>2 DEF Plain, WishFits
  <2>3. CASE w.op = "topic" /\ ~OfChannelTopic(w)
    BY <1>2, <1>5, <2>1, <2>3 DEF Plain, WishFits
  <2>4. CASE IsHandle(w) /\ w.op # "topic"
    BY <1>2, <1>5, <2>1, <2>4 DEF Plain, WishFits, OfChannelTopic
  <2>5. CASE w.op # "topic" /\ ~IsHandle(w)
    BY <1>5, <2>1, <2>5 DEF Plain, OfChannelTopic
  <2> QED BY <2>2, <2>3, <2>4, <2>5
<1>7. WishFits(more)
  BY <1>2, <1>4, <1>5, <1>6 DEF WishFits
<1> QED BY <1>1, <1>7, AsksKeeps

\* What a handle or a topic leads to is kept, and the request goes on with it.
LEMMA ResolvesKeeps ==
    ASSUME OpsInv, NEW c \in Callers, Resolves(c)
    PROVE  OpsInv'
<1> DEFINE w == wish[c]
           led == IF IsHandle(w) THEN owner[Lower[w.about]] ELSE featured[w.about]
           entry == [Nothing EXCEPT !.of = led]
<1>1. /\ Put(LeadOf(w), entry) /\ Looks(c, w, led, kept') /\ owner' = owner
      /\ progress[c] = "resolves"
  BY DEF Resolves
<1>2. WishFits(w) /\ owner \in [Spellings -> Channels]
  BY DEF OpsInv, CallersInv, CallerFits
<1> HIDE DEF w
<1>3. IsHandle(w) => led \in Channels
  <2>1. IsHandle(w) => Lower[w.about] \in Spellings
    BY DEF IsHandle, Spellings
  <2> QED BY <1>2, <2>1
<1> HIDE DEF led
<1>4. EntryFits(LeadOf(w), entry)
  <2>1. entry.of = led
    BY DEF Nothing
  <2>2. LeadOf(w).op = IF IsHandle(w) THEN "handle" ELSE "topic_playlists"
    BY DEF LeadOf, Lead
  <2> QED BY <1>3, <2>1, <2>2 DEF EntryFits, Leads
<1> HIDE DEF entry
<1>5. KeptInv'
  BY <1>1, <1>4, PutKeeps DEF OpsInv
<1>6. \A k \in DOMAIN kept' : EntryFits(k, kept'[k])
  BY <1>5 DEF KeptInv
<1>7. IsHandle(w) => led # Absent
  BY <1>3, OperationsAssumption
<1>8. CallersInv'
  BY <1>1, <1>2, <1>6, <1>7, LooksKeeps DEF OpsInv
<1> QED BY <1>1, <1>2, <1>5, <1>8 DEF OpsInv

\* The page of the request is kept with its key, and is the answer.
LEMMA FetchesKeeps ==
    ASSUME OpsInv, NEW c \in Callers, Fetches(c)
    PROVE  OpsInv'
<1> DEFINE own == Plain(wish[c], target[c])
           k == Key(own)
           next == NextCursor(own)
           result == [of |-> List(own), from |-> k.from, size |-> k.size, names |-> Absent,
                      next |-> next]
<1>1. /\ progress[c] = "fetches" /\ Put(k, result) /\ owner' = owner
      /\ Becomes(c, "answered", wish[c], Absent, Named(wish[c], target[c], result))
  BY DEF Fetches
<1>2. WishFits(wish[c]) /\ (NeedsLead(wish[c]) => target[c] # Absent)
  BY <1>1 DEF OpsInv, CallersInv, CallerFits
<1>3. List(own) = ListOfKey(k) /\ k.op = own.op /\ own.op \notin Leads
  BY <1>2, PlainFacts
<1>4. next # Start => k.op \in Lists
  BY <1>3 DEF NextCursor
<1> HIDE DEF next, own, k
<1>5. result = Page(k, result.next) /\ result.next = next
  BY <1>3 DEF Page
<1> HIDE DEF result
<1>6. EntryFits(k, result)
  <2>1. k.op \notin Leads /\ k.op # "handle"
    BY <1>3 DEF Leads
  <2> QED BY <1>4, <1>5, <2>1 DEF EntryFits
<1>7. KeptInv'
  BY <1>1, <1>6, PutKeeps DEF OpsInv
<1>8. CallersInv'
  <2>1. AnswerFits(wish[c], Named(wish[c], target[c], result))
    BY <1>2, <1>6, NamedFits DEF k, own
  <2>2. CallerFits("answered", wish[c], Absent, Named(wish[c], target[c], result))
    BY <1>2, <2>1 DEF CallerFits
  <2> QED BY <1>1, <2>2, BecomesKeeps DEF OpsInv
<1> QED BY <1>1, <1>7, <1>8 DEF OpsInv

LEMMA OpsStart == OpsInit => OpsInv
<1> SUFFICES ASSUME OpsInit PROVE OpsInv
  OBVIOUS
<1>1. \A c \in Callers : CallerFits(progress[c], wish[c], target[c], answer[c])
  BY NoWishFits DEF OpsInit
<1> QED BY <1>1 DEF OpsInit, OpsInv, KeptInv, CallersInv

LEMMA OpsStep == OpsInv /\ [OpsNext]_opsVars => OpsInv'
<1> SUFFICES ASSUME OpsInv, [OpsNext]_opsVars PROVE OpsInv'
  OBVIOUS
<1>1. ASSUME NEW c \in Callers, NEW v \in Wishes,
             Asks(c, [op |-> v.op, about |-> v.about, option |-> v.option,
                      limit |-> v.limit, cursor |-> Start])
      PROVE  OpsInv'
  <2> DEFINE w == [op |-> v.op, about |-> v.about, option |-> v.option,
                   limit |-> v.limit, cursor |-> Start]
  <2>1. WishFits(w)
    BY WishesAssumption DEF WishFits
  <2> HIDE DEF w
  <2>2. Asks(c, w)
    BY <1>1 DEF w
  <2> QED BY <2>1, <2>2, AsksKeeps
<1>2. ASSUME NEW c \in Callers, Follows(c) PROVE OpsInv'
  BY <1>2, FollowsKeeps
<1>3. ASSUME NEW c \in Callers, Resolves(c) PROVE OpsInv'
  BY <1>3, ResolvesKeeps
<1>4. ASSUME NEW c \in Callers, Fetches(c) PROVE OpsInv'
  BY <1>4, FetchesKeeps
<1>5. ASSUME NEW c \in Callers, Fails(c) PROVE OpsInv'
  <2>1. CallersInv'
    BY <1>5, BecomesKeeps, NoWishFits DEF Fails, OpsInv
  <2> QED BY <1>5, <2>1 DEF Fails, OpsInv, KeptInv
<1>6. ASSUME NEW k \in DOMAIN kept, Expires(k) PROVE OpsInv'
  <2>1. KeptInv'
    BY <1>6 DEF Expires, OpsInv, KeptInv
  <2> QED BY <1>6, <2>1 DEF Expires, OpsInv, CallersInv
<1>7. CASE Upstream
  <2>1. owner' \in [Spellings -> Channels]
    BY <1>7 DEF Upstream, OpsInv
  <2> QED BY <1>7, <2>1 DEF Upstream, OpsInv, CallersInv, KeptInv
<1>8. CASE UNCHANGED opsVars
  BY <1>8 DEF opsVars, OpsInv, CallersInv, KeptInv
<1> QED BY <1>1, <1>2, <1>3, <1>4, <1>5, <1>6, <1>7, <1>8 DEF OpsNext

LEMMA AnswersAreOwn == OpsInv => AnswersItsRequest
<1> SUFFICES ASSUME OpsInv, NEW c \in Callers, progress[c] = "answered", answer[c].of # Absent
             PROVE  LET w == wish[c]
                        own == Plain(w, answer[c].names)
                    IN  /\ answer[c].of = List(own)
                        /\ own.op \in Lists => answer[c].from = w.cursor
                        /\ own.op \in Lists \cup {"shorts"} => answer[c].size = Size(w.limit)
                        /\ NeedsLead(w) => answer[c].names # Absent
  BY DEF AnswersItsRequest
<1> DEFINE w == wish[c]
           a == answer[c]
           own == Plain(w, a.names)
<1>1. WishFits(w) /\ AnswerFits(w, a)
  BY DEF OpsInv, CallersInv, CallerFits
<1>2. /\ a = [Page(Key(own), a.next) EXCEPT !.names = a.names]
      /\ NeedsLead(w) => a.names # Absent
  BY <1>1 DEF AnswerFits, Nothing
<1>3. /\ List(own) = ListOfKey(Key(own)) /\ Key(own).from = w.cursor
      /\ own.op \in Lists \cup {"shorts"} => Key(own).size = Size(w.limit)
  BY <1>1, PlainFacts
<1> HIDE DEF own, w, a
<1>4. a.of = ListOfKey(Key(own)) /\ a.from = Key(own).from /\ a.size = Key(own).size
  BY <1>2 DEF Page
<1> QED BY <1>2, <1>3, <1>4 DEF own, w, a

\* get_or_fetch and the keys of services/youtube.py: whatever others have left in the
\* cache, and wherever handles and topics have moved meanwhile, an answer is of the
\* list, the place in it and the size that were asked for, and names what it is of.
THEOREM AnswersTheirRequests == OpsSpec => []AnswersItsRequest
<1>1. OpsSpec => []OpsInv
  BY OpsStart, OpsStep, PTL DEF OpsSpec
<1> QED BY <1>1, AnswersAreOwn, PTL
=============================================================================
