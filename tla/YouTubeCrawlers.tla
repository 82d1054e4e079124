--------------------------- MODULE YouTubeCrawlers --------------------------
(* The operations of the YouTube service that take several requests: a feed of   *)
(* shorts, a channel's tab, a page of comments, a video's details, and batches,  *)
(* which run single operations.  They share no state but the client's and the    *)
(* cache's, which have modules of their own, so one call of one of them at a     *)
(* time is all that their own behaviour needs: calls at once run side by side.   *)
EXTENDS ShortsFeed, ChannelTab, Comments, VideoDetail, VideoBatch

crawlVars == <<shortsVars, tabVars, talkVars, seekVars, batchVars>>

CrawlInit == ShortsInit /\ TabInit /\ TalkInit /\ SeekInit /\ BatchInit

\* The others have not been called.
AllIdleBut(called) ==
    /\ called = "shorts" \/ stage = "idle"
    /\ called = "tab" \/ tabStage = "idle"
    /\ called = "comments" \/ talkStage = "idle"
    /\ called = "detail" \/ seekStage = "idle"
    /\ called = "batch" \/ batchStage = "idle"

CrawlNext ==
    \/ /\ AllIdleBut("shorts") /\ ShortsNext
       /\ UNCHANGED <<tabVars, talkVars, seekVars, batchVars>>
    \/ /\ AllIdleBut("tab") /\ TabNext
       /\ UNCHANGED <<shortsVars, talkVars, seekVars, batchVars>>
    \/ /\ AllIdleBut("comments") /\ TalkNext
       /\ UNCHANGED <<shortsVars, tabVars, seekVars, batchVars>>
    \/ /\ AllIdleBut("detail") /\ SeekNext
       /\ UNCHANGED <<shortsVars, tabVars, talkVars, batchVars>>
    \/ /\ AllIdleBut("batch") /\ BatchNext
       /\ UNCHANGED <<shortsVars, tabVars, talkVars, seekVars>>

\* Every request ends, with an answer or with the client's timeout, and so every
\* task goes on; nothing else is taken for granted, least of all what is answered.
CrawlFairness ==
    /\ WF_crawlVars(ShortsAnswer /\ UNCHANGED <<tabVars, talkVars, seekVars, batchVars>>)
    /\ WF_crawlVars(TabAnswers /\ UNCHANGED <<shortsVars, talkVars, seekVars, batchVars>>)
    /\ WF_crawlVars(TalkAnswers /\ UNCHANGED <<shortsVars, tabVars, seekVars, batchVars>>)
    /\ WF_crawlVars(SeekAnswers /\ UNCHANGED <<shortsVars, tabVars, talkVars, batchVars>>)
    /\ WF_crawlVars(OperationAnswers /\ UNCHANGED <<shortsVars, tabVars, talkVars, seekVars>>)

CrawlSpec == CrawlInit /\ [][CrawlNext]_crawlVars /\ CrawlFairness

-----------------------------------------------------------------------------
(* Properties.                                                                 *)

\* What the five modules say of their variables.
CrawlTypeOK == ShortsTypeOK /\ TabTypeOK /\ TalkTypeOK /\ SeekTypeOK /\ BatchTypeOK

CrawlEnded ==
    /\ stage \in {"idle", "done", "failed"}
    /\ tabStage \in {"idle", "done"}
    /\ talkStage \in {"idle", "done", "failed"}
    /\ seekStage \in {"idle", "done"}
    /\ batchStage \in {"idle", "refused", "done"}

\* Every call comes to an end, whatever is answered: also when YouTube goes on with
\* new positions and no shorts, shows links to a tab instead of the tab, always has
\* more replies, and when replies or videos of a batch fail.
CrawlsEnd == []<>CrawlEnded
=============================================================================
