----------------------------- MODULE ChannelTab -----------------------------
(* A tab of a channel: shared/browse.py fetch_channel_tab, and the two that call *)
(* it for the first page, fetch_channel_videos_page and _fetch_playlists_tab.    *)
(* YouTube may ignore the request for a tab, refuse it, or serve another tab;    *)
(* only a tab that comes with its content is of use.                            *)
EXTENDS Integers, Sequences

CONSTANT TabAttempts  \* PLAYLISTS_TAB_ATTEMPTS

ASSUME TabAssumption == TabAttempts \in Nat \ {0}

VARIABLES tabStage,   \* "idle", "params", "plain", "follow" (a request is out) or "done"
          tabKind,    \* "videos" or "playlists": the tab that is wanted
          tabAnswer,  \* the last response of YouTube that was a page
          tabTries,   \* history: the last response of every attempt that has ended
          tabErrors,  \* history: which requests YouTube has refused, and how
          tabResult   \* "none", "tab", "home", "changed", "notfound" or "failed"

tabVars == <<tabStage, tabKind, tabAnswer, tabTries, tabErrors, tabResult>>

\* What a page shows of the wanted tab: its content, a link to it, just its name,
\* or nothing; and of the Home tab.  Without tabs it shows neither.
Pages == {[tabs |-> TRUE, tab |-> t, home |-> h] :
             t \in {"shown", "linked", "named", "absent"}, h \in {"shown", "absent"}}
NoTabs == [tabs |-> FALSE, tab |-> "absent", home |-> "absent"]

-----------------------------------------------------------------------------
TabInit ==
    /\ tabStage = "idle" /\ tabKind = "videos" /\ tabAnswer = NoTabs
    /\ tabTries = <<>> /\ tabErrors = {} /\ tabResult = "none"

AskTab(kind) ==
    /\ tabStage = "idle"
    /\ tabStage' = "params" /\ tabKind' = kind
    /\ UNCHANGED <<tabAnswer, tabTries, tabErrors, tabResult>>

\* Only a tab with its content is returned.
HasContent(page) == page.tab = "shown"

\* tabs of the last response; faulty variant: of the one before.
EarlierTabs(page) == tabAnswer
LastTabs(page) == page

\* The first page of a channel's videos, from the tab or from Home.
VideosFrom(page) ==
    IF HasContent(page) THEN "tab"
    ELSE IF LastTabs(page).home = "shown" THEN "home" ELSE "changed"

\* fetch_channel_tab returns what this page shows, and playlists may be tried again.
TabReturned(page) ==
    LET tries == Append(tabTries, page)
        again == tabKind = "playlists" /\ ~HasContent(page) /\ Len(tries) < TabAttempts
    IN  /\ tabTries' = tries
        /\ tabStage' = IF again THEN "params" ELSE "done"
        /\ tabResult' = IF again THEN "none"
                        ELSE IF tabKind = "videos" THEN VideosFrom(page)
                        ELSE IF HasContent(page) THEN "tab" ELSE "changed"

\* A link to the tab is followed, but only once; faulty variant: as long as there
\* is one.
FollowAlways(page) == page.tab = "linked"
Follows(page) == page.tab = "linked" /\ tabStage # "follow"

PageArrives(page) ==
    /\ tabStage \in {"params", "plain", "follow"}
    /\ tabAnswer' = page
    /\ IF Follows(page)
       THEN tabStage' = "follow" /\ UNCHANGED <<tabTries, tabResult>>
       ELSE TabReturned(page)
    /\ UNCHANGED <<tabKind, tabErrors>>

\* if e.response.status_code != 400: raise
Forgiven(status) == status = "400" /\ tabStage = "params"

\* YouTube answers with an error: a refused request for the tab is followed by one
\* without params; _call turns every other 400, and 404, into not-found.
TabRefused(status) ==
    /\ tabStage \in {"params", "plain", "follow"}
    /\ tabErrors' = tabErrors \cup {<<tabStage, status>>}
    /\ IF Forgiven(status)
       THEN tabStage' = "plain" /\ UNCHANGED tabResult
       ELSE /\ tabStage' = "done"
            /\ tabResult' = IF status \in {"400", "404"} THEN "notfound" ELSE "failed"
    /\ UNCHANGED <<tabKind, tabAnswer, tabTries>>

TabAnswers ==
    \/ \E page \in Pages \cup {NoTabs} : PageArrives(page)
    \/ \E status \in {"400", "404", "other"} : TabRefused(status)

TabNext ==
    \/ \E kind \in {"videos", "playlists"} : AskTab(kind)
    \/ TabAnswers

-----------------------------------------------------------------------------
(* Properties.                                                                 *)

TabTypeOK ==
    /\ tabStage \in {"idle", "params", "plain", "follow", "done"}
    /\ tabKind \in {"videos", "playlists"}
    /\ tabAnswer \in Pages \cup {NoTabs}
    /\ tabTries \in Seq(Pages \cup {NoTabs}) /\ Len(tabTries) <= TabAttempts
    /\ tabErrors \subseteq {"params", "plain", "follow"} \X {"400", "404", "other"}
    /\ tabResult \in {"none", "tab", "home", "changed", "notfound", "failed"}

\* However many requests it has taken, the result is what the very last page shows,
\* and Home stands in only where no content of the tab has come.  Playlists are
\* missing only after all attempts, none of which has brought them: YouTube at times
\* serves another tab.  And a channel is not missing because YouTube refuses the
\* params of a tab with 400: only 404, or 400 to another request, says that.
TabResultIsEarned ==
    /\ tabResult = "tab" => tabAnswer.tab = "shown"
    /\ tabResult = "home" => tabAnswer.home = "shown" /\ tabAnswer.tab # "shown"
    /\ tabResult = "changed" /\ tabKind = "playlists" =>
          Len(tabTries) = TabAttempts /\ \A n \in 1 .. TabAttempts : tabTries[n].tab # "shown"
    /\ tabResult = "notfound" =>
          \E error \in tabErrors :
              error[2] = "404" \/ (error[2] = "400" /\ error[1] # "params")
=============================================================================
