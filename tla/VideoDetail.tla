---------------------------- MODULE VideoDetail -----------------------------
(* crawlers/youtube/detail/detail.py get_video_detail: the watch page is read    *)
(* first, and the player API asked if the page does not say that the video plays. *)
EXTENDS Integers, Sequences

VARIABLES seekStage,  \* "idle", "watch", "api" or "done"
          player,     \* status of data, the player response that is considered
          said,       \* history: what watch page and API have said
          seekResult  \* "none", "ok", "notfound", "network" or "http"

seekVars == <<seekStage, player, said, seekResult>>

\* playabilityStatus.status: "nothing" without a response, "blank" if it has none.
Statuses == {"OK", "UNPLAYABLE", "blank", "nothing"}

SeekInit == seekStage = "idle" /\ player = "nothing" /\ said = <<>> /\ seekResult = "none"

AskDetail ==
    /\ seekStage = "idle" /\ seekStage' = "watch"
    /\ UNCHANGED <<player, said, seekResult>>

\* The outcome for a status: get_video_detail's last lines.
OutcomeOf(status) ==
    CASE status = "OK" -> "ok"
      [] status = "UNPLAYABLE" -> "notfound"
      [] OTHER -> "network"

\* The page cannot be had (another status than 200, no player response) or says
\* whether the video plays.
WatchPage(status) ==
    /\ seekStage = "watch"
    /\ player' = status /\ said' = <<status>>
    /\ IF status = "OK"
       THEN seekStage' = "done" /\ seekResult' = OutcomeOf(status)
       ELSE seekStage' = "api" /\ UNCHANGED seekResult

\* if api_data; faulty variant: also without it.
ApiAlways(status) == status
ApiOrPage(status) == IF status = "nothing" THEN player ELSE status

\* The API answers, or does not: no key, another status than 200.
PlayerApi(status) ==
    /\ seekStage = "api"
    /\ player' = ApiOrPage(status) /\ said' = Append(said, status)
    /\ seekStage' = "done" /\ seekResult' = OutcomeOf(player')

\* A request that fails is not caught here: not even a watch page that times out
\* leads on to the API.
SeekFails ==
    /\ seekStage \in {"watch", "api"}
    /\ seekStage' = "done" /\ seekResult' = "http"
    /\ UNCHANGED <<player, said>>

SeekAnswers ==
    \/ \E status \in Statuses : WatchPage(status) \/ PlayerApi(status)
    \/ SeekFails

SeekNext == AskDetail \/ SeekAnswers

-----------------------------------------------------------------------------
(* Properties.                                                                 *)

SeekTypeOK ==
    /\ seekStage \in {"idle", "watch", "api", "done"}
    /\ player \in Statuses /\ said \in Seq(Statuses) /\ Len(said) <= 2
    /\ seekResult \in {"none", "ok", "notfound", "network", "http"}

HasSaid(word) == \E n \in DOMAIN said : said[n] = word

\* A video is found if a source can play it, and reported missing on YouTube's word
\* alone; and that word stands when the API, asked in its turn, has nothing to say.  It
\* does not stand against a player response without a status, which takes its place.
VerdictIsEarned ==
    seekResult \in {"ok", "notfound", "network"} =>
        /\ seekResult = "ok" <=> HasSaid("OK")
        /\ seekResult = "notfound" => HasSaid("UNPLAYABLE")
        /\ HasSaid("UNPLAYABLE") /\ ~HasSaid("OK") /\ said[Len(said)] # "blank"
              => seekResult = "notfound"

\* detail.py:113: "YouTubeNotFoundError when YouTube reports the video unplayable [...],
\* CrawlNetworkError when neither source returned a player response at all."
NetworkMeansNoResponse ==
    seekResult = "network" => \A n \in DOMAIN said : said[n] = "nothing"
=============================================================================
