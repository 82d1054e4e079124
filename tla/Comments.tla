------------------------------ MODULE Comments ------------------------------
(* crawlers/youtube/comment/comment.py: one page of a video's comments, with the *)
(* replies of every thread on it.  The replies are fetched by one task for each  *)
(* thread that has any, all at once (asyncio.gather), each following the "show   *)
(* more replies" button for a few pages.                                        *)
EXTENDS Integers, SequencesExt, Selections

CONSTANTS MaxReplyPages,  \* MAX_REPLY_PAGES
          MaxThreads,     \* bound on the threads of a page
          MaxReplies      \* bound on the replies of a page of replies

ASSUME CommentsAssumption ==
    /\ MaxReplyPages \in Nat \ {0}
    /\ {MaxThreads, MaxReplies} \subseteq Nat

VARIABLES talkStage,  \* "idle", "token", "page", "replies", "done" or "failed"
          threads,    \* of every comment on the page: has it a reply token?
          replies,    \* comment["replies"]: for every comment, the threads they are of
          tasks,      \* the tasks of fetch_replies, in the order of pending
          served      \* history: for every task, the replies YouTube has sent

talkVars == <<talkStage, threads, replies, tasks, served>>

Task(state, pages, got) == [state |-> state, pages |-> pages, got |-> got]

\* Sequences of up to n elements of S.
UpTo(n, S) == UNION {[1 .. k -> S] : k \in 0 .. n}

\* The comments with a reply token, in order: the n-th task has the n-th token.
Threaded == Ascending({n \in DOMAIN threads : threads[n]})

\* The comments that the results are matched with; faulty variant: all comments.
EveryComment == [n \in DOMAIN threads |-> n]
Pending == Threaded

-----------------------------------------------------------------------------
TalkInit ==
    talkStage = "idle" /\ threads = <<>> /\ replies = <<>> /\ tasks = <<>> /\ served = <<>>

\* Newest comments have a token that is built, further pages that of the cursor;
\* top comments need one from the watch-next response.
AskComments ==
    /\ talkStage = "idle"
    /\ talkStage' \in {"token", "page"}
    /\ UNCHANGED <<threads, replies, tasks, served>>

\* The watch-next response has a token, or none: the video has its comments disabled.
TokenArrives(found) ==
    /\ talkStage = "token"
    /\ talkStage' = IF found THEN "page" ELSE "done"
    /\ UNCHANGED <<threads, replies, tasks, served>>

\* The page: every task is started before any of them can go on.
CommentsArrive(page) ==
    /\ talkStage = "page"
    /\ threads' = page
    /\ replies' = [n \in DOMAIN page |-> <<>>]
    /\ LET fetched == Cardinality({n \in DOMAIN page : page[n]})
       IN  /\ tasks' = [n \in 1 .. fetched |-> Task("runs", 0, <<>>)]
           /\ served' = [n \in 1 .. fetched |-> 0]
           /\ talkStage' = IF fetched = 0 THEN "done" ELSE "replies"

CommentsRefused ==
    /\ talkStage \in {"token", "page"} /\ talkStage' = "failed"
    /\ UNCHANGED <<threads, replies, tasks, served>>

\* The result of a task: all it has got, or the exception that ended it, which
\* leaves the comment without replies.
ResultOf(task) == IF task.state = "ended" THEN task.got ELSE <<>>

\* gather waits for every task, however it ends; faulty variants: for the first
\* failure, or for all to end well.
AllEndWell(ts) == \A n \in DOMAIN ts : ts[n].state = "ended"
FirstFailure(ts) == AllEndWell(ts) \/ \E n \in DOMAIN ts : ts[n].state = "failed"
AllEnded(ts) == \A n \in DOMAIN ts : ts[n].state # "runs"

\* The replies are matched with the comments they were fetched for; exceptions are
\* results too (return_exceptions=True).
TaskSteps(n, task) ==
    /\ tasks' = [tasks EXCEPT ![n] = task]
    /\ IF AllEnded(tasks')
       THEN /\ talkStage' = "done"
            /\ replies' = [c \in DOMAIN replies |->
                  IF \E i \in DOMAIN tasks : Pending[i] = c
                  THEN ResultOf(tasks'[CHOOSE i \in DOMAIN tasks : Pending[i] = c])
                  ELSE replies[c]]
       ELSE UNCHANGED <<talkStage, replies>>
    /\ UNCHANGED threads

\* for _ in range(MAX_REPLY_PAGES)
PagesLeft(pages) == pages < MaxReplyPages

\* A page of replies arrives, with a button for more or without.
RepliesArrive(n, count, more) ==
    LET task == tasks[n]
        pages == task.pages + 1
    IN  /\ talkStage = "replies" /\ task.state = "runs"
        /\ served' = [served EXCEPT ![n] = @ + count]
        /\ TaskSteps(n, Task(IF more /\ PagesLeft(pages) THEN "runs" ELSE "ended",
                             pages, task.got \o [k \in 1 .. count |-> Threaded[n]]))

RepliesFail(n) ==
    /\ talkStage = "replies" /\ tasks[n].state = "runs"
    /\ TaskSteps(n, [tasks[n] EXCEPT !.state = "failed"])
    /\ UNCHANGED served

TalkAnswers ==
    \/ \E found \in BOOLEAN : TokenArrives(found)
    \/ \E page \in UpTo(MaxThreads, BOOLEAN) : CommentsArrive(page)
    \/ CommentsRefused
    \/ \E n \in DOMAIN tasks :
          \/ \E count \in 0 .. MaxReplies, more \in BOOLEAN : RepliesArrive(n, count, more)
          \/ RepliesFail(n)

TalkNext == AskComments \/ TalkAnswers

-----------------------------------------------------------------------------
(* Properties.                                                                 *)

TalkTypeOK ==
    /\ talkStage \in {"idle", "token", "page", "replies", "done", "failed"}
    /\ threads \in Seq(BOOLEAN)
    /\ replies \in [DOMAIN threads -> Seq(DOMAIN threads)]
    /\ Len(tasks) = Len(Threaded) /\ DOMAIN served = DOMAIN tasks
    /\ \A n \in DOMAIN tasks :
          /\ tasks[n].state \in {"runs", "ended", "failed"}
          /\ tasks[n].pages \in 0 .. MaxReplyPages

\* In whatever order the tasks end, a comment is given the replies to itself: all
\* that YouTube has sent, or none at all if one of their pages has failed.
RepliesOfTheirOwn ==
    talkStage = "done" =>
        \A n \in DOMAIN tasks :
            LET comment == Threaded[n]
            IN  /\ \A k \in DOMAIN replies[comment] : replies[comment][k] = comment
                /\ Len(replies[comment]) = IF tasks[n].state = "failed" THEN 0 ELSE served[n]

\* Once the comments are there, they are returned, replies or not, and no task is
\* still fetching when they are: the client has been left by then.
CommentsNotLost ==
    talkStage \in {"done", "failed"} =>
        /\ talkStage = "failed" => threads = <<>>
        /\ \A n \in DOMAIN tasks : tasks[n].state # "runs"
=============================================================================
