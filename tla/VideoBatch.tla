----------------------------- MODULE VideoBatch -----------------------------
(* The batches of services/youtube.py: parse_video_ids, _batch, comments_batch   *)
(* and transcript_batch.  A task for every video waits for one of a few slots of *)
(* an asyncio.Semaphore, which serves its waiters in order, and runs the single  *)
(* operation for its video; the results are put together when all have ended.    *)
EXTENDS Integers, FiniteSets, SequencesExt, Selections

CONSTANTS Videos,         \* video ids
          Blank,          \* an entry of white space
          Malformed,      \* an entry that is no video id
          Inputs,         \* lists of video ids callers may send
          MaxBatchIds,    \* MAX_BATCH_IDS
          Concurrency,    \* BATCH_CONCURRENCY
          MaxComments     \* bound on the comments of one video

ASSUME BatchAssumption ==
    /\ Blank # Malformed /\ {Blank, Malformed} \cap Videos = {}
    /\ Inputs \subseteq Seq(Videos \cup {Blank, Malformed})
    /\ {MaxBatchIds, Concurrency} \subseteq Nat \ {0} /\ MaxComments \in Nat

VARIABLES batchStage,  \* "idle", "refused", "runs" or "done"
          input,       \* the entries the caller has sent
          ids,         \* the videos of the batch
          waiting,     \* positions in ids whose tasks wait for the semaphore, in order
          running,     \* positions whose operation is under way
          outcomes,    \* what operations have ended with, in the order they ended
          items        \* the items of the answer

batchVars == <<batchStage, input, ids, waiting, running, outcomes, items>>

\* What the operation for a video comes to: some comments (of a transcript, one if
\* there is a text), YouTubeNotFoundError, or any other exception.
Outcomes == {[reason |-> "none", comments |-> n] : n \in 0 .. MaxComments}
            \cup {[reason |-> why, comments |-> 0] : why \in {"not_found", "error"}}

-----------------------------------------------------------------------------
\* Entries without the blank ones and without repetitions (dict.fromkeys).
Entries(raw) == Selected(raw, {n \in Firsts(raw) : raw[n] # Blank})

Acceptable(parts) == Len(parts) \in 1 .. MaxBatchIds /\ Malformed \notin ToSet(parts)

BatchInit ==
    /\ batchStage = "idle" /\ input = <<>> /\ ids = <<>> /\ waiting = <<>>
    /\ running = {} /\ outcomes = <<>> /\ items = <<>>

\* gather starts all the tasks; the first ones get a slot at once.
AskBatch(raw) ==
    LET parts == Entries(raw)
        slots == IF Len(parts) < Concurrency THEN Len(parts) ELSE Concurrency
    IN  /\ batchStage = "idle"
        /\ input' = raw
        /\ IF Acceptable(parts)
           THEN /\ batchStage' = "runs" /\ ids' = parts
                /\ running' = 1 .. slots
                /\ waiting' = [n \in 1 .. Len(parts) - slots |-> slots + n]
           ELSE batchStage' = "refused" /\ UNCHANGED <<ids, running, waiting>>
        /\ UNCHANGED <<outcomes, items>>

Item(video, outcome) ==
    [video |-> video,
     available |-> outcome.comments > 0,
     reason |-> IF outcome.reason = "none" /\ outcome.comments = 0
                THEN "disabled_or_empty" ELSE outcome.reason,
     comments |-> outcome.comments]

\* The results in the order of the videos; faulty variant: as they came.
AsTheyCame(ends) == [n \in DOMAIN ends |-> Item(ids[n], ends[n].outcome)]
InOrder(ends) ==
    [n \in DOMAIN ids |->
        Item(ids[n], ends[CHOOSE k \in DOMAIN ends : ends[k].position = n].outcome)]

\* async with sem: the slot goes to the first that waits, also after a failure;
\* faulty variant: only after a success.
AfterSuccess(outcome) == outcome.reason = "none"
Releases(outcome) == TRUE

OperationEnds(n, outcome) ==
    LET ends == Append(outcomes, [position |-> n, outcome |-> outcome])
        next == waiting # <<>> /\ Releases(outcome)
    IN  /\ batchStage = "runs" /\ n \in running
        /\ outcomes' = ends
        /\ running' = (running \ {n}) \cup IF next THEN {Head(waiting)} ELSE {}
        /\ waiting' = IF next THEN Tail(waiting) ELSE waiting
        /\ IF Len(ends) = Len(ids)
           THEN batchStage' = "done" /\ items' = InOrder(ends)
           ELSE UNCHANGED <<batchStage, items>>
        /\ UNCHANGED <<input, ids>>

OperationAnswers == \E n \in running, outcome \in Outcomes : OperationEnds(n, outcome)

BatchNext == (\E raw \in Inputs : AskBatch(raw)) \/ OperationAnswers

\* The totals of the answer: a sum of lengths is the number of all comments, each
\* by its item and its place there.
Requested == Len(ids)
Succeeded == Cardinality({n \in DOMAIN items : items[n].available})
TotalComments == Cardinality(UNION {{n} \X (1 .. items[n].comments) : n \in DOMAIN items})

-----------------------------------------------------------------------------
(* Properties.                                                                 *)

BatchTypeOK ==
    /\ batchStage \in {"idle", "refused", "runs", "done"}
    /\ input \in Inputs \cup {<<>>} /\ ids \in Seq(Videos) /\ Len(ids) <= MaxBatchIds
    /\ waiting \in Seq(DOMAIN ids) /\ running \subseteq DOMAIN ids
    /\ outcomes \in Seq([position : DOMAIN ids, outcome : Outcomes])

\* A batch that is accepted is answered, whatever becomes of its videos: with one
\* item for every video that was asked for, each with what its own operation came
\* to, and with totals that count every operation once.
BatchAnswersEveryVideo ==
    batchStage = "done" =>
        /\ ToSet(ids) = ToSet(input) \ {Blank}
        /\ Requested = Len(outcomes) /\ IsInjective(ids)
        /\ \A k \in DOMAIN outcomes :
              LET item == items[outcomes[k].position]
              IN  item = Item(ids[outcomes[k].position], outcomes[k].outcome)
        /\ Succeeded = Cardinality({k \in DOMAIN outcomes : outcomes[k].outcome.comments > 0})
        /\ TotalComments = Cardinality(UNION {{k} \X (1 .. outcomes[k].outcome.comments) :
                                                  k \in DOMAIN outcomes})

\* Never more operations at once than there are slots, and no slot is left empty
\* while a video waits: a slot is given back however its operation ends.
SlotsWellUsed ==
    /\ Cardinality(running) <= Concurrency
    /\ batchStage = "runs" /\ waiting # <<>> => Cardinality(running) = Concurrency
=============================================================================
