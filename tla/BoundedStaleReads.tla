------------------------- MODULE BoundedStaleReads -------------------------
(* What the service-level cache of app/services promises to its callers,      *)
(* with no cache in it: a request for a key is answered, sooner or later,     *)
(* with a version of that key's data which upstream really published and      *)
(* which was still the current one less than Window[key] ago; or it fails.    *)
EXTENDS Integers, Sequences

CONSTANTS Tasks,      \* the requests being served by the process
          Keys,       \* the cache keys, (operation, id, ...) tuples in the code
          NoKey,      \* stands for "no request yet"
          Window,     \* how stale an answer may be, for each key
          MaxTime,    \* bound on the clock
          MaxVersion  \* bound on the publications of a key

VARIABLES now,     \* the clock
          since,   \* since[k][v]: the time at which version v of k was published
          pc,      \* "idle", "fetching", "answered" or "failed", for each task
          key,     \* the key a task asks for
          answer   \* the version a task was answered with, 0 for none

vars == <<now, since, pc, key, answer>>

\* Version v of k was the current one at some moment of the last Window[k].
CurrentWithinWindow(k, v) ==
    \/ v = Len(since[k])
    \/ since[k][v + 1] + Window[k] > now

Fresh(k) == {v \in 1 .. Len(since[k]) : CurrentWithinWindow(k, v)}

Init ==
    /\ now = 0
    /\ since = [k \in Keys |-> <<0>>]
    /\ pc = [t \in Tasks |-> "idle"]
    /\ key = [t \in Tasks |-> NoKey]
    /\ answer = [t \in Tasks |-> 0]

Tick ==
    /\ now < MaxTime
    /\ now' = now + 1
    /\ UNCHANGED <<since, pc, key, answer>>

Publish(k) ==
    /\ Len(since[k]) < MaxVersion
    /\ since' = [since EXCEPT ![k] = Append(@, now)]
    /\ UNCHANGED <<now, pc, key, answer>>

\* A request that has to wait for upstream.
Ask(t, k) ==
    /\ pc[t] # "fetching"
    /\ pc' = [pc EXCEPT ![t] = "fetching"]
    /\ key' = [key EXCEPT ![t] = k]
    /\ answer' = [answer EXCEPT ![t] = 0]
    /\ UNCHANGED <<now, since>>

\* A request answered at once.
AskAnswered(t, k) ==
    /\ pc[t] # "fetching"
    /\ pc' = [pc EXCEPT ![t] = "answered"]
    /\ key' = [key EXCEPT ![t] = k]
    /\ \E v \in Fresh(k) : answer' = [answer EXCEPT ![t] = v]
    /\ UNCHANGED <<now, since>>

Answer(t) ==
    /\ pc[t] = "fetching"
    /\ pc' = [pc EXCEPT ![t] = "answered"]
    /\ \E v \in Fresh(key[t]) : answer' = [answer EXCEPT ![t] = v]
    /\ UNCHANGED <<now, since, key>>

Fail(t) ==
    /\ pc[t] = "fetching"
    /\ pc' = [pc EXCEPT ![t] = "failed"]
    /\ UNCHANGED <<now, since, key, answer>>

Next ==
    \/ Tick
    \/ \E k \in Keys : Publish(k)
    \/ \E t \in Tasks, k \in Keys : Ask(t, k) \/ AskAnswered(t, k)
    \/ \E t \in Tasks : Answer(t) \/ Fail(t)

Spec == Init /\ [][Next]_vars
=============================================================================
