------------------------- MODULE SignatureGenerator -------------------------
(* app/crawlers/tiktok/lib/signatures/gnarly.py: the random generator behind   *)
(* X-Gnarly, a global that every search thread draws the words of its keys     *)
(* from, without a lock.                                                       *)
(*                                                                             *)
(* A thread can be interrupted where it enters a function and at the end of a  *)
(* loop's body, not between: what stands between two such points is one action. *)
(* A block is known by the counter it was computed from and the counter that   *)
(* was added to it in the end, which another thread may have changed; a word   *)
(* by its block and its place there.                                           *)
EXTENDS Integers, Sequences

CONSTANTS Threads,  \* the threads that sign
          Outputs,  \* words a block yields: 8, each with the one 8 places behind it
          KeyWords, \* words of a key: 12
          Wrap      \* the counter is a word of 32 bits: 2^32

ASSUME GeneratorAssumption ==
    /\ Outputs \in Nat \ {0} /\ KeyWords \in Nat \ {0} /\ Wrap \in Nat \ {0}

VARIABLES counter, \* prng_state[12]; the other words never change
          index,   \* state_index
          draw,    \* per thread: [state, copied, added, next], its call of generate_random_float
          key,     \* per thread: the words it has drawn for its signature
          alone    \* history, per thread: nobody else has drawn since it began

generatorVars == <<counter, index, draw, key, alone>>

-----------------------------------------------------------------------------
At(state) == [state |-> state, copied |-> 0, added |-> 0, next |-> 0]

\* for _ in range(12)
AfterWord(n) == IF n = KeyWords THEN At("keyed") ELSE At("copying")

GeneratorInit ==
    /\ counter \in 0 .. Wrap - 1
    /\ index = 0
    /\ draw = [t \in Threads |-> At("idle")]
    /\ key = [t \in Threads |-> <<>>]
    /\ alone = [t \in Threads |-> TRUE]

\* get_X_Gnarly has its payload and calls for the first word.
Begins(t) ==
    /\ draw[t].state = "idle"
    /\ draw' = [draw EXCEPT ![t] = At("copying")]
    /\ alone' = [u \in Threads |-> IF u = t THEN \A v \in Threads \ {t} : draw[v].state = "idle"
                                   ELSE alone[u] /\ draw[u].state = "idle"]
    /\ UNCHANGED <<counter, index, key>>

\* chacha_block_function: working_state = initial_state[:]
Copies(t) ==
    /\ draw[t].state = "copying"
    /\ draw' = [draw EXCEPT ![t].state = "adding", ![t].copied = counter]
    /\ UNCHANGED <<counter, index, key, alone>>

\* After the rounds, working_state[12] + initial_state[12], the state as it is by now.
Adds(t) ==
    /\ draw[t].state = "adding"
    /\ draw' = [draw EXCEPT ![t].state = "reading", ![t].added = counter]
    /\ UNCHANGED <<counter, index, key, alone>>

\* The index while the counter is incremented at the end of a block; faulty variant:
\* it is advanced first and set back afterwards.
AdvancedFirst == index + 1
HeldIndex == index

\* The words at state_index, and the check of the index, before anybody interferes.
Reads(t) ==
    /\ draw[t].state = "reading"
    /\ key' = [key EXCEPT ![t] = Append(@, [copied |-> draw[t].copied, added |-> draw[t].added,
                                            at |-> index])]
    /\ IF index = Outputs - 1
       THEN index' = HeldIndex /\ draw' = [draw EXCEPT ![t] = At("counting")]
       ELSE index' = index + 1 /\ draw' = [draw EXCEPT ![t] = AfterWord(Len(key[t]) + 1)]
    /\ UNCHANGED <<counter, alone>>

\* increment_counter: state[12] + 1, and the call of ensure_32bit; faulty variant:
\* the counter stays.
Standstill(n) == n
Successor(n) == (n + 1) % Wrap

Increments(t) ==
    /\ draw[t].state = "counting"
    /\ draw' = [draw EXCEPT ![t].state = "storing", ![t].next = Successor(counter)]
    /\ UNCHANGED <<counter, index, key, alone>>

\* state[12] = ..., which may undo the steps of others, and state_index = 0
Stores(t) ==
    /\ draw[t].state = "storing"
    /\ counter' = draw[t].next
    /\ index' = 0
    /\ draw' = [draw EXCEPT ![t] = AfterWord(Len(key[t]))]
    /\ UNCHANGED <<key, alone>>

\* The key is complete; what follows is the thread's own.
Keyed(t) ==
    /\ draw[t].state = "keyed"
    /\ draw' = [draw EXCEPT ![t] = At("idle")]
    /\ key' = [key EXCEPT ![t] = <<>>]
    /\ UNCHANGED <<counter, index, alone>>

Draws(t) == Copies(t) \/ Adds(t) \/ Reads(t) \/ Increments(t) \/ Stores(t)

GeneratorNext == \E t \in Threads : Begins(t) \/ Draws(t) \/ Keyed(t)

GeneratorSpec == GeneratorInit /\ [][GeneratorNext]_generatorVars

-----------------------------------------------------------------------------
(* Properties.                                                                 *)

Words == [copied : 0 .. Wrap - 1, added : 0 .. Wrap - 1, at : Nat]

GeneratorTypeOK ==
    /\ counter \in 0 .. Wrap - 1 /\ index \in Nat
    /\ draw \in [Threads -> [state : {"idle", "copying", "adding", "reading", "counting",
                                      "storing", "keyed"},
                             copied : 0 .. Wrap - 1, added : 0 .. Wrap - 1,
                             next : 0 .. Wrap - 1]]
    /\ key \in [Threads -> Seq(Words)]
    /\ alone \in [Threads -> BOOLEAN]

\* block_output[state_index] and block_output[state_index + 8] exist: however threads
\* come between each other's reads, increments and resets, the index never leaves
\* the block.  If it once did, every signature would raise from then on.
IndexInBlock == index \in 0 .. Outputs - 1

\* The word that comes after another.
NextWord(w) ==
    IF w.at < Outputs - 1 THEN [w EXCEPT !.at = @ + 1]
    ELSE [copied |-> (w.copied + 1) % Wrap, added |-> (w.added + 1) % Wrap, at |-> 0]

\* A key whose thread nobody interfered with is a run of the generator: its words
\* follow one another, also from block to block, and none of them is torn.
LoneKeyIsARun ==
    \A t \in Threads : alone[t] =>
        /\ \A n \in 1 .. Len(key[t]) : key[t][n].copied = key[t][n].added
        /\ \A n \in 1 .. Len(key[t]) - 1 : key[t][n + 1] = NextWord(key[t][n])
=============================================================================
