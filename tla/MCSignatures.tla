---------------------------- MODULE MCSignatures ----------------------------
(* Two threads draw keys of three words from blocks of two, for a query that is *)
(* signed at a time like any other, and at one whose milliseconds, or whose     *)
(* checksum, are small.                                                        *)
EXTENDS RequestSigning, TLC

CONSTANTS t1, t2

\* Any bytes will do for a word, and for a block of the cipher.
MCWordBytes(w) == <<(151 * w.copied + 37 * w.at + 90) % 256, (201 * w.added + 13) % 256,
                    (77 * w.at + 251) % 256, 94 + w.copied>>
MCKeystream(k, rounds, block) ==
    [n \in 1 .. 64 |-> (k[1] * n + k[(n % Len(k)) + 1] + 31 * rounds + 101 * block) % 256]

MCRc4Stream == <<109, 37, 47, 36, 112, 83, 27, 176, 57, 75, 147, 180,
                 196, 111, 221, 156, 232, 188, 240>>

\* Of the 32 characters of a hash the first five: 27 more in each of three hashes do
\* not change where an X-Gnarly is cut off.
MCAgent == [hash |-> <<102, 51, 48, 52, 100>>, bogus |-> <<26, 165>>]
MCBody == [hash |-> <<100, 52, 49, 100, 56>>, bogus |-> <<69, 63>>]
MCQueries == {[hash |-> <<57, 102, 56, 53, 51>>, bogus |-> <<105, 8>>]}
MCClocks == {[seconds |-> 1800591297, millis |-> 1000000100],
             [seconds |-> 1799591297, millis |-> 100],
             [seconds |-> 1800256637, millis |-> 665340100]}

Symmetry == Permutations(Threads)
=============================================================================
