--------------------------- MODULE RequestSigning ---------------------------
(* app/crawlers/tiktok/services/base.py: the threads of searches sign their     *)
(* requests, each with an X-Bogus and an X-Gnarly whose key comes from the      *)
(* generator that they share.  What is signed has no effect on the generator,   *)
(* so a key is looked at with every message that it might be used for.          *)
EXTENDS SignatureGenerator, Signatures, FiniteSets

CONSTANTS Queries, \* what a query string gives: [hash, bogus], its hash for each signature
          Clocks   \* the times there may be: [seconds, millis], the latter modulo 2^31

\* A hash is 32 digits, which leaves two when they are taken by threes, as a key of 12
\* words leaves no byte; X-Bogus takes the last two bytes of one.
ASSUME HashAssumption ==
    \A h \in {Agent, Body} \cup Queries :
        /\ h.hash \in Seq(Byte) /\ Len(h.hash) \in 4 .. 255 * 255 - 1 /\ Len(h.hash) % 3 = 2
        /\ h.bogus \in Byte \X Byte

\* The seconds take four bytes: it is no longer 1970.
ASSUME TimeAssumption ==
    \A c \in Clocks : c.seconds \in Nat /\ c.seconds >= 255 * 255 /\ c.millis \in Nat

\* _make_request: a query with its token, at a time.
Messages == {[query |-> q, seconds |-> c.seconds, millis |-> c.millis] :
                q \in Queries, c \in Clocks}

\* Whose length varies: the milliseconds and the two checksums take two bytes in
\* place of four when they happen to be small.
ShortFields(fields) ==
    Cardinality({n \in DOMAIN fields : fields[n].tag \in {0, 8, 12}
                                       /\ Len(fields[n].bytes) = 2})

DrawnWords == [copied : 0 .. Wrap - 1, added : 0 .. Wrap - 1, at : 0 .. Outputs - 1]

\* The generator and the ciphers yield bytes, for every key there may be, as far as there
\* is something to encrypt.
ASSUME CipherAssumption ==
    /\ KeyWords % 3 = 0
    /\ Rc4Stream \in [1 .. 19 -> Byte]
    /\ \A w \in DrawnWords : WordBytes(w) \in [1 .. 4 -> Byte]
    /\ \A words \in [1 .. KeyWords -> DrawnWords], m \in Messages :
          LET keyBytes == KeyBytes(words)
          IN  \A block \in 0 .. (Len(Payload(Fields(m))) - 1) \div 64 :
                 Keystream(keyBytes, Rounds(keyBytes), block) \in [1 .. 64 -> Byte]

-----------------------------------------------------------------------------
(* Properties.                                                                 *)

\* The messages whose X-Gnarly is not cut off, and their payloads: when one or two
\* fields are short, the encoding leaves out the last bytes.
Whole == {m \in Messages : ShortFields(Fields(m)) \in {0, 3}}
Payloads == [m \in Whole |-> Payload(Fields(m))]

\* Whatever words threads draw beside each other for a key, who gets an X-Gnarly
\* finds the key in it, and with it the very payload.
GnarlyOpens ==
    \A t \in Threads : draw[t].state = "keyed" => \A m \in Whole :
        OpenedGnarly(Gnarly(Payloads[m], key[t]), 4 * KeyWords) = Payloads[m]

\* The 19 bytes of an X-Bogus cancel out, and carry the hash and the time of the
\* request in their places.
AddsUp(m) ==
    LET bytes == OpenedBogus(Bogus(m))
    IN  /\ XorAll(bytes) = 0
        /\ SubSeq(bytes, 5, 6) = m.query.bogus
        /\ SubSeq(bytes, 11, 14) = BigEndian(m.seconds, 4)

SoundMessages == {m \in Messages : AddsUp(m)}

\* So it is for every request that is being signed.
BogusAddsUp == \A t \in Threads : draw[t].state # "idle" => SoundMessages = Messages
=============================================================================
