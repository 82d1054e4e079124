----------------------------- MODULE Signatures -----------------------------
(* app/crawlers/tiktok/lib/signatures: how X-Gnarly and X-Bogus are put         *)
(* together, as functions on sequences of bytes, and how one who knows the form *)
(* takes them apart again.  Characters stand for their codes; a character of an *)
(* alphabet for its place in it.  Hashes are given.                            *)
EXTENDS Integers, SequencesExt

CONSTANTS WordBytes(_),          \* the four bytes of a word drawn for a key, lowest first
          Keystream(_, _, _),    \* the 64 bytes of chacha_block_function: key, rounds, counter
          Rc4Stream,             \* the 19 bytes rc4_encrypt draws with the key [255]
          Agent, Body            \* what each signature takes of the user agent and of the
                                 \* empty body: [hash, bogus]

Canvas == 1938040196
Version == <<53, 46, 49, 46, 50>>                         \* "5.1.2"
SdkVersion == <<49, 46, 48, 46, 48, 46, 51, 49, 54>>      \* "1.0.0.316"

Byte == 0 .. 255

\* The bits of a byte, the lowest first.
Bits(a) == <<a % 2, (a \div 2) % 2, (a \div 4) % 2, (a \div 8) % 2,
             (a \div 16) % 2, (a \div 32) % 2, (a \div 64) % 2, (a \div 128) % 2>>

XorBytes == [a \in Byte |-> [b \in Byte |->
    LET differ(k) == (Bits(a)[k] + Bits(b)[k]) % 2
    IN  differ(1) + 2 * differ(2) + 4 * differ(3) + 8 * differ(4)
        + 16 * differ(5) + 32 * differ(6) + 64 * differ(7) + 128 * differ(8)]]

\* Of words of 32 bits, byte by byte.
Xor(a, b) ==
    LET part(weight) == weight * XorBytes[(a \div weight) % 256][(b \div weight) % 256]
    IN  part(1) + part(256) + part(65536) + part(16777216)

XorAll(numbers) ==
    LET upTo[n \in 0 .. Len(numbers)] ==
            IF n = 0 THEN 0 ELSE Xor(upTo[n - 1], numbers[n])
    IN  upTo[Len(numbers)]

Sum(numbers) ==
    LET upTo[n \in 0 .. Len(numbers)] == IF n = 0 THEN 0 ELSE upTo[n - 1] + numbers[n]
    IN  upTo[Len(numbers)]

-----------------------------------------------------------------------------
(* X-Gnarly.                                                                   *)

Weights == <<16777216, 65536, 256, 1>>

BigEndian(n, width) == [k \in 1 .. width |-> (n \div Weights[4 - width + k]) % 256]

\* convert_number_to_bytes
NumberBytes(n) == IF n < 255 * 255 THEN BigEndian(n, 2) ELSE BigEndian(n, 4)

\* string_to_big_endian_int
FirstFour(text) == ((text[1] * 256 + text[2]) * 256 + text[3]) * 256 + text[4]

\* A field: its tag, what it adds to the checksum over all fields and to the one over
\* the numbers, which leaves texts out, and its bytes.
Number(tag, n) == [tag |-> tag, word |-> n, number |-> n, bytes |-> NumberBytes(n)]
Text(tag, text) == [tag |-> tag, word |-> FirstFour(text), number |-> 0, bytes |-> text]

Checksum(fields) == XorAll([n \in DOMAIN fields |-> fields[n].word])
NumbersChecksum(fields) == XorAll([n \in DOMAIN fields |-> fields[n].number])

\* The fields in the order they are added: eleven, a checksum over all of them, and
\* one over the numbers.
Fields(message) ==
    LET given == <<Number(1, 1), Number(2, 14), Text(3, message.query.hash),
                   Text(4, Body.hash), Text(5, Agent.hash), Number(6, message.seconds),
                   Number(7, Canvas), Number(8, message.millis), Text(9, Version),
                   Text(10, SdkVersion), Number(11, 1)>>
        summed == Append(given, Number(12, Checksum(given)))
    IN  Append(summed, Number(0, NumbersChecksum(summed)))

Payload(fields) ==
    <<Len(fields)>> \o
    FlattenSeq([n \in DOMAIN fields |-> <<fields[n].tag>> \o NumberBytes(Len(fields[n].bytes))
                                        \o fields[n].bytes])

KeyBytes(words) == FlattenSeq([n \in DOMAIN words |-> WordBytes(words[n])])

\* round_accumulator: the lowest nibble of each word of the key
Rounds(keyBytes) ==
    5 + (Sum([n \in 1 .. Len(keyBytes) \div 4 |-> keyBytes[4 * n - 3] % 16]) % 16)

\* encrypt_string_with_chacha: by blocks of 16 words, the last one as long as is left.
Encrypted(keyBytes, bytes) ==
    LET rounds == Rounds(keyBytes)
    IN  [n \in DOMAIN bytes |->
            XorBytes[bytes[n]][Keystream(keyBytes, rounds, (n - 1) \div 64)[((n - 1) % 64) + 1]]]

\* Where the key goes: by the bytes of the key and of what was encrypted; faulty
\* variant: by those of the key.
PointOfKey(keyBytes, encrypted) == Sum(keyBytes) % (Len(encrypted) + 1)
InsertionPoint(keyBytes, encrypted) ==
    (Sum(keyBytes) + Sum(encrypted)) % (Len(encrypted) + 1)

Marker == 75

Assembled(keyBytes, encrypted) ==
    LET p == InsertionPoint(keyBytes, encrypted)
    IN  <<Marker>> \o SubSeq(encrypted, 1, p) \o keyBytes
        \o SubSeq(encrypted, p + 1, Len(encrypted))

\* Three bytes in four digits of six bits.
Digits(a, b, c) == <<a \div 4, (a % 4) * 16 + b \div 16, (b % 16) * 4 + c \div 64, c % 64>>

\* The blocks of three bytes; what is left over is left out.
Encoded(bytes) ==
    FlattenSeq([n \in 1 .. Len(bytes) \div 3 |->
                   Digits(bytes[3 * n - 2], bytes[3 * n - 1], bytes[3 * n])])

Gnarly(payload, words) ==
    Encoded(Assembled(KeyBytes(words), Encrypted(KeyBytes(words), payload)))

-----------------------------------------------------------------------------
(* X-Bogus.                                                                    *)

Magic == 536919696

\* The checksum starts from 64, which stands before what it covers; faulty variant:
\* from 0.
ChecksumFromZero(salt) == XorAll(SubSeq(salt, 4, Len(salt)))
SaltChecksum(salt) == Xor(64, XorAll(SubSeq(salt, 4, Len(salt))))

Salt(message) ==
    LET salt == <<message.seconds, Magic, 64, 0, 1, 14,
                  message.query.bogus[1], message.query.bogus[2],
                  Body.bogus[1], Body.bogus[2], Agent.bogus[1], Agent.bogus[2]>>
                \o BigEndian(message.seconds, 4) \o BigEndian(Magic, 4)
    IN  salt \o <<SaltChecksum(salt), 255>>

\* filter: from the third on, first every other one, then those between.
Filtered(salt) ==
    [n \in 1 .. 19 |-> IF n <= 10 THEN salt[2 * n + 1] ELSE salt[2 * (n - 10) + 2]]

\* scramble: one of the first ten and one of the others in turn.
Scrambled(b) == [n \in 1 .. 19 |-> IF n % 2 = 1 THEN b[(n + 1) \div 2] ELSE b[10 + n \div 2]]

\* b64_encode: of what is left over, the first byte only.
BogusEncoded(bytes) ==
    LET whole == Encoded(bytes)
        last == 3 * (Len(bytes) \div 3) + 1
    IN  IF last > Len(bytes) THEN whole
        ELSE whole \o <<bytes[last] \div 4, (bytes[last] % 4) * 16, 64, 64>>

Bogus(message) ==
    LET bytes == Scrambled(Filtered(Salt(message)))
    IN  BogusEncoded(<<2, 255>> \o [n \in 1 .. 19 |-> Xor(bytes[n], Rc4Stream[n])])

-----------------------------------------------------------------------------
(* Taking signatures apart.                                                    *)

Bytes(a, b, c, d) == <<a * 4 + b \div 16, (b % 16) * 16 + c \div 4, (c % 4) * 64 + d>>

Decoded(digits) ==
    FlattenSeq([n \in 1 .. Len(digits) \div 4 |->
                   Bytes(digits[4 * n - 3], digits[4 * n - 2], digits[4 * n - 1], digits[4 * n])])

\* The payload inside an X-Gnarly whose key has so many bytes.
OpenedGnarly(digits, keyLength) ==
    LET body == Tail(Decoded(digits))
        size == Len(body) - keyLength
        p == Sum(body) % (size + 1)
        keyBytes == SubSeq(body, p + 1, p + keyLength)
    IN  Encrypted(keyBytes, SubSeq(body, 1, p) \o SubSeq(body, p + keyLength + 1, Len(body)))

\* The bytes inside an X-Bogus.
OpenedBogus(digits) ==
    LET bytes == Decoded(digits)
    IN  [n \in 1 .. 19 |-> Xor(bytes[n + 2], Rc4Stream[n])]
=============================================================================
