-------------------------------- MODULE VCrypto --------------------------------
(***************************************************************************)
(* The algorithms on bytes of vcrypto.c and the CBC mode of aes.c, as      *)
(* operators on sequences of bytes, and a state machine that gives them    *)
(* texts: a text grows by bytes from a length at which the borders of      *)
(* groups, blocks and chunks are near.                                     *)
(*                                                                         *)
(* The rounds of aes.c are a permutation of the blocks for each key, and   *)
(* the compression of md5 is left out.                                     *)
(***************************************************************************)
EXTENDS Integers, Sequences, FiniteSetsExt, Bitwise

CONSTANTS
    Cipher(_, _), InvCipher(_, _),   \* of a key and a block, inverse to each other
    Keys, Ivs,                       \* of venc_aes128_init; an iv is a string
    Chars, Filler,                   \* the bytes of texts
    MaxFill, MaxAdded                \* bounds on the length of texts

Bytes == 0 .. 255
ASSUME CharsAssumption == Chars \cup {Filler} \subseteq Bytes
ASSUME IvsAssumption == \A iv \in Ivs : \A i \in DOMAIN iv : iv[i] \in Bytes \ {0}
ASSUME BoundAssumption == MaxFill \in Nat /\ MaxAdded \in Nat

VARIABLES
    text,          \* the bytes to be encoded
    added,         \* the number of them that are not filler
    vstatic_key,
    vstatic_iv     \* its first 16 bytes

vars == <<text, added, vstatic_key, vstatic_iv>>

Nul == 0
Repeat(c, n) == [i \in 1 .. n |-> c]

(* What the functions on strings see: the bytes before the first NUL. *)
String(s) == SubSeq(s, 1, Min({i \in 0 .. Len(s) : i = Len(s) \/ s[i + 1] = Nul}))

------------------------------------------------------------------------------
(* venc_base64: digits stand for the characters of base64_table. *)

Digits == 0 .. 63
Equals == 64

(* Mutant: the size that seems to be meant, which a pointer's is too small for. *)
NeedLenMeant(n) == 4 * (n \div 3 + (IF n % 3 = 0 THEN 0 ELSE 1)) + 1

(* As C reads it, the sum is the condition. *)
needLen(n) == 4 * (IF n \div 3 # 0 \/ n % 3 = 0 THEN 0 ELSE 1) + 1

(* Mutant: the bytes of the group before stay. *)
StaleTmp(src, p) == IF p <= Len(src) THEN src[p] ELSE IF p > 3 THEN src[p - 3] ELSE Nul

tmp(src, p) == IF p <= Len(src) THEN src[p] ELSE Nul

buf(a, b, c) ==
    <<a \div 4, (a % 4) * 16 + b \div 16, (b % 16) * 4 + c \div 64, c % 64>>

(* A buffer that is found too small stays empty. *)
venc_base64(dstLen, src) ==
    LET n      == Len(src)
        groups == (n + 2) \div 3
    IN  IF dstLen < needLen(n) THEN <<>>
        ELSE [p \in 1 .. 4 * groups |->
                LET g == 3 * ((p - 1) \div 4)
                IN  IF p > n + groups THEN Equals
                    ELSE buf(tmp(src, g + 1), tmp(src, g + 2), tmp(src, g + 3))[1 + ((p - 1) % 4)]]

------------------------------------------------------------------------------
(* venc_aes128_to_base64 *)

nBlockSize == 16
SizeOfBuffers == 128
nSize(len) == nBlockSize * (len \div nBlockSize + 1)

venc_padding_char(s, c) == s \o Repeat(c, nSize(Len(s)) - Len(s))

venc_padding_pkcs5(s) ==
    LET n == nSize(Len(s)) - Len(s) IN s \o Repeat(n, n)

Block(s, i) == SubSeq(s, nBlockSize * (i - 1) + 1, nBlockSize * i)
XorWithIv(b, iv) == [j \in 1 .. nBlockSize |-> b[j] ^^ iv[j]]
Joined(blocks, n) ==
    [p \in 1 .. n * nBlockSize |->
        blocks[1 + (p - 1) \div nBlockSize][1 + ((p - 1) % nBlockSize)]]

AES_CBC_encrypt_buffer(key, iv, s) ==
    LET n == Len(s) \div nBlockSize
        encrypted[i \in 0 .. n] ==
            IF i = 0 THEN iv ELSE Cipher(key, XorWithIv(Block(s, i), encrypted[i - 1]))
    IN  Joined(encrypted, n)

AES_CBC_decrypt_buffer(key, iv, s) ==
    LET n == Len(s) \div nBlockSize
    IN  Joined([i \in 1 .. n |->
                  XorWithIv(InvCipher(key, Block(s, i)), IF i = 1 THEN iv ELSE Block(s, i - 1))], n)

(* The input of AES has no NUL and is copied as a string. *)
venc_aes128(s) == AES_CBC_encrypt_buffer(vstatic_key, vstatic_iv, String(s))

Tilde == 126
SizeOfPointer == 8

(* sizeof(dst) is the size of a pointer. *)
venc_aes128_to_base64(src) ==
    venc_base64(SizeOfPointer,
        venc_aes128(venc_padding_pkcs5(venc_padding_char(String(src), Tilde))))

(* Longer texts do not fit the buffers (the result of a padding that has   *)
(* no room is not looked at), or leave no room for the final NUL.          *)
FitsBuffers(s) == 4 * ((nSize(nSize(Len(s))) + 2) \div 3) < SizeOfBuffers

------------------------------------------------------------------------------
(* md5 *)

(* Mutant: the loop begins at the length, not behind the first bit. *)
NewLenEarly(n) == Min({l \in n .. n + 63 : l % 64 = 56})

new_len(n) == Min({l \in n + 1 .. n + 64 : l % 64 = 56})

to_bytes(val) == [k \in 1 .. 4 |-> (val \div 256^(k - 1)) % 256]

(* The message: the source, a bit, and the length in bits. *)
msg(src) ==
    LET n == Len(src)
    IN  src \o <<128>> \o Repeat(0, new_len(n) - n - 1) \o to_bytes(8 * n) \o to_bytes(0)

(* A word is its four bytes, the lowest first.  A char is signed: one of   *)
(* 128 or more sets all bits above it.                                     *)
to_int32(b) == [k \in 1 .. 4 |-> IF \E j \in 1 .. k - 1 : b[j] >= 128 THEN 255 ELSE b[k]]

Bytes4(s, i) == SubSeq(s, 4 * i + 1, 4 * i + 4)

(* The words w of all chunks. *)
words(src) == [i \in 0 .. Len(msg(src)) \div 4 - 1 |-> to_int32(Bytes4(msg(src), i))]

------------------------------------------------------------------------------
(* venc_aes128_init: both are cut to their buffers, zeros follow. *)
First16(s) == [i \in 1 .. nBlockSize |-> IF i <= Len(s) THEN s[i] ELSE Nul]

Init ==
    /\ \E n \in 0 .. MaxFill : text = Repeat(Filler, n)
    /\ added = 0
    /\ vstatic_key \in Keys /\ \E iv \in Ivs : vstatic_iv = First16(iv)

AddByte ==
    /\ added < MaxAdded
    /\ \E c \in Chars : text' = Append(text, c)
    /\ added' = added + 1
    /\ UNCHANGED <<vstatic_key, vstatic_iv>>

Next == AddByte \/ (added = MaxAdded /\ UNCHANGED vars)

Spec == Init /\ [][Next]_vars
------------------------------------------------------------------------------
(* Correctness. *)

Bit(x, i) == (x \div 2^i) % 2

(* Bit i of a sequence of numbers of w bits, the highest of the first one  *)
(* first.                                                                  *)
BitOf(s, w, i) == Bit(s[1 + i \div w], w - 1 - (i % w))

(* The standard of base64: the digits hold the bits of the text in order,  *)
(* then zeros up to a whole digit, and `=' up to a whole group of four,    *)
(* so that no two texts have one encoding (vcrypto.c:9-67).                *)
Base64Inverts ==
    LET out    == venc_base64(SizeOfBuffers, text)
        digits == SelectSeq(out, LAMBDA d : d # Equals)
    IN  /\ Len(out) % 4 = 0 /\ Len(out) - Len(digits) < 3
        /\ out = digits \o Repeat(Equals, Len(out) - Len(digits))
        /\ 6 * Len(digits) - 8 * Len(text) \in 0 .. 5
        /\ \A i \in 0 .. 6 * Len(digits) - 1 :
             BitOf(digits, 6, i) = IF i < 8 * Len(text) THEN BitOf(text, 8, i) ELSE 0

(* The bytes of digits, by the standard. *)
Decoded(out) ==
    LET digits == SelectSeq(out, LAMBDA d : d # Equals)
        BitAt(i) == BitOf(digits, 6, i)
    IN  [p \in 1 .. (6 * Len(digits)) \div 8 |->
            MapThenSumSet(LAMBDA j : BitAt(8 * (p - 1) + j) * 2^(7 - j), 0 .. 7)]

Unpadded(s) == SubSeq(s, 1, Len(s) - s[Len(s)])

WithoutTildes(s) ==
    SubSeq(s, 1, Min({i \in 0 .. Len(s) : \A j \in i + 1 .. Len(s) : s[j] = Tilde}))

(* Whoever has the key gets every text back from what                      *)
(* venc_aes128_to_base64 makes of it, with the padding of either kind      *)
(* taken off, if it fits the buffers and does not end in the padding       *)
(* character (vcrypto.c:70-172, aes.c:486-525).                            *)
RoundTrip ==
    LET s == String(text)
        c == Decoded(venc_aes128_to_base64(text))
        p == AES_CBC_decrypt_buffer(vstatic_key, vstatic_iv, c)
    IN  FitsBuffers(s) /\ (s = <<>> \/ s[Len(s)] # Tilde) =>
            c # <<>> /\ WithoutTildes(Unpadded(p)) = s

(* What RFC 1321 asks of the message: whole chunks, the source, one bit,   *)
(* the fewest zeros that do, and the length in bits in the last eight      *)
(* bytes (vcrypto.c:241-258).                                              *)
Md5Padded ==
    LET n == Len(text)
        m == msg(text)
    IN  /\ Len(m) % 64 = 0 /\ Len(m) \in n + 9 .. n + 9 + 63
        /\ SubSeq(m, 1, n + 1) = Append(text, 128)
        /\ \A i \in n + 2 .. Len(m) - 8 : m[i] = 0
        /\ MapThenSumSet(LAMBDA k : m[Len(m) - 8 + k] * 256^(k - 1), 1 .. 3) = 8 * n
        /\ \A i \in Len(m) - 4 .. Len(m) : m[i] = 0

(* vcrypto.c:263, "break chunk into sixteen 32-bit words": each word is    *)
(* its four bytes.  False: a byte of 128 or more that is not the last of   *)
(* its word changes those after it (vcrypto.c:213-219), and the bit put    *)
(* behind the text (vcrypto.c:250) is such a byte unless the length is     *)
(* 3 modulo 4.                                                             *)
WordsExact == \A i \in DOMAIN words(text) : words(text)[i] = Bytes4(msg(text), i)
===============================================================================
