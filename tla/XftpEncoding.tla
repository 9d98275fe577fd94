---------------------------- MODULE XftpEncoding ----------------------------
(***************************************************************************)
(* The binary encodings of the XFTP web client: length-prefixed fields,    *)
(* padded blocks, signed transmissions, commands and responses, handshake  *)
(* messages and the DER elements of keys and certificates                  *)
(* (xftp-web/src/protocol, xftp-web/src/crypto).                           *)
(*                                                                         *)
(* A byte is a number 0..255 and a byte string is a sequence of them.      *)
(* Command names, which the code spells in letters, are tags of one or two *)
(* bytes (BLOCK stays a prefix of BLOCKED); key, digest and block lengths  *)
(* are constants.  A decoder of the code that throws yields a result whose *)
(* next is Nowhere or whose ok is FALSE; an encoder that throws leaves a   *)
(* mark that is no byte in its output.                                     *)
(***************************************************************************)
EXTENDS Integers, Sequences, SequencesExt

CONSTANTS
  BlockSize,      \* XFTP_BLOCK_SIZE
  KeyLen,         \* bytes of a raw public key: 32 (57 for Ed448) in the code
  NonceLen,       \* bytes of a nonce: 24 in the code
  ErrorTextLen    \* 20: a handshake answer below it may be an error text

ASSUME EncodingConstants ==
  /\ BlockSize \in 3..65537
  /\ KeyLen \in 1..200 /\ NonceLen \in 1..255 /\ ErrorTextLen \in Nat

Pad == 35            \* '#'
Space == 32
NewLine == 10
Zero == 48           \* '0', Nothing
One == 49            \* '1', Just
Sequence == 48       \* 0x30, the DER tag
BitString == 3
Version0 == 160      \* 0xa0, the optional version of a certificate
Null == <<>>
Nowhere == -2147483647   \* no position, not even before the first byte

---------------------------------------------------------------------------
(* Fields.  A format is a sequence of fields <<wrap, kind>>.               *)

Word(n, width) == [i \in 1..width |-> (n \div (256 ^ (width - i))) % 256]

WordOf(bytes) == FoldLeft(LAMBDA acc, b : acc * 256 + b, 0, bytes)

(* What an encoder that throws leaves: whatever contains it is never sent. *)
CannotEncode == <<256>>
Encodable(bytes) == 256 \notin ToSet(bytes)

(* A length of so many bytes counts to limit, then comes the content. *)
Prefixed(v, width, limit) ==
  IF Len(v) > limit THEN CannotEncode ELSE Word(Len(v), width) \o v

Encode(kind, v) ==
  CASE kind = "byte"   -> <<v>>
    [] kind = "word16" -> Word(v, 2)
    [] kind = "word32" -> Word(v, 4)
    [] kind = "bytes"  -> Prefixed(v, 1, 255)
    [] kind = "large"  -> Prefixed(v, 2, 65535)
    [] kind = "nonce"  -> v
    [] kind = "tail"   -> v

EncodeMaybe(kind, v) == IF v = Null THEN <<Zero>> ELSE <<One>> \o Encode(kind, v[1])

EncodeList(kind, vs, empty) ==
  IF Len(vs) > 255 \/ (vs = <<>> /\ ~empty) THEN CannotEncode
  ELSE <<Len(vs)>> \o FlattenSeq([i \in DOMAIN vs |-> Encode(kind, vs[i])])

EncodeField(f, v) ==
  CASE f[1] = "one"      -> Encode(f[2], v)
    [] f[1] = "maybe"    -> EncodeMaybe(f[2], v)
    [] f[1] \in {"nonEmpty", "list"} -> EncodeList(f[2], v, f[1] = "list")

EncodeFields(fmt, vs) == FlattenSeq([i \in DOMAIN fmt |-> EncodeField(fmt[i], vs[i])])

Thrown == [val |-> Null, next |-> Nowhere]

(* Uint8Array.subarray: an index below 0 counts from the end. *)
subarray(s, from, to) ==
  LET at(i) == IF i < 0 THEN (IF Len(s) + i < 0 THEN 0 ELSE Len(s) + i)
               ELSE IF i > Len(s) THEN Len(s) ELSE i
  IN SubSeq(s, at(from - 1) + 1, at(to - 1))

(* Decoder.take: the n bytes at position p, if the input has them; only    *)
(* the end is checked, a negative n goes back.                             *)
Take(s, p, n) ==
  IF p + n > Len(s) + 1 THEN Thrown
  ELSE [val |-> subarray(s, p, p + n), next |-> p + n]

(* A length of so many bytes, then that many bytes. *)
ContentAt(s, len) == IF len.next = Nowhere THEN Thrown ELSE Take(s, len.next, WordOf(len.val))
TakePrefixed(s, p, width) == ContentAt(s, Take(s, p, width))

NumberIn(w) == IF w.next = Nowhere THEN Thrown ELSE [val |-> WordOf(w.val), next |-> w.next]
TakeNumber(s, p, width) == NumberIn(Take(s, p, width))

WordWidth == [byte |-> 1, word16 |-> 2, word32 |-> 4]
PrefixWidth == [bytes |-> 1, large |-> 2]

Decode(kind, s, p) ==
  CASE kind \in DOMAIN WordWidth   -> TakeNumber(s, p, WordWidth[kind])
    [] kind \in DOMAIN PrefixWidth -> TakePrefixed(s, p, PrefixWidth[kind])
    [] kind = "nonce" -> Take(s, p, NonceLen)
    [] kind = "tail"  -> [val |-> SubSeq(s, p, Len(s)), next |-> Len(s) + 1]

(* One read after another; a read that throws ends the parse. *)
AddRead(vals, r) == [val |-> Append(vals, r.val), next |-> r.next]
ReadSeq(Read(_, _, _), items, s, p) ==
  FoldLeft(LAMBDA acc, item :
             IF acc.next = Nowhere THEN acc ELSE AddRead(acc.val, Read(item, s, acc.next)),
           [val |-> <<>>, next |-> p], items)

Just(r) == [val |-> <<r.val>>, next |-> r.next]
MaybeAfter(kind, s, tag) ==
  IF tag.next = Nowhere \/ tag.val \notin {Zero, One} THEN Thrown
  ELSE IF tag.val = Zero THEN [val |-> Null, next |-> tag.next]
  ELSE Just(Decode(kind, s, tag.next))
DecodeMaybe(kind, s, p) == MaybeAfter(kind, s, TakeNumber(s, p, 1))

ItemsAfter(kind, s, n, empty) ==
  IF n.next = Nowhere \/ (n.val = 0 /\ ~empty) THEN Thrown
  ELSE ReadSeq(Decode, [i \in 1..n.val |-> kind], s, n.next)
DecodeList(kind, s, p, empty) == ItemsAfter(kind, s, TakeNumber(s, p, 1), empty)

DecodeField(f, s, p) ==
  CASE f[1] = "one"   -> Decode(f[2], s, p)
    [] f[1] = "maybe" -> DecodeMaybe(f[2], s, p)
    [] f[1] \in {"nonEmpty", "list"} -> DecodeList(f[2], s, p, f[1] = "list")

DecodeFields(fmt, s, p) == ReadSeq(DecodeField, fmt, s, p)

---------------------------------------------------------------------------
(* Blocks and transmissions.                                               *)

blockPad(msg) ==
  IF Len(msg) + 2 > BlockSize THEN CannotEncode
  ELSE Word(Len(msg), 2) \o msg \o [i \in 1..(BlockSize - Len(msg) - 2) |-> Pad]

blockUnpad(block) == TakePrefixed(block, 1, 2)

(* External (libsodium, @noble/curves): hashes and signatures are short    *)
(* strings that depend on every byte of the message.  A private key is the *)
(* seed followed by the public key; here the public key equals the seed.   *)
Hash(msg) == <<FoldLeft(LAMBDA acc, b : (acc * 3 + b + 1) % 251, 7, msg)>>
KeyPair(seed) == [publicKey |-> seed, privateKey |-> seed \o seed]
sign(private, msg) == SubSeq(private, 1, KeyLen) \o Hash(msg)
verify(public, sig, msg) == sig = public \o Hash(msg)

(* Ed448: its signatures are longer. *)
signEd448(private, msg) == sign(private, msg) \o <<0>>
verifyEd448(public, sig, msg) == sig = public \o Hash(msg) \o <<0>>

(* External (X25519): both ends compute the same secret. *)
dh(public, private) ==
  IF public[1] <= private[1] THEN public \o private ELSE private \o public

InnerFormat == << <<"one", "bytes">>, <<"one", "bytes">>, <<"one", "bytes">>, <<"one", "tail">> >>

(* One transmission in a batch of one. *)
Batch(auth, inner) == <<1>> \o Encode("large", Encode("bytes", auth) \o inner)

(* encodeAuthTransmission, and with the key Null encodeTransmission. *)
encodeTransmission(sessionId, corrId, entityId, cmd, key) ==
  LET inner == EncodeFields(InnerFormat, <<sessionId, corrId, entityId, cmd>>)
  IN blockPad(Batch(IF key = Null THEN <<>> ELSE sign(key, inner), inner))

(* What a block carries, before anything in it is checked. *)
BatchFormat == << <<"one", "byte">>, <<"one", "large">> >>
TransmissionFormat == << <<"one", "bytes">> >> \o InnerFormat

Closed == [ok |-> FALSE, auth |-> <<>>, val |-> <<>>, signed |-> <<>>]

OpenTransmission(large, t) ==
  IF t.next = Nowhere THEN Closed
  ELSE [ok |-> TRUE, auth |-> t.val[1], val |-> Tail(t.val),
        signed |-> SubSeq(large, Len(t.val[1]) + 2, Len(large))]

OpenBatch(r) ==
  IF r.next = Nowhere \/ r.val[1] # 1 THEN Closed
  ELSE OpenTransmission(r.val[2], DecodeFields(TransmissionFormat, r.val[2], 1))

OpenContent(raw) ==
  IF raw.next = Nowhere THEN Closed ELSE OpenBatch(DecodeFields(BatchFormat, raw.val, 1))

OpenBlock(block) == OpenContent(blockUnpad(block))

(* The client's side: the session of the answer must be its own. *)
OwnAnswer(sessionId, t) ==
  IF t.ok /\ t.val[1] = sessionId
  THEN [ok |-> TRUE, corrId |-> t.val[2], entityId |-> t.val[3], command |-> t.val[4]]
  ELSE [ok |-> FALSE, corrId |-> <<>>, entityId |-> <<>>, command |-> <<>>]
decodeTransmission(sessionId, block) == OwnAnswer(sessionId, OpenBlock(block))

---------------------------------------------------------------------------
(* DER elements and keys.                                                  *)

AlgOf == [ed25519 |-> 112, ed448 |-> 113, x25519 |-> 110]   \* the OID's last byte

PubKeyPrefix(alg) == <<Sequence, KeyLen + 1, AlgOf[alg]>>

encodePubKey(alg, raw) == PubKeyPrefix(alg) \o raw

(* decodePubKeyEd25519, ...X25519, ...Ed448: length and prefix must agree. *)
decodePubKey(alg, der) ==
  IF Len(der) = KeyLen + 3 /\ SubSeq(der, 1, 3) = PubKeyPrefix(alg)
  THEN [ok |-> TRUE, key |-> SubSeq(der, 4, Len(der))]
  ELSE [ok |-> FALSE, key |-> <<>>]

(* The private key that goes into a description: the seed only. *)
PrivKeyPrefix(alg) == <<Sequence, KeyLen + 2, 4, AlgOf[alg]>>

encodePrivKey(alg, private) == PrivKeyPrefix(alg) \o SubSeq(private, 1, KeyLen)

decodePrivKey(alg, der) ==
  IF Len(der) = KeyLen + 4 /\ SubSeq(der, 1, 4) = PrivKeyPrefix(alg)
  THEN [ok |-> TRUE, key |-> SubSeq(der, 5, Len(der))]
  ELSE [ok |-> FALSE, key |-> <<>>]

(* Short and long form of a length.  The long form is put together with    *)
(* shifts of 32 bit: four bytes with the top bit set are negative.         *)
ShiftedOf(bytes) ==
  WordOf([bytes EXCEPT ![1] = IF Len(bytes) = 4 /\ @ > 127 THEN @ - 256 ELSE @])
Shifted(w) == IF w.next = Nowhere THEN Thrown ELSE [val |-> ShiftedOf(w.val), next |-> w.next]
derLongLength(s, width, p) == IF width \in 1..4 THEN Shifted(Take(s, p, width)) ELSE Thrown
derLengthAfter(s, first) ==
  IF first.next = Nowhere \/ first.val < 128 THEN first
  ELSE derLongLength(s, first.val - 128, first.next)

(* Before the first byte of the input the code reads `undefined`, which    *)
(* counts as a long form of no bytes.                                      *)
derLength(s, p) == IF p < 1 THEN Thrown ELSE derLengthAfter(s, TakeNumber(s, p, 1))

(* A whole element: tag, length, value. *)
derWhole(s, p, value) ==
  IF value.next = Nowhere THEN Thrown
  ELSE [val |-> subarray(s, p, value.next), next |-> value.next]
derValue(s, p, len) == IF len.next = Nowhere THEN Thrown ELSE derWhole(s, p, Take(s, len.next, len.val))
derElement(s, p) == IF p > Len(s) THEN Thrown ELSE derValue(s, p, derLength(s, p + 1))

(* A byte that must be the tag given. *)
TagAt(s, p, tag) == p \in DOMAIN s /\ s[p] = tag

(* The header of a SEQUENCE is consumed, its content follows. *)
derEnter(s, p) == IF TagAt(s, p, Sequence) THEN derLength(s, p + 1) ELSE Thrown

derElements(n, s, p) == ReadSeq(LAMBDA i, t, q : derElement(t, q), [i \in 1..n |-> i], s, p)

LastRead(parts) ==
  IF parts.next = Nowhere THEN Thrown ELSE [val |-> Last(parts.val), next |-> parts.next]
certHasVersion(cert, p) == TagAt(cert, p, Version0)
keyInfoOf(cert, tbs) ==
  IF tbs.next = Nowhere THEN Thrown
  ELSE LastRead(derElements(IF certHasVersion(cert, tbs.next) THEN 7 ELSE 6, cert, tbs.next))
tbsOf(cert, outer) == IF outer.next = Nowhere THEN Thrown ELSE derEnter(cert, outer.next)
extractCertPublicKeyInfo(cert) == keyInfoOf(cert, tbsOf(cert, derEnter(cert, 1)))

(* The X25519 key is the object itself or the element inside its wrapper. *)
BadKey == [ok |-> FALSE, key |-> <<>>]
x25519In(inner) == IF inner.next = Nowhere THEN BadKey ELSE decodePubKey("x25519", inner.val)
firstElement(der, outer) == IF outer.next = Nowhere THEN Thrown ELSE derElement(der, outer.next)
decodeX25519Key(der) ==
  IF Len(der) = KeyLen + 3 THEN decodePubKey("x25519", der)
  ELSE x25519In(firstElement(der, derEnter(der, 1)))

(* A BIT STRING without unused bits. *)
derBits(s, len) ==
  IF len.next # Nowhere /\ TagAt(s, len.next, 0) THEN Take(s, len.next + 1, len.val - 1)
  ELSE Thrown
derBitString(s, p) == IF TagAt(s, p, BitString) THEN derBits(s, derLength(s, p + 1)) ELSE Thrown

(* The object, its algorithm and the signature. *)
NoSignedKey == [ok |-> FALSE, object |-> <<>>, dhKey |-> <<>>, signature |-> <<>>]
signedKeyOf(object, key, sig) ==
  IF sig.next = Nowhere \/ ~key.ok THEN NoSignedKey
  ELSE [ok |-> TRUE, object |-> object, dhKey |-> key.key, signature |-> sig.val]
signedParts(der, parts) ==
  IF parts.next = Nowhere THEN NoSignedKey
  ELSE signedKeyOf(parts.val[1], decodeX25519Key(parts.val[1]), derBitString(der, parts.next))
signedInside(der, outer) ==
  IF outer.next = Nowhere THEN NoSignedKey ELSE signedParts(der, derElements(2, der, outer.next))
extractSignedKey(der) == signedInside(der, derEnter(der, 1))

=============================================================================
