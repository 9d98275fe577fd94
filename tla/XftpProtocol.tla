---------------------------- MODULE XftpProtocol ----------------------------
(***************************************************************************)
(* The messages of XFTP in the encodings of XftpEncoding: the commands the *)
(* web client sends and the responses it parses (commands.ts), the three   *)
(* blocks of the web handshake (handshake.ts) and the check of the         *)
(* server's identity proof (identity.ts).  The other end of each message   *)
(* is the Haskell server: the parser of commands and the encoder of        *)
(* responses are those of Simplex.FileTransfer.Protocol and .Transport.    *)
(***************************************************************************)
EXTENDS XftpEncoding

Tag == [FNEW |-> <<70, 1>>, FADD |-> <<70, 2>>, FPUT |-> <<70, 3>>, FDEL |-> <<70, 4>>,
        FGET |-> <<70, 5>>, PING |-> <<80>>, SIDS |-> <<83>>, RIDS |-> <<82>>,
        FILE |-> <<73>>, OK |-> <<79>>, ERR |-> <<69>>, PONG |-> <<81>>]

(* The error names; an error text consists of capital letters only. *)
ErrTag == [BLOCK |-> <<66>>, SESSION |-> <<83>>, HANDSHAKE |-> <<72>>, CMD |-> <<67>>,
           AUTH |-> <<65>>, BLOCKED |-> <<66, 68>>, SIZE |-> <<90>>, QUOTA |-> <<81>>,
           DIGEST |-> <<71>>, CRYPTO |-> <<89>>, NO_FILE |-> <<78, 70>>, HAS_FILE |-> <<88>>,
           FILE_IO |-> <<73>>, TIMEOUT |-> <<84>>, INTERNAL |-> <<76>>]

CmdErrTag == [UNKNOWN |-> <<85>>, SYNTAX |-> <<83>>, PROHIBITED |-> <<80>>, NO_AUTH |-> <<78>>,
              HAS_AUTH |-> <<72>>, NO_ENTITY |-> <<69>>, NO_QUEUE |-> <<81>>]

Upper == 65..90

---------------------------------------------------------------------------
(* Commands.                                                               *)

CommandFormat ==
  [FNEW |-> << <<"one", "bytes">>, <<"one", "word32">>, <<"one", "bytes">>,
               <<"nonEmpty", "bytes">>, <<"maybe", "bytes">> >>,
   FADD |-> << <<"nonEmpty", "bytes">> >>,
   FGET |-> << <<"one", "bytes">> >>,
   FPUT |-> <<>>, FDEL |-> <<>>, PING |-> <<>>]

(* encodeFNEW ... encodePING: the tag, a space and the fields, if any. *)
encodeCommand(c) ==
  Tag[c.tag] \o (IF CommandFormat[c.tag] = <<>> THEN <<>>
                 ELSE <<Space>> \o EncodeFields(CommandFormat[c.tag], c.fields))

(* The bytes up to a space, a newline or the end. *)
readTag(s, p) ==
  LET upTo(stop) == [val |-> SubSeq(s, p, stop - 1), next |-> stop]
      stops == {i \in p..Len(s) : s[i] \in {Space, NewLine}}
  IN upTo(IF stops = {} THEN Len(s) + 1 ELSE Min(stops))

readSpace(s, p) == IF p <= Len(s) /\ s[p] = Space THEN p + 1 ELSE 0

Named(table, bytes) == {n \in DOMAIN table : table[n] = bytes}

(* The name among the given ones with this tag, "" if there is none. *)
NameIn(table, names, bytes) ==
  LET found == Named(table, bytes) \cap names
  IN IF found = {} THEN "" ELSE CHOOSE n \in found : TRUE

NoCommand == [ok |-> FALSE, tag |-> "", fields |-> <<>>]

(* The server's parser. *)
parsedCommand(s, tag, r) ==
  IF r.next # Len(s) + 1 THEN NoCommand ELSE [ok |-> TRUE, tag |-> tag, fields |-> r.val]
commandFields(s, tag, p) ==
  IF p = 0 THEN NoCommand ELSE parsedCommand(s, tag, DecodeFields(CommandFormat[tag], s, p))
commandNamed(s, tag, p) ==
  IF tag = "" THEN NoCommand
  ELSE commandFields(s, tag, IF CommandFormat[tag] = <<>> THEN p ELSE readSpace(s, p))
commandTagged(s, t) == commandNamed(s, NameIn(Tag, DOMAIN CommandFormat, t.val), t.next)
parseCommand(s) == commandTagged(s, readTag(s, 1))

(* The server's checks of a transmission: the format, the session, the     *)
(* command, its credentials and the signature, in this order.              *)
serverAnswer(err, c, entityId) ==
  [err |-> err, cmd |-> IF err = "" THEN c ELSE NoCommand, entityId |-> entityId]

badCredentials(t, c) ==
  IF c.tag = "PING" THEN t.auth # <<>> \/ t.val[3] # <<>>
  ELSE t.auth = <<>> \/ (c.tag = "FNEW") # (t.val[3] = <<>>)

(* A new file is signed with the key it brings, others with their owner's. *)
serverCommand(owner, t, c) ==
  LET key == IF c.tag = "FNEW" THEN decodePubKey("ed25519", c.fields[1]).key ELSE owner
  IN serverAnswer(IF ~c.ok \/ badCredentials(t, c) THEN "CMD"
                  ELSE IF c.tag # "PING" /\ ~verify(key, t.auth, t.signed) THEN "AUTH"
                  ELSE "", c, t.val[3])

serverOpened(sessionId, keyOf(_), t) ==
  IF ~t.ok THEN serverAnswer("BLOCK", NoCommand, <<>>)
  ELSE IF t.val[1] # sessionId THEN serverAnswer("SESSION", NoCommand, <<>>)
  ELSE serverCommand(keyOf(t.val[3]), t, parseCommand(t.val[4]))

serverReceive(sessionId, keyOf(_), block) == serverOpened(sessionId, keyOf, OpenBlock(block))

---------------------------------------------------------------------------
(* Responses: a record with the type, the fields, and for an error its     *)
(* name and the text that goes with it.                                    *)

ResponseFormat ==
  [SIDS |-> << <<"one", "bytes">>, <<"nonEmpty", "bytes">> >>,
   RIDS |-> << <<"nonEmpty", "bytes">> >>,
   FILE |-> << <<"one", "bytes">>, <<"one", "nonce">> >>,
   OK |-> <<>>, PONG |-> <<>>]

Response(type, fields) == [ok |-> TRUE, type |-> type, fields |-> fields, err |-> "", info |-> <<>>]
ErrResponse(err, info) == [ok |-> TRUE, type |-> "ERR", fields |-> <<>>, err |-> err, info |-> info]
BadResponse == [ok |-> FALSE, type |-> "", fields |-> <<>>, err |-> "", info |-> <<>>]

(* The server's encoder of an error: CMD has a reason, BLOCKED a text. *)
EncodeError(e) ==
  ErrTag[e.err] \o (IF e.err \in {"CMD", "BLOCKED"} THEN <<Space>> \o e.info ELSE <<>>)

encodeResponse(r) ==
  Tag[r.type] \o (IF r.type = "ERR" THEN <<Space>> \o EncodeError(r)
                  ELSE IF ResponseFormat[r.type] = <<>> THEN <<>>
                  ELSE <<Space>> \o EncodeFields(ResponseFormat[r.type], r.fields))

(* decodeCommandError: the old name NO_QUEUE is read as NO_ENTITY. *)
decodeCommandError(bytes) ==
  IF bytes = CmdErrTag["NO_QUEUE"] THEN CmdErrTag["NO_ENTITY"] ELSE bytes

(* Mutant: the reason of a command error is dropped. *)
decodeXFTPError_(s, p) ==
  LET command(reason) == IF Named(CmdErrTag, reason) = {} THEN BadResponse
                         ELSE ErrResponse("CMD", <<>>)
      withText(err, q) == IF q = 0 THEN BadResponse
                          ELSE IF err = "BLOCKED" THEN ErrResponse(err, SubSeq(s, q, Len(s)))
                          ELSE command(readTag(s, q).val)
      named(names, next) ==
        IF names = {} THEN BadResponse
        ELSE LET err == CHOOSE n \in names : TRUE
             IN IF err \in {"CMD", "BLOCKED"} THEN withText(err, readSpace(s, next))
                ELSE ErrResponse(err, <<>>)
      tagged(t) == named(Named(ErrTag, t.val), t.next)
  IN tagged(readTag(s, p))

decodeXFTPError(s, p) ==
  LET command(reason) == IF Named(CmdErrTag, reason) = {} THEN BadResponse
                         ELSE ErrResponse("CMD", decodeCommandError(reason))
      withText(err, q) == IF q = 0 THEN BadResponse
                          ELSE IF err = "BLOCKED" THEN ErrResponse(err, SubSeq(s, q, Len(s)))
                          ELSE command(readTag(s, q).val)
      named(names, next) ==
        IF names = {} THEN BadResponse
        ELSE LET err == CHOOSE n \in names : TRUE
             IN IF err \in {"CMD", "BLOCKED"} THEN withText(err, readSpace(s, next))
                ELSE ErrResponse(err, <<>>)
      tagged(t) == named(Named(ErrTag, t.val), t.next)
  IN tagged(readTag(s, p))

(* Bytes after the last field are not looked at. *)
fileResponse(dhKey, nonce) ==
  IF dhKey.ok THEN Response("FILE", <<dhKey.key, nonce>>) ELSE BadResponse
responseBody(type, r) ==
  IF r.next = Nowhere THEN BadResponse
  ELSE IF type # "FILE" THEN Response(type, r.val)
  ELSE fileResponse(decodePubKey("x25519", r.val[1]), r.val[2])
responseFields(s, type, q) ==
  IF q = 0 THEN BadResponse
  ELSE IF type = "ERR" THEN decodeXFTPError(s, q)
  ELSE responseBody(type, DecodeFields(ResponseFormat[type], s, q))
responseNamed(s, type, p) ==
  IF type = "" THEN BadResponse
  ELSE IF type \in {"OK", "PONG"} THEN Response(type, <<>>)
  ELSE responseFields(s, type, readSpace(s, p))
responseTagged(s, t) ==
  responseNamed(s, NameIn(Tag, {"ERR"} \cup DOMAIN ResponseFormat, t.val), t.next)
decodeResponse(s) == responseTagged(s, readTag(s, 1))

---------------------------------------------------------------------------
(* The web handshake.                                                      *)

HelloFormat == << <<"maybe", "bytes">> >>
ClientHandshakeFormat == << <<"one", "word16">>, <<"one", "bytes">> >>
ServerHandshakeFormat ==
  << <<"one", "word16">>, <<"one", "word16">>, <<"one", "bytes">>,
     <<"nonEmpty", "large">>, <<"one", "large">> >>

encodeClientHello(challenge) == blockPad(EncodeFields(HelloFormat, << <<challenge>> >>))

encodeClientHandshake(version, keyHash) ==
  blockPad(EncodeFields(ClientHandshakeFormat, <<version, keyHash>>))

NoHandshake == [ok |-> FALSE, min |-> 0, max |-> 0, sessionId |-> <<>>, chain |-> <<>>,
                signedKey |-> <<>>, proof |-> Null]

(* An answer of a few capital letters is an error text; otherwise the      *)
(* versions must be a range, and an absent or empty proof is no proof.     *)
isErrorText(bytes) ==
  Len(bytes) < ErrorTextLen /\ bytes # <<>> /\ ToSet(bytes) \subseteq Upper
handshakeOf(v, proof) ==
  IF v[1] > v[2] \/ proof.next = Nowhere THEN NoHandshake
  ELSE [ok |-> TRUE, min |-> v[1], max |-> v[2], sessionId |-> v[3], chain |-> v[4],
        signedKey |-> v[5], proof |-> IF proof.val = <<>> THEN Null ELSE <<proof.val>>]
handshakeFields(raw, r) ==
  IF r.next = Nowhere THEN NoHandshake
  ELSE handshakeOf(r.val, IF r.next <= Len(raw) THEN TakePrefixed(raw, r.next, 1)
                          ELSE [val |-> <<>>, next |-> r.next])
handshakeContent(raw) ==
  IF raw.next = Nowhere \/ isErrorText(raw.val) THEN NoHandshake
  ELSE handshakeFields(raw.val, DecodeFields(ServerHandshakeFormat, raw.val, 1))
decodeServerHandshake(block) == handshakeContent(blockUnpad(block))

(* The versions both ends speak; the highest of them is used. *)
compatibleVRange(a, b) == (a.min..a.max) \cap (b.min..b.max)

(* Leaf, identity and CA certificate of a chain of 2 to 4. *)
chainIdCaCerts(chain) ==
  IF Len(chain) \in 2..4
  THEN [ok |-> TRUE, leaf |-> chain[1], id |-> chain[2], ca |-> chain[Len(chain)]]
  ELSE [ok |-> FALSE, leaf |-> <<>>, id |-> <<>>, ca |-> <<>>]

(* The key of a certificate and the algorithm its bytes name. *)
extractCertRawKey(cert) ==
  LET bad == [ok |-> FALSE, key |-> <<>>, alg |-> ""]
      rawKey(spki, algs) ==
        IF algs = {} THEN bad
        ELSE LET alg == CHOOSE a \in algs : TRUE
             IN [ok |-> TRUE, key |-> decodePubKey(alg, spki).key, alg |-> alg]
      info(spki) == IF spki.next = Nowhere THEN bad
                    ELSE rawKey(spki.val, {a \in {"ed25519", "ed448"} : decodePubKey(a, spki.val).ok})
  IN info(extractCertPublicKeyInfo(cert))

verifySig(leaf, sig, msg) ==
  IF leaf.alg = "ed25519" THEN verify(leaf.key, sig, msg) ELSE verifyEd448(leaf.key, sig, msg)

(* Mutant: the signature of the challenge is not checked. *)
verifyIdentityProof_(hs, challenge, keyHash) ==
  LET signedBy(leaf, sk) == /\ leaf.ok
                            /\ hs.proof # Null
                            /\ sk.ok
                            /\ verifySig(leaf, sk.signature, sk.object)
      chained(cc) == /\ cc.ok
                     /\ Hash(cc.id) = keyHash
                     /\ signedBy(extractCertRawKey(cc.leaf), extractSignedKey(hs.signedKey))
  IN chained(chainIdCaCerts(hs.chain))

(* The identity certificate has the expected fingerprint, and the leaf key *)
(* signed both the challenge with the session and the DH key.              *)
verifyIdentityProof(hs, challenge, keyHash) ==
  LET signedBy(leaf, sk) == /\ leaf.ok
                            /\ hs.proof # Null
                            /\ verifySig(leaf, hs.proof[1], challenge \o hs.sessionId)
                            /\ sk.ok
                            /\ verifySig(leaf, sk.signature, sk.object)
      chained(cc) == /\ cc.ok
                     /\ Hash(cc.id) = keyHash
                     /\ signedBy(extractCertRawKey(cc.leaf), extractSignedKey(hs.signedKey))
  IN chained(chainIdCaCerts(hs.chain))

=============================================================================
