--------------------------- MODULE XftpRoundTrip ---------------------------
(***************************************************************************)
(* One file from the sender's page to the recipient's, byte by byte: the   *)
(* handshake, the encryption in segments, a chunk at a time created and    *)
(* uploaded, the description in the link, the chunks fetched, decrypted    *)
(* and opened, and at the end deleted.  The steps run one after the other, *)
(* each with the encodings of XftpProtocol, XftpFile and XftpDescription;  *)
(* at most MaxFaults of them meet a cut block, an answer of another        *)
(* session, an error answer, or a chunk body that was changed on the       *)
(* server.  Concurrency and retries are the subject of XftpClient and      *)
(* XftpTransfer.                                                           *)
(***************************************************************************)
EXTENDS XftpProtocol, XftpFile, XftpDescription

CONSTANTS
  MaxSource,    \* the largest source whose chunk sizes are computed
  MaxTrip,      \* the largest source that goes on the whole trip
  Peers,        \* what servers may answer to the hello
  GoodPeer,     \* the server of the trips
  ClientMin, ClientMax,   \* initialXFTPVersion, currentXFTPVersion
  Names,        \* the names of the file
  RecipientCounts,   \* the numbers of recipients added in one command
  CutAt,        \* the lengths a block may be cut to
  Errors,       \* the errors a server may answer
  BodyFaults,   \* what may happen to a stored chunk: "alter", "cut", "swap"
  MaxFaults

VARIABLES
  stage,     \* the next step
  source,    \* the length of the file
  name,      \* its name
  peer,      \* the server
  session,   \* the client's session: <<>> or <<[id, version]>>
  enc,       \* the sender's encryption: sizes, cipher state, cells, source bytes done
  files,     \* the chunks on the server
  sent,      \* the sender's list of SentChunk
  link,      \* the link of the recipient's description
  fd,        \* the recipient's description
  got,       \* the chunks received
  dec,       \* the recipient's decryption
  result,    \* the opened file
  seen,      \* the last exchange: what was sent and what was read
  faults     \* faults so far

vars == <<stage, source, name, peer, session, enc, files, sent, link, fd, got, dec, result, seen, faults>>

FileKey == <<7>>
FileNonce == <<9>>
Content == [i \in 1..source |-> 100 + (i % 50)]
Seed(i) == [j \in 1..KeyLen |-> 10 * i + j]
SenderSeed(i) == Seed(2 * i)
RecipientSeed(i) == Seed(2 * i + 1)
Challenge == <<40>>
Nonce == [j \in 1..NonceLen |-> 77]

Header == encodeFileHeader(name)
Source == Clear(Content)
EncSize == SumSeq(enc.sizes)

(* External (libsodium SHA): a short string that depends on every cell. *)
Digest(cells) ==
  Hash([i \in DOMAIN cells |->
          (cells[i].b + FoldLeft(LAMBDA a, n : a + n, 0,
             [k \in 1..Cardinality(cells[i].ks) |-> 13 * i])) % 251])

---------------------------------------------------------------------------
(* The handshake.                                                          *)

(* External (the certificate's owner and issuer).  The lengths of the two  *)
(* outer elements come in short or long form, or in one nothing reads; a   *)
(* serial number whose length is negative leads back to its own tag.       *)
signed(p, key, msg) == IF p.alg = "ed25519" THEN sign(key, msg) ELSE signEd448(key, msg)

DerSigned(object, sig) ==
  object \o <<Sequence, 0>> \o <<BitString, Len(sig) + 1, 0>> \o sig

Cert(p, key, issuer) ==
  LET len(n) == CASE p.lengths = "one"  -> <<129, n>>
                  [] p.lengths = "four" -> <<132, 0, 0, 0, n>>
                  [] p.lengths = "five" -> <<133, 0, 0, 0, 0, n>>
                  [] OTHER -> <<n>>
      wrap(content) == <<Sequence>> \o len(Len(content)) \o content
      serial == IF p.lengths = "back" THEN <<2, 132, 255, 255, 255, 250>> ELSE <<2, 1, 1>>
      tbs == wrap((IF p.versioned THEN <<Version0, 1, 2>> ELSE <<>>)
                  \o serial \o <<48, 0, 48, 0, 48, 0, 48, 0>> \o encodePubKey(p.alg, key))
  IN wrap(DerSigned(tbs, signed(p, issuer, tbs)))

(* The keys of a chain, from the leaf up; the last one issues itself.      *)
(* Certificate 2 is the identity: the router's, or that of another server; *)
(* a leaf that was not issued by the identity issued itself.               *)
ServerKey(p) == IF p.issued THEN Seed(1) ELSE Seed(11)
IdentityKey == Seed(2)
ChainKey(p, i) ==
  IF i = 1 THEN ServerKey(p)
  ELSE IF i = 2 THEN (IF p.genuine THEN IdentityKey ELSE Seed(12)) ELSE Seed(10 + i)
IdentityCert(p, key) == Cert(p, key, IF p.chain < 3 THEN key ELSE ChainKey(p, 3))

Chain(p) ==
  [i \in 1..p.chain |->
     IF i = 2 THEN IdentityCert(p, ChainKey(p, 2))
     ELSE Cert(p, ChainKey(p, i),
               IF i = p.chain \/ (i = 1 /\ ~p.issued) THEN ChainKey(p, i) ELSE ChainKey(p, i + 1))]

(* The address of the router: the fingerprint of its certificate. *)
IdentityHash == Hash(IdentityCert(peer, IdentityKey))

(* External (Simplex.FileTransfer.Server): the answer to the hello; who    *)
(* answers has the leaf's key, and with it signs the DH key or not.        *)
serverHello(p, challenge) ==
  LET spki == encodePubKey("x25519", Seed(4))
      object == IF p.wrapped THEN <<Sequence, Len(spki)>> \o spki ELSE spki
      sig == signed(p, IF p.keySigned THEN ServerKey(p) ELSE Seed(5), object)
      signedKey == <<Sequence, 1>> \o DerSigned(object, sig)
      proof == CASE p.proof = "this"  -> signed(p, ServerKey(p), challenge \o p.sessionId)
                 [] p.proof = "other" -> signed(p, ServerKey(p), challenge \o <<0>> \o p.sessionId)
                 [] p.proof = "none"  -> <<>>
  IN IF p.refuses THEN blockPad(ErrTag["HANDSHAKE"])
     ELSE blockPad(EncodeFields(ServerHandshakeFormat,
                     <<p.min, p.max, p.sessionId, Chain(p), signedKey>>) \o Encode("bytes", proof))

(* The server accepts a version of its range and its own identity. *)
serverAccepts(p, block) ==
  LET accepts(r) == r.val[1] \in p.min..p.max /\ r.val[2] = IdentityHash
  IN accepts(DecodeFields(ClientHandshakeFormat, blockUnpad(block).val, 1))

Fail(why) == stage' = "failed" /\ result' = [ok |-> FALSE, name |-> <<>>, content |-> <<>>, why |-> why]

(* connectXFTP: hello, identity, versions, client handshake. *)
Connect ==
  LET hello == DecodeFields(HelloFormat, blockUnpad(encodeClientHello(Challenge)).val, 1)
      shakes(hs, versions) ==
        IF versions = {} THEN <<>>
        ELSE LET version == Max(versions)
             IN IF serverAccepts(peer, encodeClientHandshake(version, IdentityHash))
                THEN << [id |-> hs.sessionId, version |-> version] >> ELSE <<>>
      agreed(hs) ==
        IF ~hs.ok \/ ~verifyIdentityProof(hs, Challenge, IdentityHash) THEN <<>>
        ELSE shakes(hs, compatibleVRange(hs, [min |-> ClientMin, max |-> ClientMax]))
  IN /\ stage = "connect"
     /\ session' = agreed(decodeServerHandshake(serverHello(peer, hello.val[1][1])))
     /\ IF session' # <<>> THEN stage' = "plan" /\ UNCHANGED result ELSE Fail("connect")
     /\ UNCHANGED <<source, name, peer, enc, files, sent, link, fd, got, dec, seen, faults>>

---------------------------------------------------------------------------
(* The sender's encryption.                                                *)

(* encryptFileForUpload: the header, the sizes, and the prefix through the *)
(* cipher; the header throws for a name of more than 255 bytes.            *)
Plan ==
  /\ stage = "plan"
  /\ LET x == sbEncryptChunk(sbInit(FileKey, FileNonce), FilePrefix(Header, Source))
     IN IF Encodable(Header)
        THEN /\ enc' = [sizes |-> prepareChunkSizes(payloadSize(Header, Source)),
                        st |-> x.st, cells |-> x.out, done |-> 0]
             /\ stage' = IF source <= MaxTrip THEN "encrypt" ELSE "planned"
             /\ UNCHANGED result
        ELSE Fail("name") /\ UNCHANGED enc
  /\ UNCHANGED <<source, name, peer, session, files, sent, link, fd, got, dec, seen, faults>>

(* One segment of the source; after the last the padding and the tag. *)
Encrypt ==
  /\ stage = "encrypt"
  /\ LET seg == sbEncryptChunk(enc.st, Segment(Source, enc.done))
         pad == sbEncryptChunk(enc.st, FilePadding(Header, Source, EncSize))
     IN IF enc.done < Len(Source)
        THEN /\ enc' = [enc EXCEPT !.st = seg.st, !.cells = @ \o seg.out, !.done = @ + Len(seg.out)]
             /\ UNCHANGED stage
        ELSE /\ enc' = [enc EXCEPT !.st = pad.st, !.cells = @ \o pad.out \o sbAuth(pad.st)]
             /\ stage' = "ping"
  /\ UNCHANGED <<source, name, peer, session, files, sent, link, fd, got, dec, result, seen, faults>>

---------------------------------------------------------------------------
(* Commands.                                                               *)

KeyOf(id) ==
  LET owners == {i \in DOMAIN files : id \in {files[i].senderId, files[i].recipientId}}
      f == files[CHOOSE i \in owners : TRUE]
  IN IF owners = {} THEN <<>>
     ELSE decodePubKey("ed25519", IF id = f.senderId THEN f.sndKey ELSE f.rcvKey).key

(* A wire fault: a block cut on the way, the answer of another session,    *)
(* or an error answered by the server.                                     *)
NoFault == [kind |-> "none", at |-> 0, err |-> "", info |-> <<>>]
WireFaults ==
  {[NoFault EXCEPT !.kind = k, !.at = n] : k \in {"cutCommand", "cutAnswer"}, n \in CutAt}
    \cup {[NoFault EXCEPT !.kind = "foreign"]}
    \cup {[NoFault EXCEPT !.kind = "error", !.err = e, !.info = i] :
            e \in Errors, i \in {CmdErrTag["NO_QUEUE"], CmdErrTag["SYNTAX"]}}

Cut(block, f, kind) == IF f.kind = kind THEN SubSeq(block, 1, f.at) ELSE block

(* sendXFTPCommandOnce: a short answer, an error text in place of a        *)
(* transmission and a foreign session are errors before the response.      *)
ResponseOf(t) == IF t.ok THEN decodeResponse(t.command) ELSE BadResponse
ReadContent(block, raw) ==
  IF raw.next = Nowhere \/ isErrorText(raw.val) THEN BadResponse
  ELSE ResponseOf(decodeTransmission(session[1].id, block))
clientRead(block) ==
  IF Len(block) < BlockSize THEN BadResponse ELSE ReadContent(block, blockUnpad(block))

NothingSeen == [cmd |-> [tag |-> "", fields |-> <<>>], rcv |-> NoCommand,
                reply |-> BadResponse, read |-> BadResponse, done |-> FALSE]

Exchange(entityId, cmd, key, response, f) ==
  LET request == encodeTransmission(session[1].id, <<>>, entityId, encodeCommand(cmd), key)
      sessionId == peer.sessionId \o (IF f.kind = "foreign" THEN <<0>> ELSE <<>>)
      reply(rcv) ==
        IF rcv.err # "" THEN ErrResponse(rcv.err, IF rcv.err = "CMD" THEN CmdErrTag["SYNTAX"] ELSE <<>>)
        ELSE IF f.kind = "error"
        THEN ErrResponse(f.err, IF f.err \in {"CMD", "BLOCKED"} THEN f.info ELSE <<>>)
        ELSE response
      answered(rcv, r) ==
        [cmd |-> cmd, rcv |-> rcv.cmd, reply |-> r, done |-> rcv.err = "" /\ f.kind # "error",
         read |-> clientRead(Cut(encodeTransmission(sessionId, <<>>, rcv.entityId,
                                                    encodeResponse(r), Null), f, "cutAnswer"))]
      received(rcv) == answered(rcv, reply(rcv))
  IN received(serverReceive(peer.sessionId, KeyOf, Cut(request, f, "cutCommand")))

Faulted(f) ==
  /\ f.kind # "none" => faults < MaxFaults
  /\ faults' = faults + (IF f.kind = "none" THEN 0 ELSE 1)

(* PING, the only command without a signature. *)
Ping(f) ==
  /\ stage = "ping"
  /\ Faulted(f)
  /\ seen' = Exchange(<<>>, [tag |-> "PING", fields |-> <<>>], Null, Response("PONG", <<>>), f)
  /\ IF seen'.read.type = "PONG" THEN stage' = "create" /\ UNCHANGED result ELSE Fail("ping")
  /\ UNCHANGED <<source, name, peer, session, enc, files, sent, link, fd, got, dec>>

SpecOf(i) == prepareChunkSpecs(enc.sizes)[i]
ChunkData(i) == SubSeq(enc.cells, SpecOf(i).offset + 1, SpecOf(i).offset + SpecOf(i).size)

(* createXFTPChunk for the next chunk. *)
Create(f) ==
  LET i == Len(sent) + 1
      cmd == [tag |-> "FNEW",
              fields |-> <<encodePubKey("ed25519", SenderSeed(i)), SpecOf(i).size,
                           Digest(ChunkData(i)),
                           <<encodePubKey("ed25519", RecipientSeed(i))>>, Null>>]
      ids == <<200 + i>>
  IN /\ stage = "create"
     /\ Faulted(f)
     /\ seen' = Exchange(<<>>, cmd, KeyPair(SenderSeed(i)).privateKey,
                         Response("SIDS", <<ids, << <<220 + i>> >> >>), f)
     /\ files' = IF seen'.done
                 THEN Append(files, [senderId |-> ids, recipientId |-> <<220 + i>>,
                                     sndKey |-> seen'.rcv.fields[1], size |-> seen'.rcv.fields[2],
                                     digest |-> seen'.rcv.fields[3], rcvKey |-> seen'.rcv.fields[4][1],
                                     body |-> <<>>])
                 ELSE files
     /\ IF seen'.read.type = "SIDS"
        THEN /\ sent' = Append(sent, [chunkNo |-> i, size |-> SpecOf(i).size,
                                      digest |-> Digest(ChunkData(i)), senderId |-> seen'.read.fields[1],
                                      recipientId |-> seen'.read.fields[2][1]])
             /\ stage' = "put"
             /\ UNCHANGED result
        ELSE Fail("create") /\ UNCHANGED sent
     /\ UNCHANGED <<source, name, peer, session, enc, link, fd, got, dec>>

(* uploadXFTPChunk: the server keeps a body that has the announced digest. *)
Put(f) ==
  LET i == Len(sent)
  IN /\ stage = "put"
     /\ Faulted(f)
     /\ seen' = Exchange(sent[i].senderId, [tag |-> "FPUT", fields |-> <<>>],
                         KeyPair(SenderSeed(i)).privateKey, Response("OK", <<>>), f)
     /\ files' = IF seen'.done THEN [files EXCEPT ![i].body = ChunkData(i)] ELSE files
     /\ IF seen'.read.type = "OK"
        THEN stage' = (IF i < Len(enc.sizes) THEN "create" ELSE "add") /\ UNCHANGED result
        ELSE Fail("put")
     /\ UNCHANGED <<source, name, peer, session, enc, sent, link, fd, got, dec>>

(* addXFTPRecipients, for the first chunk: n recipients in one command.    *)
(* For none, or more than a list holds, the encoding throws and nothing is *)
(* sent.                                                                   *)
AddRecipients(f, n) ==
  LET cmd == [tag |-> "FADD", fields |-> << [i \in 1..n |-> encodePubKey("ed25519", Seed(9))] >>]
      key == KeyPair(SenderSeed(1)).privateKey
      rids == [i \in 1..n |-> <<100 + i>>]
      request == encodeTransmission(session[1].id, <<>>, sent[1].senderId, encodeCommand(cmd), key)
  IN /\ stage = "add"
     /\ IF Encodable(request)
        THEN /\ Faulted(f)
             /\ seen' = Exchange(sent[1].senderId, cmd, key, Response("RIDS", <<rids>>), f)
             /\ IF seen'.read.type = "RIDS" THEN stage' = "describe" /\ UNCHANGED result
                ELSE Fail("add")
        ELSE f = NoFault /\ seen' = [NothingSeen EXCEPT !.cmd = cmd]
             /\ Fail("recipients") /\ UNCHANGED faults
     /\ UNCHANGED <<source, name, peer, session, enc, files, sent, link, fd, got, dec>>

---------------------------------------------------------------------------
(* The description.                                                        *)

(* buildDescription; with more than one copy, as other XFTP clients do,    *)
(* every chunk is also on a second server.                                 *)
Description(party, copies, redirect) ==
  [party |-> party, size |-> EncSize, digest |-> Digest(enc.cells),
   key |-> FileKey, nonce |-> FileNonce, chunkSize |-> enc.sizes[1],
   chunks |-> [i \in DOMAIN sent |->
     [chunkNo |-> sent[i].chunkNo, chunkSize |-> sent[i].size, digest |-> sent[i].digest,
      replicas |-> [k \in 1..copies |->
        [server |-> 1 + ((i + k) % 2),
         replicaId |-> IF party = "recipient" THEN sent[i].recipientId ELSE sent[i].senderId,
         replicaKey |-> encodePrivKey("ed25519", KeyPair(
                          IF party = "recipient" THEN RecipientSeed(i) ELSE SenderSeed(i)).privateKey)]]]],
   redirect |-> redirect]

Describe(copies) ==
  /\ stage = "describe"
  /\ link' = << encodeDescriptionURI(Description("recipient", copies, Null)) >>
  /\ stage' = "parse"
  /\ UNCHANGED <<source, name, peer, session, enc, files, sent, fd, got, dec, result, seen, faults>>

Parse ==
  LET parsed(d) == IF d.ok THEN fd' = <<d.fd>> /\ stage' = "get" /\ UNCHANGED result
                   ELSE Fail("parse") /\ UNCHANGED fd
  IN /\ stage = "parse"
     /\ parsed(decodeDescriptionURI(link[1]))
     /\ UNCHANGED <<source, name, peer, session, enc, files, sent, link, got, dec, seen, faults>>

---------------------------------------------------------------------------
(* The recipient.                                                          *)

(* What a server may hand out in place of the chunk. *)
Tampered(body, kind) ==
  CASE kind = "none"  -> body
    [] kind = "alter" -> [body EXCEPT ![1].b = (@ + 1) % 256]
    [] kind = "cut"   -> SubSeq(body, 1, Len(body) - 1)
    [] kind = "swap"  -> files[1].body

(* downloadXFTPChunk: the key of the replica, the DH secret, the tag of    *)
(* the transport, the digest of the chunk.                                 *)
Get(f, kind) ==
  LET i == Len(got) + 1
      chunk == fd[1].chunks[i]
      replica == chunk.replicas[1]
      seed == decodePrivKey("ed25519", replica.replicaKey)
      body == encryptTransportChunk(
                dh(decodePubKey("x25519", seen'.rcv.fields[1]).key, Seed(4)), Nonce,
                Tampered(files[i].body, kind))
      taken(c) == IF c.valid /\ Digest(c.content) = chunk.digest
                  THEN /\ got' = Append(got, c.content)
                       /\ stage' = IF i < Len(fd[1].chunks) THEN "get" ELSE "open"
                       /\ UNCHANGED result
                  ELSE Fail("get") /\ UNCHANGED got
  IN /\ stage = "get"
     /\ kind # "none" => f.kind = "none" /\ faults < MaxFaults
     /\ f.kind # "none" => faults < MaxFaults
     /\ faults' = faults + (IF f.kind = "none" /\ kind = "none" THEN 0 ELSE 1)
     /\ seen' = Exchange(replica.replicaId,
                   [tag |-> "FGET", fields |-> <<encodePubKey("x25519", KeyPair(Seed(10)).publicKey)>>],
                   KeyPair(seed.key).privateKey,
                   Response("FILE", <<encodePubKey("x25519", Seed(4)), Nonce>>), f)
     /\ IF seed.ok /\ seen'.read.type = "FILE"
        THEN taken(decryptTransportChunk(dh(seen'.read.fields[1], Seed(10)), seen'.read.fields[2], body))
        ELSE Fail("get") /\ UNCHANGED got
     /\ UNCHANGED <<source, name, peer, session, enc, files, sent, link, fd, dec>>

Received == FlattenSeq(got)

Opened(file) ==
  IF file.ok
  THEN /\ stage' = "delete"
       /\ result' = [ok |-> TRUE, name |-> file.name, content |-> file.content, why |-> ""]
  ELSE Fail("decrypt")

(* downloadFile: size and digest of the whole, then the cipher starts. *)
Open ==
  /\ stage = "open"
  /\ IF Len(Received) = fd[1].size /\ Digest(Received) = fd[1].digest
     THEN /\ dec' = [st |-> sbInit(fd[1].key, fd[1].nonce), plain |-> <<>>]
          /\ stage' = "decrypt"
          /\ UNCHANGED result
     ELSE Fail("digest") /\ UNCHANGED dec
  /\ UNCHANGED <<source, name, peer, session, enc, files, sent, link, fd, got, seen, faults>>

(* decryptChunks: segments, then the tag, the size and the header. *)
Decrypt ==
  LET n == fd[1].size - AuthTagSize
      next(seg) == dec' = [st |-> seg.st, plain |-> dec.plain \o seg.out]
  IN /\ stage = "decrypt"
     /\ IF Len(dec.plain) < n
        THEN /\ next(sbDecryptChunk(dec.st, Segment(SubSeq(Received, 1, n), Len(dec.plain))))
             /\ UNCHANGED <<stage, result>>
        ELSE /\ Opened(OpenFile(dec.st, dec.plain, SubSeq(Received, n + 1, Len(Received))))
             /\ UNCHANGED dec
     /\ UNCHANGED <<source, name, peer, session, enc, files, sent, link, fd, got, seen, faults>>

(* processDownloadedFile: the same without segments, as downloadFile does. *)
DecryptWhole ==
  LET checked(x) == Opened(IF x.valid THEN fileIn(x.plain) ELSE NoFile)
  IN /\ stage = "decrypt" /\ dec.plain = <<>>
     /\ checked(sbDecryptTailTag(fd[1].key, fd[1].nonce, fd[1].size - AuthTagSize, Received))
     /\ UNCHANGED <<source, name, peer, session, enc, files, sent, link, fd, got, dec, seen, faults>>

(* deleteFile: one FDEL for each chunk of the sender's description. *)
Delete(f) ==
  LET replica == Description("sender", 1, Null).chunks[Len(sent) - Len(files) + 1].replicas[1]
  IN /\ stage = "delete"
     /\ Faulted(f)
     /\ seen' = Exchange(replica.replicaId, [tag |-> "FDEL", fields |-> <<>>],
                         KeyPair(decodePrivKey("ed25519", replica.replicaKey).key).privateKey,
                         Response("OK", <<>>), f)
     /\ files' = IF seen'.done THEN Tail(files) ELSE files
     /\ stage' = IF seen'.read.type # "OK" THEN "deleteFailed"
                 ELSE IF Len(files) > 1 THEN "delete" ELSE "deleted"
     /\ UNCHANGED <<source, name, peer, session, enc, sent, link, fd, got, dec, result>>

---------------------------------------------------------------------------

Init ==
  /\ stage = "connect"
  /\ \/ source \in 0..MaxSource /\ name = <<5>> /\ peer = GoodPeer
     \/ source = 0 /\ name \in Names /\ peer = GoodPeer
     \/ source = 0 /\ name = <<5>> /\ peer \in Peers
  /\ session = <<>>
  /\ enc = [sizes |-> <<>>, st |-> sbInit(FileKey, FileNonce), cells |-> <<>>, done |-> 0]
  /\ files = <<>> /\ sent = <<>> /\ link = <<>> /\ fd = <<>> /\ got = <<>>
  /\ dec = [st |-> sbInit(FileKey, FileNonce), plain |-> <<>>]
  /\ result = [ok |-> FALSE, name |-> <<>>, content |-> <<>>, why |-> ""]
  /\ seen = NothingSeen
  /\ faults = 0

Command == \E f \in WireFaults \cup {NoFault} :
  Ping(f) \/ Create(f) \/ Put(f) \/ AddRecipients(f, 1) \/ Get(f, "none") \/ Delete(f)

Next ==
  \/ Connect \/ Plan \/ Encrypt
  \/ Command
  \/ \E n \in RecipientCounts : AddRecipients(NoFault, n)
  \/ \E kind \in BodyFaults : Get(NoFault, kind)
  \/ \E copies \in 1..2 : Describe(copies)
  \/ Parse \/ Open \/ Decrypt \/ DecryptWhole

Spec == Init /\ [][Next]_vars

---------------------------------------------------------------------------
(* The client connects exactly to a server that shows, second in a chain   *)
(* of two to four that can be parsed, the certificate of its address, that *)
(* signed this challenge for this session and its DH key with the key of   *)
(* the first certificate, and that speaks a common version; and it uses    *)
(* the highest one (connectXFTP, verifyIdentityProof).  Who issued the     *)
(* first certificate is not asked: a server with a leaf that its second    *)
(* certificate did not issue is accepted all the same.                     *)
ConnectsRight ==
  LET common == (peer.min..peer.max) \cap (ClientMin..ClientMax)
      shown == /\ ~peer.refuses /\ peer.genuine /\ peer.chain \in 2..4
               /\ peer.lengths \notin {"five", "back"}
               /\ peer.proof = "this" /\ peer.keySigned /\ common # {}
  IN stage # "connect" =>
       IF shown THEN session # <<>> /\ session[1].id = peer.sessionId
                     /\ session[1].version \in common
                     /\ \A v \in common : v <= session[1].version
       ELSE stage = "failed" /\ session = <<>>

(* The chunks hold the payload, none of them could be left out, they are   *)
(* sizes servers have, larger before smaller, and the specifications cut   *)
(* the file without gap or overlap (prepareChunkSizes, prepareChunkSpecs). *)
ChunksFit ==
  LET sizes == enc.sizes
      specs == prepareChunkSpecs(sizes)
      payload == payloadSize(Header, Source)
  IN stage \notin {"connect", "plan"} /\ result.why \notin {"connect", "name"} =>
       /\ EncSize >= payload
       /\ EncSize - sizes[Len(sizes)] < payload
       /\ ToSet(sizes) \subseteq ToSet(ChunkSize)
       /\ \A i \in 1..(Len(sizes) - 1) : sizes[i] >= sizes[i + 1]
       /\ \A n \in 0..(EncSize - 1) :
            Cardinality({i \in DOMAIN specs : n \in specs[i].offset..(specs[i].offset + specs[i].size - 1)}) = 1

(* However the file is cut into segments, byte i is encrypted with byte    *)
(* PolyKeyLen + i of one keystream, and the plaintext is the size, the     *)
(* header, the content and the padding (encryptFile, xorKeystream).        *)
OneStream ==
  LET layout == Word(fileSize(Header, Source), FileSizeLen) \o Header \o Content
      at(i) == PolyKeyLen + i - 1
  IN \A i \in 1..Len(enc.cells) : i <= EncSize - AuthTagSize =>
       enc.cells[i] = [b |-> IF i <= Len(layout) THEN layout[i] ELSE Pad,
                       ks |-> {<<FileKey \o FileNonce, at(i) \div KsBlock, at(i) % KsBlock>>}]

(* A command the server accepts is the one the client sent, and a response *)
(* the client accepts is the one the server sent, whatever was cut off or  *)
(* came from another session (encodeTransmission, decodeTransmission,      *)
(* decodeResponse); only the old name NO_QUEUE is read as NO_ENTITY.  An   *)
(* answer that was cut is told by its length, as the client does.          *)
ReadAsSent ==
  /\ seen.rcv.ok => seen.rcv.tag = seen.cmd.tag /\ seen.rcv.fields = seen.cmd.fields
  /\ seen.read.ok =>
       /\ seen.read.type = seen.reply.type /\ seen.read.err = seen.reply.err
       /\ seen.read.info = IF seen.reply.err = "CMD" THEN decodeCommandError(seen.reply.info)
                           ELSE seen.reply.info
       /\ seen.read.type # "FILE" => seen.read.fields = seen.reply.fields

(* A description reads back as it was written, except that the replicas of *)
(* a chunk come in the order of their servers                              *)
(* (encodeFileDescription, decodeFileDescription).                         *)
DescriptionExact ==
  stage = "describe" =>
    \A copies \in 1..2, party \in {"recipient", "sender"} :
      \A redirect \in {Null, << [size |-> EncSize, digest |-> Digest(enc.cells)] >>} :
        LET d == Description(party, copies, redirect)
            sorted(c) == [c EXCEPT !.replicas = SortSeq(@, LAMBDA a, b : a.server < b.server)]
            read == decodeDescriptionURI(encodeDescriptionURI(d))
        IN read.ok /\ read.fd = [d EXCEPT !.chunks = [i \in DOMAIN @ |-> sorted(@[i])]]

(* The recipient gets the sender's file or an error: never another         *)
(* content, and an error only after a fault, for a server that is refused, *)
(* for a name of more than 255 bytes, or for no recipients or more than a  *)
(* list holds (downloadFile, decryptChunks, encryptFileForUpload).         *)
FileExact ==
  /\ result.ok => result.name = name /\ result.content = Content
  /\ stage = "failed" =>
       \/ result.why = "connect" \/ faults > 0
       \/ result.why = "name" /\ Len(name) > 255
       \/ result.why = "recipients" /\ Len(seen.cmd.fields[1]) \notin 1..255

=============================================================================
