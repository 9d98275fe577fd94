-------------------------- MODULE XftpDescription --------------------------
(***************************************************************************)
(* File descriptions of the XFTP web client (protocol/description.ts) and  *)
(* server addresses (protocol/address.ts).                                 *)
(*                                                                         *)
(* The text of a description is a record of its lines: every value that    *)
(* the code turns into text is converted here too (base64url to sextets,   *)
(* file sizes to a number and a unit, a replica to its colon-separated     *)
(* parts), and only the key names and the layout of the lines are left     *)
(* out.  Servers are numbers, so that their order is the order of strings. *)
(***************************************************************************)
EXTENDS Naturals, Sequences, SequencesExt

Null_ == <<>>        \* null; a value that may be null is a sequence of at most one

CONSTANT KB          \* 1024: the factor between the units of a file size

ASSUME UnitAssumption == KB \in Nat \ {0, 1}

---------------------------------------------------------------------------
(* base64url: sextets, then the number of '=' characters.                  *)

Number(bytes) == FoldLeft(LAMBDA acc, b : acc * 256 + b, 0, bytes)

(* One group of up to three bytes: n bytes give n + 1 sextets. *)
EncodeGroup(g) ==
  LET bits == Number(g) * ((64 ^ (Len(g) + 1)) \div (256 ^ Len(g)))
  IN [i \in 1..(Len(g) + 1) |-> (bits \div (64 ^ (Len(g) + 1 - i))) % 64]

Groups(s, n) ==
  [i \in 1..((Len(s) + n - 1) \div n) |->
     SubSeq(s, n * (i - 1) + 1, IF n * i < Len(s) THEN n * i ELSE Len(s))]

base64urlEncode(bytes) ==
  LET gs == Groups(bytes, 3)
  IN [text |-> FlattenSeq([i \in DOMAIN gs |-> EncodeGroup(gs[i])]), pad |-> (3 - (Len(bytes) % 3)) % 3]

(* A group of n sextets gives n - 1 bytes; a single sextet at the end is   *)
(* ignored, and so is the padding.                                         *)
DecodeGroup(g) ==
  LET n == FoldLeft(LAMBDA acc, x : acc * 64 + x, 0, g) \div (4 ^ (4 - Len(g)))
  IN [i \in 1..(Len(g) - 1) |-> (n \div (256 ^ (Len(g) - 1 - i))) % 256]

base64urlDecode(t) ==
  LET gs == SelectSeq(Groups(t.text, 4), LAMBDA g : Len(g) > 1)
  IN FlattenSeq([i \in DOMAIN gs |-> DecodeGroup(gs[i])])

---------------------------------------------------------------------------
(* File sizes: the largest unit that divides them.                         *)

encodeFileSize(n) ==
  LET unit == IF n % KB # 0 THEN 0
              ELSE IF (n \div KB) % KB # 0 THEN 1
              ELSE IF (n \div (KB * KB)) % KB # 0 THEN 2 ELSE 3
  IN [n |-> n \div (KB ^ unit), unit |-> unit]

decodeFileSize(t) == t.n * (KB ^ t.unit)

---------------------------------------------------------------------------
(* Replicas.  A replica has a chunk number, a server, an id and a key, and *)
(* the first replica of a chunk the digest and, if it is not the default,  *)
(* the size of the chunk.                                                  *)

encodeServerReplica(r) ==
  [no |-> r.chunkNo, id |-> base64urlEncode(r.replicaId), key |-> base64urlEncode(r.replicaKey),
   rest |-> [i \in DOMAIN r.digest |-> [b64 |-> base64urlEncode(r.digest[i]), size |-> Null_]]
            \o [i \in DOMAIN r.chunkSize |->
                  [b64 |-> Null_, size |-> encodeFileSize(r.chunkSize[i])]]]

(* The fourth part is read as a digest and the fifth as a size. *)
decodeServerReplica(server, t) ==
  [chunkNo |-> t.no, server |-> server,
   replicaId |-> base64urlDecode(t.id), replicaKey |-> base64urlDecode(t.key),
   digest |-> IF Len(t.rest) >= 1 THEN <<base64urlDecode(t.rest[1].b64)>> ELSE Null_,
   chunkSize |-> IF Len(t.rest) >= 2 THEN <<decodeFileSize(t.rest[2].size)>> ELSE Null_]

(* Mutant: the size of a chunk that differs from the default is not written. *)
unfoldChunksToReplicas_(defSize, chunks) ==
  FlattenSeq([c \in DOMAIN chunks |->
    [i \in DOMAIN chunks[c].replicas |->
      [chunkNo |-> chunks[c].chunkNo, server |-> chunks[c].replicas[i].server,
       replicaId |-> chunks[c].replicas[i].replicaId,
       replicaKey |-> chunks[c].replicas[i].replicaKey,
       digest |-> IF i = 1 THEN <<chunks[c].digest>> ELSE Null_,
       chunkSize |-> Null_]]])

unfoldChunksToReplicas(defSize, chunks) ==
  FlattenSeq([c \in DOMAIN chunks |->
    [i \in DOMAIN chunks[c].replicas |->
      [chunkNo |-> chunks[c].chunkNo, server |-> chunks[c].replicas[i].server,
       replicaId |-> chunks[c].replicas[i].replicaId,
       replicaKey |-> chunks[c].replicas[i].replicaKey,
       digest |-> IF i = 1 THEN <<chunks[c].digest>> ELSE Null_,
       chunkSize |-> IF i = 1 /\ chunks[c].chunkSize # defSize
                     THEN <<chunks[c].chunkSize>> ELSE Null_]]])

(* A stable sort by server, then one group for each server. *)
encodeFileReplicas(defSize, chunks) ==
  LET flat == unfoldChunksToReplicas(defSize, chunks)
      servers == SetToSortSeq({flat[i].server : i \in DOMAIN flat}, LAMBDA a, b : a < b)
      of(srv) == SelectSeq(flat, LAMBDA r : r.server = srv)
  IN [g \in DOMAIN servers |->
        [server |-> servers[g],
         chunks |-> [i \in DOMAIN of(servers[g]) |-> encodeServerReplica(of(servers[g])[i])]]]

(* Sizes and digests may come with any replica of a chunk, but must agree. *)
foldReplicasToChunks(defSize, flat) ==
  LET nos == {flat[i].chunkNo : i \in DOMAIN flat}
      with(no) == {i \in DOMAIN flat : flat[i].chunkNo = no}
      sizes(no) == {flat[i].chunkSize[1] : i \in {j \in with(no) : flat[j].chunkSize # Null_}}
      digests(no) == {flat[i].digest[1] : i \in {j \in with(no) : flat[j].digest # Null_}}
      replica(r) == [server |-> r.server, replicaId |-> r.replicaId, replicaKey |-> r.replicaKey]
      of(no) == SelectSeq(flat, LAMBDA r : r.chunkNo = no)
      chunk(no) == [chunkNo |-> no,
                    chunkSize |-> IF sizes(no) = {} THEN defSize ELSE CHOOSE n \in sizes(no) : TRUE,
                    digest |-> CHOOSE d \in digests(no) : TRUE,
                    replicas |-> [i \in DOMAIN of(no) |-> replica(of(no)[i])]]
      order == SetToSortSeq(nos, LAMBDA a, b : a < b)
      single(no) == \A a, b \in sizes(no) : a = b
      agreed(no) == digests(no) # {} /\ \A a, b \in digests(no) : a = b
  IN IF \A no \in nos : single(no) /\ agreed(no)
     THEN [ok |-> TRUE, chunks |-> [i \in DOMAIN order |-> chunk(order[i])]]
     ELSE [ok |-> FALSE, chunks |-> <<>>]

---------------------------------------------------------------------------
(* Descriptions.                                                           *)

encodeFileDescription(fd) ==
  [chunkSize |-> encodeFileSize(fd.chunkSize), digest |-> base64urlEncode(fd.digest),
   key |-> base64urlEncode(fd.key), nonce |-> base64urlEncode(fd.nonce), party |-> fd.party,
   redirect |-> [i \in DOMAIN fd.redirect |->
                   [digest |-> base64urlEncode(fd.redirect[i].digest),
                    size |-> fd.redirect[i].size]],
   replicas |-> encodeFileReplicas(fd.chunkSize, fd.chunks),
   size |-> encodeFileSize(fd.size)]

NoDescription == [ok |-> FALSE, fd |-> Null_]

decodeFileDescription(t) ==
  LET defSize == decodeFileSize(t.chunkSize)
      group(g) == [i \in DOMAIN g.chunks |-> decodeServerReplica(g.server, g.chunks[i])]
      folded == foldReplicasToChunks(defSize,
                  FlattenSeq([g \in DOMAIN t.replicas |-> group(t.replicas[g])]))
  IN IF ~folded.ok THEN NoDescription
     ELSE [ok |-> TRUE,
           fd |-> [party |-> t.party, size |-> decodeFileSize(t.size),
                   digest |-> base64urlDecode(t.digest), key |-> base64urlDecode(t.key),
                   nonce |-> base64urlDecode(t.nonce), chunkSize |-> defSize,
                   chunks |-> folded.chunks,
                   redirect |-> [i \in DOMAIN t.redirect |->
                                   [size |-> t.redirect[i].size,
                                    digest |-> base64urlDecode(t.redirect[i].digest)]]]]

(* Chunks are numbered from 1 and their sizes add up. *)
validateFileDescription(fd) ==
  /\ \A i \in DOMAIN fd.chunks : fd.chunks[i].chunkNo = i
  /\ FoldLeft(LAMBDA acc, c : acc + c.chunkSize, 0, fd.chunks) = fd.size

(* External (pako): compressed text, of which only that it is compressed   *)
(* and can be restored is known.                                           *)
deflateRaw(text) == [deflated |-> text]
inflateRaw(data) == data.deflated

encodeDescriptionURI(fd) == deflateRaw(encodeFileDescription(fd))

decodeDescriptionURI(uri) ==
  LET checked(d) == IF d.ok /\ validateFileDescription(d.fd) THEN d ELSE NoDescription
  IN checked(decodeFileDescription(inflateRaw(uri)))

---------------------------------------------------------------------------
(* Server addresses: a key hash and a list of hosts, the last of which may *)
(* have a port.  The client takes the first host with its port, or 443.    *)

DefaultPort == 443

parseXFTPServer(a) ==
  [keyHash |-> a.keyHash, host |-> a.hosts[1].name,
   port |-> IF a.hosts[1].port = Null_ THEN DefaultPort ELSE a.hosts[1].port[1]]

formatXFTPServer(srv) ==
  [keyHash |-> srv.keyHash, hosts |-> << [name |-> srv.host, port |-> <<srv.port>>] >>]

(* The servers a description names, each once, in order of appearance. *)
getDescriptionServers(fd) ==
  LET all == FlattenSeq([c \in DOMAIN fd.chunks |->
               [i \in DOMAIN fd.chunks[c].replicas |-> fd.chunks[c].replicas[i].server]])
  IN FoldLeft(LAMBDA acc, s : IF s \in ToSet(acc) THEN acc ELSE Append(acc, s), <<>>, all)

=============================================================================
