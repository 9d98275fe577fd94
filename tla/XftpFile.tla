------------------------------ MODULE XftpFile ------------------------------
(***************************************************************************)
(* What happens to the bytes of a file: chunk sizes and offsets            *)
(* (protocol/chunks.ts), the streaming cipher (crypto/secretbox.ts), the   *)
(* layout of the encrypted file (crypto/file.ts, crypto/padding.ts) and    *)
(* the encryption of a chunk in transit (protocol/client.ts).              *)
(*                                                                         *)
(* A cell is a byte together with the keystream bytes that are XORed onto  *)
(* it: a byte in clear has none, and XOR with the same keystream byte      *)
(* twice takes it off again.  Reading the byte of a cell is meaningful     *)
(* only when no keystream byte is left on it.                              *)
(***************************************************************************)
EXTENDS XftpEncoding, FiniteSets

CONSTANTS
  ChunkSize,       \* <<chunkSize0, ..., chunkSize3>>
  FileSizeLen,     \* 8, the bytes of the size in front of the content
  AuthTagSize,     \* 16
  KsBlock,         \* 64, the bytes of one Salsa20 block
  PolyKeyLen,      \* 32, the bytes of block 0 that key the authenticator
  ProgressSeg,     \* 256 KiB, the segments files are encrypted in
  HeaderWindow     \* 1024, the bytes a header is looked for in

ASSUME FileConstants ==
  /\ Len(ChunkSize) = 4 /\ \A i \in 1..4 : ChunkSize[i] \in Nat \ {0}
  /\ \A i \in 1..3 : ChunkSize[i + 1] % ChunkSize[i] = 0
  /\ FileSizeLen \in 1..8 /\ AuthTagSize \in Nat \ {0}
  /\ KsBlock \in Nat /\ PolyKeyLen \in 0..(KsBlock - 1)
  /\ ProgressSeg \in Nat \ {0} /\ HeaderWindow \in Nat

---------------------------------------------------------------------------
(* Chunk sizes.                                                            *)

size34(sz) == (sz * 3) \div 4

(* The two sizes a file is cut into: the larger the file, the larger. *)
SizesFor(payload) ==
  IF payload > size34(ChunkSize[4]) THEN [small |-> ChunkSize[3], big |-> ChunkSize[4]]
  ELSE IF payload > size34(ChunkSize[3]) THEN [small |-> ChunkSize[2], big |-> ChunkSize[3]]
  ELSE [small |-> ChunkSize[1], big |-> ChunkSize[2]]

(* Mutant: the last chunk is rounded down. *)
prepareChunkSizes_(payload) ==
  LET s == SizesFor(payload)
      rest == payload % s.big
      tail == IF rest > size34(s.big) THEN <<s.big>>
              ELSE [i \in 1..(rest \div s.small) |-> s.small]
  IN [i \in 1..(payload \div s.big) |-> s.big] \o tail

prepareChunkSizes(payload) ==
  LET s == SizesFor(payload)
      rest == payload % s.big
      tail == IF rest > size34(s.big) THEN <<s.big>>
              ELSE [i \in 1..((rest \div s.small) + (IF rest % s.small = 0 THEN 0 ELSE 1)) |-> s.small]
  IN [i \in 1..(payload \div s.big) |-> s.big] \o tail

SumSeq(s) == FoldLeft(LAMBDA acc, n : acc + n, 0, s)

prepareChunkSpecs(sizes) ==
  [i \in DOMAIN sizes |-> [offset |-> SumSeq(SubSeq(sizes, 1, i - 1)), size |-> sizes[i]]]

---------------------------------------------------------------------------
(* The streaming cipher.                                                   *)

Clear(bytes) == [i \in DOMAIN bytes |-> [b |-> bytes[i], ks |-> {}]]
Garbled == 256       \* the value of a cell that is not in clear
Bytes(cells) == [i \in DOMAIN cells |-> IF cells[i].ks = {} THEN cells[i].b ELSE Garbled]

(* sbInit: the first part of block 0 keys the authenticator, the rest is   *)
(* the first keystream; auth collects what is authenticated.               *)
sbInit(key, nonce) == [key |-> key \o nonce, counter |-> 1, block |-> 0, off |-> PolyKeyLen, auth |-> <<>>]

(* External (libsodium Poly1305): the tag of everything authenticated. *)
sbAuth(st) == [i \in 1..AuthTagSize |-> [b |-> 0, ks |-> {<<"tag", st.key, i, st.auth>>}]]

(* A block of the keystream, as the names of its bytes. *)
salsa20Block(key, counter) == [off \in 0..(KsBlock - 1) |-> <<key, counter, off>>]

(* Mutant: the block counter does not advance. *)
Refill_(st) ==
  IF st.off < KsBlock THEN st
  ELSE [st EXCEPT !.block = st.counter, !.off = 0]

(* A new block when the buffered one is used up. *)
Refill(st) ==
  IF st.off < KsBlock THEN st
  ELSE [st EXCEPT !.block = st.counter, !.counter = @ + 1, !.off = 0]

(* The next byte. *)
XorByte(acc, cell) ==
  LET st == Refill(acc.st)
      pad == {salsa20Block(st.key, st.block)[st.off]}
  IN [st |-> [st EXCEPT !.off = @ + 1],
      out |-> Append(acc.out, [cell EXCEPT !.ks = (@ \ pad) \cup (pad \ @)])]

xorKeystream(st, cells) == FoldLeft(XorByte, [st |-> st, out |-> <<>>], cells)

(* The cipher text is what is authenticated, in both directions. *)
sbEncryptChunk(st, cells) ==
  LET absorb(x) == [st |-> [x.st EXCEPT !.auth = @ \o x.out], out |-> x.out]
  IN absorb(xorKeystream(st, cells))

sbDecryptChunk(st, cells) ==
  LET absorb(x) == [st |-> [x.st EXCEPT !.auth = @ \o cells], out |-> x.out]
  IN absorb(xorKeystream(st, cells))

---------------------------------------------------------------------------
(* The encrypted file: size, header, content, padding, tag.                *)

HeaderFormat == << <<"one", "bytes">>, <<"maybe", "bytes">> >>

encodeFileHeader(name) == EncodeFields(HeaderFormat, <<name, Null>>)

NoFile == [ok |-> FALSE, name |-> <<>>, content |-> <<>>]

parseFileHeader(bytes) ==
  LET window == SubSeq(bytes, 1, IF Len(bytes) < HeaderWindow THEN Len(bytes) ELSE HeaderWindow)
      file(r) == IF r.next = Nowhere THEN NoFile
                 ELSE [ok |-> TRUE, name |-> r.val[1], content |-> SubSeq(bytes, r.next, Len(bytes))]
  IN file(DecodeFields(HeaderFormat, window, 1))

(* encryptFileForUpload: the sizes that follow from header and source. *)
fileSize(hdr, source) == Len(hdr) + Len(source)
payloadSize(hdr, source) == fileSize(hdr, source) + FileSizeLen + AuthTagSize

(* What encryptFile streams before and after the source. *)
FilePrefix(hdr, source) == Clear(Word(fileSize(hdr, source), FileSizeLen) \o hdr)

FilePadding(hdr, source, encSize) ==
  Clear([i \in 1..(encSize - AuthTagSize - fileSize(hdr, source) - FileSizeLen) |-> Pad])

(* The segment of the source that starts after done bytes. *)
Segment(cells, done) ==
  SubSeq(cells, done + 1, IF done + ProgressSeg < Len(cells) THEN done + ProgressSeg ELSE Len(cells))

(* Mutant: the padding is kept. *)
unPadLazy_(bytes) == [ok |-> TRUE, content |-> SubSeq(bytes, FileSizeLen + 1, Len(bytes))]

(* splitLen: no room for the size, or a negative size, is an error; content *)
(* shorter than the size it declares is not.                               *)
unPadLazy(bytes) ==
  LET len == WordOf(SubSeq(bytes, 1, FileSizeLen))
      rest == SubSeq(bytes, FileSizeLen + 1, Len(bytes))
  IN IF Len(bytes) < FileSizeLen \/ bytes[1] > 127 THEN [ok |-> FALSE, content |-> <<>>]
     ELSE [ok |-> TRUE, content |-> SubSeq(rest, 1, IF len < Len(rest) THEN len ELSE Len(rest))]

fileIn(plain) == IF plain.ok THEN parseFileHeader(plain.content) ELSE NoFile

(* All at once: the plaintext without its padding, and whether the tag at  *)
(* the end is right.                                                       *)
sbDecryptTailTag(key, nonce, n, cells) ==
  LET checked(x) ==
        [valid |-> SubSeq(cells, n + 1, Len(cells)) = sbAuth(x.st),
         plain |-> unPadLazy(Bytes(x.out))]
  IN checked(sbDecryptChunk(sbInit(key, nonce), SubSeq(cells, 1, n)))

(* The end of decryptChunks: the tag, the size, the header. *)
OpenFile(st, plain, providedTag) ==
  IF providedTag # sbAuth(st) THEN NoFile ELSE fileIn(unPadLazy(Bytes(plain)))

---------------------------------------------------------------------------
(* A chunk in transit: encrypted by the server with the agreed secret.     *)

encryptTransportChunk(secret, nonce, cells) ==
  LET tagged(x) == x.out \o sbAuth(x.st)
  IN tagged(sbEncryptChunk(sbInit(secret, nonce), cells))

decryptTransportChunk(secret, nonce, cells) ==
  LET n == Len(cells) - AuthTagSize
      checked(x) == [valid |-> SubSeq(cells, n + 1, Len(cells)) = sbAuth(x.st), content |-> x.out]
  IN IF n < 0 THEN [valid |-> FALSE, content |-> <<>>]
     ELSE checked(sbDecryptChunk(sbInit(secret, nonce), SubSeq(cells, 1, n)))

=============================================================================
