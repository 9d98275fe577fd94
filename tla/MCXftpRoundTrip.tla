-------------------------- MODULE MCXftpRoundTrip --------------------------
(* Files of up to 20 bytes on the whole trip, chunk sizes for up to 240:   *)
(* the sizes of chunks, prefix, tag and keystream block are scaled down so *)
(* that every case of the sizing and several segments and blocks occur.    *)
EXTENDS XftpRoundTrip

MCGoodPeer ==
  [min |-> 1, max |-> 3, sessionId |-> <<90>>, chain |-> 2, genuine |-> TRUE, issued |-> TRUE,
   proof |-> "this", keySigned |-> TRUE, alg |-> "ed25519", versioned |-> TRUE,
   lengths |-> "short", wrapped |-> FALSE, refuses |-> FALSE]

(* Chains and versions; chains and signatures, with leaves issued by their *)
(* second certificate and leaves that are not; encodings.                  *)
MCPeers ==
  {[MCGoodPeer EXCEPT !.min = v[1], !.max = v[2], !.chain = n, !.genuine = g, !.proof = p] :
     v \in {<<1, 3>>, <<2, 2>>, <<3, 5>>, <<4, 5>>, <<3, 2>>}, n \in 1..5,
     g \in BOOLEAN, p \in {"this", "other", "none"}}
  \cup {[MCGoodPeer EXCEPT !.chain = n, !.genuine = g, !.issued = i, !.proof = p, !.keySigned = k] :
          n \in 1..5, g \in BOOLEAN, i \in BOOLEAN, p \in {"this", "other", "none"}, k \in BOOLEAN}
  \cup {[MCGoodPeer EXCEPT !.versioned = a, !.lengths = b, !.wrapped = c, !.refuses = d, !.alg = e] :
          a \in BOOLEAN, b \in {"short", "one", "four", "five", "back"}, c \in BOOLEAN,
          d \in BOOLEAN, e \in {"ed25519", "ed448"}}

(* One byte; as long as the window for the header allows; too long. *)
MCNames == {[i \in 1..n |-> 5] : n \in {1, HeaderWindow - 2, 256}}

MCChunkSize == <<2, 8, 32, 128>>

ASSUME EveryHelloFits ==
  \A p \in MCPeers : \A c \in {<<40>>} : Encodable(serverHello(p, c))
=============================================================================
