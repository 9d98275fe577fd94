----------------------------- MODULE MCXftpPage -----------------------------
(* Two servers, one at this host and one at another port of another host;  *)
(* no link, a link that does not decode, one for each of the servers.      *)
EXTENDS XftpPage

Address(key, name, port) == [keyHash |-> key, hosts |-> << [name |-> name, port |-> port] >>]

MCAddresses == <<Address(1, "here", <<>>), Address(2, "there", <<8443>>)>>

LinkAt(i) == [kind |-> "link", fd |-> << Described(<<getServers[i]>>, FALSE) >>]

MCHash == {NoHash, [kind |-> "text", fd |-> <<>>], [kind |-> "bad", fd |-> <<>>], LinkAt(1), LinkAt(2)}
=============================================================================
