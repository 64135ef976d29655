---------------------------- MODULE ClientAddress ----------------------------
(***************************************************************************)
(* Whose request it is, and what the operator wants done with his misses:  *)
(* ExtractClientIP of server/clientip.go and IPMatcher of server/ipmatch.go.*)
(*                                                                         *)
(* An address is a model value and a network is the set of its addresses.  *)
(* A text that is not an address (an empty part of a header, a port that   *)
(* does not parse, the peer of a unix socket) is NoAddress.                *)
(***************************************************************************)
EXTENDS Integers, Sequences

CONSTANTS
  Addrs,        \* IP addresses
  NoAddress,    \* what net.ParseIP answers nil to
  Trusted,      \* the addresses in the networks of trusted_proxies
  Rules,        \* ip_modes.rules, in order: sequence of [network, mode]
  DefaultMode   \* ip_modes.default

Texts == Addrs \cup {NoAddress}

ASSUME AddressAssumption ==
  /\ NoAddress \notin Addrs /\ Trusted \subseteq Addrs
  /\ Rules \in Seq([network : SUBSET Addrs, mode : STRING])

(***************************************************************************)
(* ExtractClientIP: an untrusted peer is the client.  Behind a trusted one *)
(* X-Forwarded-For is walked from the right past trusted addresses and     *)
(* texts that are none; then X-Real-IP counts; then the peer itself.       *)
(***************************************************************************)
Strangers(line) == {i \in DOMAIN line : line[i] \in Addrs \ Trusted}

Leftmost(places)  == CHOOSE i \in places : \A j \in places : i <= j   \* mutant: walked from the left
Rightmost(places) == CHOOSE i \in places : \A j \in places : j <= i

ExtractClientIP(peer, line, realIP) ==
  IF peer \notin Trusted \/ peer = NoAddress THEN peer
  ELSE IF Strangers(line) # {} THEN line[Rightmost(Strangers(line))]
  ELSE IF realIP # NoAddress THEN realIP
  ELSE peer

(***************************************************************************)
(* IPMatcher.Match, and the handler's default for a request without an     *)
(* address: the first rule in the order of the configuration.              *)
(***************************************************************************)
Matching(ip) == {i \in DOMAIN Rules : ip \in Rules[i].network}

Mode(ip) ==
  IF Matching(ip) = {} THEN DefaultMode
  ELSE Rules[CHOOSE i \in Matching(ip) : \A j \in Matching(ip) : i <= j].mode

(***************************************************************************)
(* What reaches the server when a client sends a line of its own, or none, *)
(* through a chain of trusted proxies.  The first of them appends the      *)
(* client's address or, like the nginx of DEPLOY.md, puts it in place of   *)
(* the line; each further one appends the address of the one before.       *)
(***************************************************************************)
PeerOf(client, via) == IF via = << >> THEN client ELSE via[Len(via)]

LineOf(client, claimed, via, replaces) ==
  IF via = << >> THEN claimed
  ELSE (IF replaces THEN << >> ELSE claimed) \o <<client>> \o SubSeq(via, 1, Len(via) - 1)
=============================================================================
