--------------------------- MODULE MCIndexServing ---------------------------
(***************************************************************************)
(* Constants of IndexServing for TLC.                                      *)
(***************************************************************************)
EXTENDS IndexServing

\* A client on the campus network, one outside, and two trusted proxies.
AddrsMC   == {"campus", "world", "nginx", "balancer"}
TrustedMC == {"nginx", "balancer"}
\* The second rule would match the campus too.
RulesMC   == <<[network |-> {"campus"}, mode |-> "proxy"],
               [network |-> {"campus", "world"}, mode |-> "302"]>>

FilesMC    == {"f"}
\* Of three bytes, a text of two leaves room for none, just fits, or is refused.
BytesMC    == [f \in FilesMC |-> 3]
ThreeDirs  == {"ssd", "hdd", "tape"}
ThreeTiers == <<"ssd", "hdd", "tape">>

\* Clients send no line, or one that names the other client, through up to two proxies.
Lines  == {<< >>, <<"campus", "">>}
Chains == {<< >>, <<"nginx">>, <<"balancer", "nginx">>}
IncomingMC ==
  {[path |-> p, client |-> c, peer |-> PeerOf(c, via), line |-> LineOf(c, l, via, rep),
    realIP |-> "world"] :
     p \in FilesMC, c \in {"campus", "world"}, l \in Lines, via \in Chains,
     rep \in BOOLEAN}
  \cup {[path |-> "bad", client |-> "world", peer |-> "world", line |-> << >>, realIP |-> ""],
        \* a probe of the balancer itself, and a unix socket
        [path |-> "f", client |-> "balancer", peer |-> "nginx", line |-> <<"balancer">>,
         realIP |-> "campus"],
        [path |-> "f", client |-> "balancer", peer |-> "", line |-> << >>, realIP |-> ""]}

CharsMC == Separators \cup {"a", "b", "A", "?"}
LowerMC == [c \in CharsMC |-> IF c = "A" THEN "a" ELSE c]

SafeMC  == CharsMC \ {"?"}

\* Three spellings of a project, one that a redirect cuts to its name, and no name at all.
SpellingsMC == {<< >>, <<"a", "-", "b">>, <<"a", "-", "-", "b">>, <<"A", "_", ".", "b">>,
                <<"A", "_", "b", "?">>}

\* The query goes, and the /json with it.
FollowedMC(route, name) ==
  IF name = << >> \/ Last(name) # "?" THEN name
  ELSE IF route = "simple" THEN Front(name) ELSE << >>
=============================================================================
