---------------------------- MODULE IndexServing ----------------------------
(***************************************************************************)
(* The whole of what serve answers: besides package files (PackageServing) *)
(* the pages of the index, ServeSimple of server/handler_simple.go,        *)
(* ServeJSON of server/handler_json.go and the dispatch of server.go.      *)
(* The pages are written and removed by IndexSync meanwhile.               *)
(*                                                                         *)
(* A client asks for a project by some spelling and follows redirects.     *)
(***************************************************************************)
EXTENDS PackageServing, PackageName

\* What NegotiateSimpleFormat makes of an Accept header: the header may name the JSON
\* form, the HTML form, both or neither, and the JSON form goes first.
Forms == {"json", "html"}
NegotiateSimpleFormat(accepts) ==
  IF "json" \in accepts THEN ".v1_json" ELSE IF "html" \in accepts THEN ".v1_html" ELSE ".html"

\* Files of a project, in the order in which IndexSync writes them: the simple pages by
\* their suffix, and the JSON document.
PageFiles == <<".html", ".v1_html", ".v1_json", "document">>
Routes == {"simple", "project json"}

CONSTANTS
  Spellings,        \* the names by which clients ask for projects
  Safe,             \* characters that stay as they are in a URL
  Followed(_, _),   \* the name that arrives by a route if a Location has a name as it is:
                    \* a "?" ends the path, "%41" becomes an "A"
  MaxHops           \* bound on the redirects a client follows

UrlSafe(s) == \A i \in DOMAIN s : s[i] \in Safe

ASSUME IndexAssumption ==
  /\ Spellings \subseteq Seq(Chars) /\ MaxHops \in Nat
  /\ \A route \in Routes, s \in Spellings :
       /\ Followed(route, NormalizeName(s)) \in Spellings
       /\ UrlSafe(s) => Followed(route, NormalizeName(s)) = NormalizeName(s)

\* PyPI has no others: PEP 508 allows letters, digits and separators.
Projects == {NormalizeName(s) : s \in {s \in Spellings : s # << >> /\ UrlSafe(s)}}

VARIABLES
  written,  \* [Projects -> how many of its files IndexSync has written and not removed]
  ask,      \* [Requests -> [route, accepts]]: what the client asks for
  trail,    \* [Requests -> the names it has asked by: its own, then those of redirects]
  got       \* [Requests -> the status and the file it ended with]

browsing == <<ask, trail, got>>
vars == <<where, doomed, pc, req, tier, answer, framing, seen, written, ask, trail, got>>

Nothing == [status |-> 0, project |-> << >>, page |-> "document"]
Results == [status : {0, 200, 403, 404}, project : Projects \cup {<< >>}, page : Range(PageFiles)]
NoAsk   == [route |-> "simple", accepts |-> {}]
Asks    == [route : Routes, accepts : SUBSET Forms]

Init ==
  /\ ServingInit
  /\ written \in [Projects -> {0, Len(PageFiles)}]
  /\ ask = [r \in Requests |-> NoAsk]
  /\ trail = [r \in Requests |-> << >>] /\ got = [r \in Requests |-> Nothing]

\* IndexSync writes the next file of a project, or removes all of them.
Publish(p) ==
  /\ written[p] < Len(PageFiles)
  /\ written' = [written EXCEPT ![p] = @ + 1]
  /\ UNCHANGED <<cache, handlers, seen, browsing>>

Withdraw(p) ==
  /\ written' = [written EXCEPT ![p] = 0]
  /\ UNCHANGED <<cache, handlers, seen, browsing>>

OnDisk(p, page) == p \in Projects /\ \E i \in 1..written[p] : PageFiles[i] = page

Ask(r) ==
  /\ pc[r] = "idle"
  /\ \E a \in Asks, name \in Spellings :
       ask' = [ask EXCEPT ![r] = a] /\ trail' = [trail EXCEPT ![r] = <<name>>]
  /\ got' = [got EXCEPT ![r] = Nothing]
  /\ Go(r, "dispatch")
  /\ req' = [req EXCEPT ![r] = NoRequest] /\ answer' = [answer EXCEPT ![r] = NoAnswer]
  /\ tier' = [tier EXCEPT ![r] = 1] /\ seen' = [seen EXCEPT ![r] = {}]
  /\ framing' = [framing EXCEPT ![r] = "length"]
  /\ UNCHANGED <<cache, written>>

Ends(r, result) ==
  /\ got' = [got EXCEPT ![r] = result]
  /\ Go(r, "idle")
  /\ UNCHANGED <<cache, req, tier, answer, framing, seen, written, ask, trail>>

Failed(status) == [Nothing EXCEPT !.status = status]

\* The name in the URL.
Name(r) == Last(trail[r])

\* The list of all projects is refused; /json without a name is not found (nor is what is
\* left if a redirect loses its /json).
RefuseRoot(r) ==
  /\ pc[r] = "dispatch" /\ Name(r) = << >>
  /\ Ends(r, Failed(IF ask[r].route = "simple" THEN 403 ELSE 404))

\* A spelling that is not normalized: a redirect to the same route, which is followed.
\* The name goes into the Location as it is, without being escaped.
SendOn(r) ==
  /\ pc[r] = "dispatch" /\ Len(trail[r]) <= MaxHops
  /\ Name(r) # << >> /\ Name(r) # NormalizeName(Name(r))
  /\ trail' = [trail EXCEPT ![r] = Append(@, Followed(ask[r].route, NormalizeName(Name(r))))]
  /\ UNCHANGED <<cache, pc, req, tier, answer, framing, seen, written, ask, got>>

\* The file a request is answered from.
PageOf(a) == IF a.route = "simple" THEN NegotiateSimpleFormat(a.accepts) ELSE "document"

ServePage(r) ==
  /\ pc[r] = "dispatch"
  /\ Name(r) # << >> /\ Name(r) = NormalizeName(Name(r))
  /\ Ends(r, IF OnDisk(Name(r), PageOf(ask[r]))
             THEN [status |-> 200, project |-> Name(r), page |-> PageOf(ask[r])]
             ELSE Failed(404))

Browse(r) == RefuseRoot(r) \/ SendOn(r) \/ ServePage(r)

\* A request for a package file, and what is done about it.
AskFile(r) ==
  /\ Arrive(r)
  /\ ask' = [ask EXCEPT ![r] = NoAsk]
  /\ trail' = [trail EXCEPT ![r] = << >>] /\ got' = [got EXCEPT ![r] = Nothing]
  /\ UNCHANGED written

Serve(r) == Handle(r) /\ UNCHANGED <<written, browsing>>

Next ==
  \/ StoreStep /\ UNCHANGED <<written, browsing>>
  \/ \E r \in Requests : AskFile(r) \/ Serve(r) \/ Ask(r) \/ Browse(r)
  \/ \E p \in Projects : Withdraw(p) \/ Publish(p)

Spec == Init /\ [][Next]_vars

FairSpec ==
  /\ Spec
  /\ \A r \in Requests : WF_vars(Serve(r) \/ Browse(r))
-----------------------------------------------------------------------------
(***************************************************************************)
(* Properties.                                                             *)
(***************************************************************************)
TypeOK ==
  /\ ServingTypeOK
  /\ written \in [Projects -> 0..Len(PageFiles)]
  /\ ask \in [Requests -> Asks]
  /\ trail \in [Requests -> Seq(Spellings)]
  /\ \A r \in Requests : Len(trail[r]) <= MaxHops + 1
  /\ got \in [Requests -> Results]

\* A client that follows redirects gets the form it prefers; and if it spelled the name with
\* characters that names have, it is at the project of that name after one of them at most.
OneRedirect ==
  \A r \in Requests :
    /\ got[r].status = 200 /\ "json" \in ask[r].accepts /\ ask[r].route = "simple"
         => got[r].page = ".v1_json"
    /\ trail[r] # << >> /\ UrlSafe(Head(trail[r])) =>
         /\ Len(trail[r]) <= 2
         /\ got[r].status = 200 => got[r].project = NormalForm(Head(trail[r]))

\* Every request is answered.
AllAnswered == \A r \in Requests : pc[r] # "idle" ~> pc[r] = "idle"
=============================================================================
