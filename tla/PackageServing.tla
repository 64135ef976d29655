--------------------------- MODULE PackageServing ---------------------------
(***************************************************************************)
(* Requests for package files: ServePackages of server/handler_packages.go *)
(* and ReverseProxy of server/proxy.go, while the sync process changes the *)
(* cache under their feet.  (The vote the handler sends first belongs to   *)
(* VoteRecorder; it is sent without waiting and changes nothing here.)     *)
(*                                                                         *)
(* The cache is a PackageStore, which CacheManager implements.  A step of  *)
(* a handler is one look at the file system or one exchange with upstream. *)
(***************************************************************************)
EXTENDS ClientAddress

CONSTANTS
  Files,        \* package paths that pass the handler's checks
  Bytes,        \* [Files -> Nat]: how long a package is
  PageBytes,    \* how long the error pages of upstream are
  TextBytes,    \* how long the text "upstream error" of the handler is
  BadPath,      \* stands for every path that does not
  Dirs,         \* directories of the cache
  Tiers,        \* the cache tiers this server was started with, hottest first
  Requests,     \* the handlers that may run at a time
  Incoming      \* the requests that may come in

ASSUME ServingAssumption ==
  /\ Bytes \in [Files -> Nat] /\ PageBytes \in Nat /\ TextBytes \in Nat \ {0}
  /\ BadPath \notin Files
  /\ Tiers \in Seq(Dirs) /\ Tiers # << >>
  /\ \A i, j \in 1..Len(Tiers) : Tiers[i] = Tiers[j] => i = j
  /\ Incoming \subseteq [path : Files \cup {BadPath}, client : Addrs,
                         peer : Texts, line : Seq(Texts), realIP : Texts]

(***************************************************************************)
(* What is sent to a client.  body: the package, a page of upstream or a   *)
(* text of the server.  passed: how many bytes of a package or page.       *)
(* text: how many bytes of an error text come after them.  intact: the     *)
(* connection to the client has carried all that was sent to its end.      *)
(* logged: the status that responseCapture holds for the log.              *)
(***************************************************************************)
Unset  == 0
Codes  == {200, 302, 404, 502}
Bodies == {"package", "page", "text"}
Answer == [status : Codes \cup {Unset}, logged : Codes, body : Bodies,
           passed : Nat, text : {0, TextBytes}, intact : BOOLEAN]

NoAnswer == [status |-> Unset, logged |-> 200, body |-> "text",
             passed |-> 0, text |-> 0, intact |-> FALSE]
NoRequest == [path |-> BadPath, peer |-> NoAddress, line |-> << >>, realIP |-> NoAddress,
              client |-> NoAddress]

\* How upstream says where a body ends: Content-Length, the chunk of length zero or the
\* frame that ends the stream, or no more than the end of the connection.
Framings == {"length", "chunked", "close"}

VARIABLES
  where,    \* the cache: see PackageStore
  doomed,
  pc,       \* [Requests -> where the handler is]
  req,      \* [Requests -> the request it handles]
  tier,     \* [Requests -> the tier it looks at]
  answer,   \* [Requests -> what the last client of it got]
  framing,  \* [Requests -> how upstream says where the body ends]
  seen      \* history: [Requests -> what befell the file while it was looked for]

Store == INSTANCE PackageStore

cache    == <<where, doomed>>
handlers == <<pc, req, tier, answer, framing>>
servingVars == <<where, doomed, pc, req, tier, answer, framing, seen>>

\* "dispatch" is a request for the index: see IndexServing.
Steps == {"idle", "check", "scan", "open", "miss", "proxy", "stream", "dispatch"}
Events == {"absent", "hotter", "left"}

File(r) == req[r].path
InTier(i, f) == i \in DOMAIN Tiers /\ Tiers[i] \in where[f]
Cached(f) == \E i \in DOMAIN Tiers : InTier(i, f)
Searching(r) == pc[r] \in {"scan", "open", "miss", "proxy", "stream"}

ServingInit ==
  /\ Store!Init
  /\ pc = [r \in Requests |-> "idle"] /\ req = [r \in Requests |-> NoRequest]
  /\ tier = [r \in Requests |-> 1] /\ answer = [r \in Requests |-> NoAnswer]
  /\ framing = [r \in Requests |-> "length"]
  /\ seen = [r \in Requests |-> {}]

(***************************************************************************)
(* History.  absent: no tier had the file at some moment of the search.    *)
(* hotter: a copy appeared in a tier that had been passed.  left: the copy *)
(* that os.Stat had found was gone before it was opened.                   *)
(***************************************************************************)
Noted(r) ==
  IF ~ Searching(r) THEN {}
  ELSE {e \in Events :
          \/ e = "absent" /\ ~ Cached(File(r))'
          \/ e = "hotter" /\ pc[r] = "scan"
             /\ \E i \in 1..(tier[r] - 1) : InTier(i, File(r))' /\ ~ InTier(i, File(r))
          \/ e = "left" /\ pc[r] = "open" /\ ~ InTier(tier[r], File(r))'}

\* The sync process does something to the cache.
StoreStep ==
  /\ Store!Next
  /\ UNCHANGED handlers
  /\ seen' = [r \in Requests |-> seen[r] \cup Noted(r)]

(***************************************************************************)
(* The handler.                                                            *)
(***************************************************************************)
Go(r, step) == pc' = [pc EXCEPT ![r] = step]

\* responseCapture keeps the last status, net/http sends the first.
NotCaptured(a, code) ==      \* mutant: the status is not captured
  [a EXCEPT !.status = IF @ = Unset THEN code ELSE @]
WriteHeader(a, code) ==
  [a EXCEPT !.status = IF @ = Unset THEN code ELSE @, !.logged = code]

\* The handler returns, and this is its answer.
Reply(r, a) == answer' = [answer EXCEPT ![r] = a] /\ Go(r, "idle")

Plain(r, code) == Reply(r, [WriteHeader(answer[r], code) EXCEPT !.intact = TRUE])

Arrive(r) ==
  /\ pc[r] = "idle"
  /\ \E q \in Incoming : req' = [req EXCEPT ![r] = q]
  /\ Go(r, "check") /\ answer' = [answer EXCEPT ![r] = NoAnswer]
  /\ tier' = [tier EXCEPT ![r] = 1] /\ seen' = [seen EXCEPT ![r] = {}]
  /\ framing' = [framing EXCEPT ![r] = "length"]
  /\ UNCHANGED cache

\* A path of another shape than {ab}/{cd}/{hash}/{filename} is not found.
Refuse(r) ==
  /\ pc[r] = "check" /\ File(r) = BadPath
  /\ Plain(r, 404)
  /\ UNCHANGED <<cache, req, tier, framing, seen>>

Search(r) ==
  /\ pc[r] = "check" /\ File(r) # BadPath
  /\ Go(r, "scan")
  /\ seen' = [seen EXCEPT ![r] = IF Cached(File(r)) THEN {} ELSE {"absent"}]
  /\ UNCHANGED <<cache, req, tier, answer, framing>>

\* os.Stat in one tier after the other.
ColdestFirst(r) == Len(Tiers) + 1 - tier[r]     \* mutant: the tiers the other way round
Looked(r) == tier[r]

Found(r) ==
  /\ pc[r] = "scan" /\ InTier(Looked(r), File(r))
  /\ Go(r, "open") /\ tier' = [tier EXCEPT ![r] = Looked(r)]
  /\ UNCHANGED <<cache, req, answer, framing, seen>>

AlwaysMore(r) == tier[r] <= Len(Tiers)     \* mutant: one tier too many
MoreTiers(r)  == tier[r] < Len(Tiers)

SameTier(r) == tier[r]     \* mutant: the loop stays where it is
NextTier(r) == tier[r] + 1

NotHere(r) ==
  /\ pc[r] = "scan" /\ ~ InTier(Looked(r), File(r))
  /\ IF MoreTiers(r) THEN tier' = [tier EXCEPT ![r] = NextTier(r)] /\ UNCHANGED pc
                     ELSE Go(r, "miss") /\ UNCHANGED tier
  /\ UNCHANGED <<cache, req, answer, framing, seen>>

(***************************************************************************)
(* http.ServeFile opens the path anew: a 404 if nothing is there any more, *)
(* else the file, whose inode stays as it is whatever happens to its name. *)
(* The answer may be cut by the client or by timeouts.write.  (http.Serve- *)
(* File sends a Content-Length: framing is "length" before upstream sets it.) *)
(***************************************************************************)
Open(r) ==
  /\ pc[r] = "open"
  /\ IF InTier(tier[r], File(r))
     THEN \E n \in 0..Bytes[File(r)] :
            Reply(r, [WriteHeader(answer[r], 200) EXCEPT
                        !.body = "package", !.passed = n, !.intact = n = Bytes[File(r)]])
     ELSE Plain(r, 404)
  /\ UNCHANGED <<cache, req, tier, framing, seen>>

Address(r) == ExtractClientIP(req[r].peer, req[r].line, req[r].realIP)

Redirect(r) ==
  /\ pc[r] = "miss" /\ Mode(Address(r)) # "proxy"
  /\ Plain(r, 302)
  /\ UNCHANGED <<cache, req, tier, framing, seen>>

Proxy(r) ==
  /\ pc[r] = "miss" /\ Mode(Address(r)) = "proxy"
  /\ Go(r, "proxy")
  /\ UNCHANGED <<cache, req, tier, answer, framing, seen>>

\* No answer from upstream within timeouts.upstream, or none that is HTTP.
NoUpstream(r) ==
  /\ pc[r] = "proxy"
  /\ Plain(r, 502)
  /\ UNCHANGED <<cache, req, tier, framing, seen>>

\* A header has come, with a package or with an error page, and is passed on as it is.
Header(r) ==
  /\ pc[r] = "proxy"
  /\ \E f \in Framings : framing' = [framing EXCEPT ![r] = f]
  /\ \E code \in {200, 404} :
       answer' = [answer EXCEPT ![r] = [WriteHeader(@, code) EXCEPT
                                          !.body = IF code = 200 THEN "package" ELSE "page"]]
  /\ Go(r, "stream")
  /\ UNCHANGED <<cache, req, tier, seen>>

\* How long what upstream has begun to send is, and whether the client was told so:
\* Content-Length is not among the headers that are dropped.
Whole(r) == IF answer[r].body = "package" THEN Bytes[File(r)] ELSE PageBytes
Unsized(r) == FALSE      \* mutant: Content-Length is dropped with the hop-by-hop headers
Sized(r) == framing[r] = "length"

\* The body ends.  If it is the connection that says so, nobody knows whether that is all.
BodyEnds(r) ==
  /\ pc[r] = "stream"
  /\ \E n \in 0..Whole(r) :
       /\ framing[r] = "close" \/ n = Whole(r)
       /\ Reply(r, [answer[r] EXCEPT !.passed = n, !.intact = TRUE])
  /\ UNCHANGED <<cache, req, tier, framing, seen>>

(***************************************************************************)
(* The body breaks off (upstream fails, or timeouts.upstream is over): the *)
(* handler calls http.Error on an answer that has begun.  Its status never *)
(* leaves the server; its text goes into the body, if there is room: of    *)
(* more than the promised length, net/http refuses the whole write.        *)
(***************************************************************************)
Fits(r, n) == Sized(r) => n + TextBytes <= Whole(r)

BodyBreaks(r) ==
  /\ pc[r] = "stream"
  /\ \E n \in 0..Whole(r) :
       /\ framing[r] = "length" => n < Whole(r)
       /\ Reply(r, [WriteHeader(answer[r], 502) EXCEPT
                      !.passed = n, !.text = IF Fits(r, n) THEN TextBytes ELSE 0,
                      !.intact = TRUE])
  /\ UNCHANGED <<cache, req, tier, framing, seen>>

\* If it is the client that is gone, the write of the text fails too.
ClientGone(r) ==
  /\ pc[r] = "stream"
  /\ Reply(r, WriteHeader(answer[r], 502))
  /\ UNCHANGED <<cache, req, tier, framing, seen>>

Miss(r) == \/ Redirect(r) \/ Proxy(r) \/ NoUpstream(r) \/ Header(r) \/ BodyEnds(r)
           \/ BodyBreaks(r) \/ ClientGone(r)

Handle(r) == Refuse(r) \/ Search(r) \/ Found(r) \/ NotHere(r) \/ Open(r) \/ Miss(r)
-----------------------------------------------------------------------------
(***************************************************************************)
(* Properties.  The next-state relation is that of IndexServing, where the *)
(* same handlers also serve the index.                                     *)
(***************************************************************************)
ServingTypeOK ==
  /\ Store!TypeOK
  /\ pc \in [Requests -> Steps]
  /\ req \in [Requests -> Incoming \cup {NoRequest}]
  /\ tier \in [Requests -> 1..Len(Tiers)]
  /\ answer \in [Requests -> Answer]
  /\ framing \in [Requests -> Framings]
  /\ seen \in [Requests -> SUBSET Events]

\* The client can tell that it has an answer, and all of its body: what it got before the
\* end is as much as it was promised, if it was promised anything.
Answered(r) ==
  /\ pc[r] = "idle" /\ answer[r].intact
  /\ answer[r].body # "text" /\ Sized(r) => answer[r].passed + answer[r].text = Whole(r)
Forwarded(r) == \/ pc[r] \in {"miss", "proxy", "stream"}
                \/ Answered(r) /\ answer[r].status \in {302, 502}

\* A request is sent on, or told that there is no such file, only if the cache was without
\* the file at some moment of the search, or moved it during the search to a tier that had
\* been passed or out of the tier it had just been found in: no demotion, no copy between
\* tiers and no number of unrelated changes makes a cached file be missed.
MissExplained ==
  \A r \in Requests :
    /\ Forwarded(r) => seen[r] \cap {"absent", "hotter"} # {}
    /\ Answered(r) /\ File(r) # BadPath /\ answer[r].status = 404 /\ answer[r].body = "text"
         => "left" \in seen[r]

\* Whether a miss is redirected or proxied is decided by the rules for the client that sent
\* the request, through whatever chain of trusted proxies and whatever line it sent itself.
RulesForClient ==
  \A r \in Requests :
    req[r].client \in Addrs \ Trusted =>
      /\ pc[r] \in {"proxy", "stream"} => Mode(req[r].client) = "proxy"
      /\ Answered(r) /\ answer[r].status = 302 => Mode(req[r].client) # "proxy"

\* A client that takes the answer for a package has the package, all of it and no more,
\* unless an error text was put at the end of a body without a length, or was just as long
\* as what was missing, or upstream let the end of the connection stand for that of the body.
KnownIsWhole ==
  \A r \in Requests :
    Answered(r) /\ answer[r].body = "package" =>
      \/ answer[r].passed = Bytes[File(r)] /\ answer[r].text = 0
      \/ answer[r].text > 0
         /\ (framing[r] # "length" \/ answer[r].passed + TextBytes = Bytes[File(r)])
      \/ framing[r] = "close"

\* The status that is logged is the one the client got, unless a proxied body broke off and
\* the error text went into it.
LoggedAsSent ==
  \A r \in Requests :
    Answered(r) => answer[r].logged = answer[r].status \/ answer[r].text > 0
=============================================================================
