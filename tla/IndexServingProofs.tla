------------------------- MODULE IndexServingProofs -------------------------
(***************************************************************************)
(* Theorems about IndexServing, for every cache, every number of tiers and *)
(* requests, every set of rules and of trusted proxies.                    *)
(*                                                                         *)
(* The invariant Good says of one request what its search has established  *)
(* (Searched), what it has sent so far (Begun), by which rule a miss was   *)
(* decided (Ruled) and what the end of its answer says (Sent).             *)
(***************************************************************************)
EXTENDS IndexServing, RequestProofs

\* A tier that was passed is still without the file, or something was seen to happen; so
\* it is with the whole cache, and with the tier the file was found in.
Searched(r) ==
  /\ pc[r] = "check" => tier[r] = 1
  /\ Searching(r) => File(r) \in Files
  /\ pc[r] = "scan" =>
       seen[r] \cap {"absent", "hotter"} # {} \/ \A i \in 1..(tier[r] - 1) : ~ InTier(i, File(r))
  /\ Searching(r) /\ ~ Cached(File(r)) => "absent" \in seen[r]
  /\ pc[r] = "open" => InTier(tier[r], File(r)) \/ "left" \in seen[r]
  /\ Forwarded(r) => seen[r] \cap {"absent", "hotter"} # {}
  /\ Answered(r) /\ File(r) # BadPath /\ answer[r].status = 404 /\ answer[r].body = "text"
       => "left" \in seen[r]

\* Nothing has been sent before the handler sends something, and of a body that is passed
\* on nothing is counted before it ends.
Begun(r) ==
  /\ pc[r] # "idle" => ~ answer[r].intact /\ answer[r].passed = 0 /\ answer[r].text = 0
  /\ pc[r] \notin {"idle", "stream"} => answer[r].status = Unset /\ answer[r].body = "text"
  /\ pc[r] = "stream" =>
       /\ answer[r].status \in {200, 404} /\ answer[r].logged = answer[r].status
       /\ answer[r].body = IF answer[r].status = 200 THEN "package" ELSE "page"

Ruled(r) ==
  /\ pc[r] \in {"proxy", "stream"} => Mode(Address(r)) = "proxy"
  /\ Answered(r) /\ answer[r].status = 302 => Mode(Address(r)) # "proxy"

Sent(r) ==
  Answered(r) =>
    /\ answer[r].logged = answer[r].status \/ answer[r].text > 0
    /\ answer[r].body = "package" =>
         \/ answer[r].passed = Bytes[File(r)] /\ answer[r].text = 0
         \/ answer[r].text > 0
            /\ (framing[r] # "length" \/ answer[r].passed + TextBytes = Bytes[File(r)])
         \/ framing[r] = "close"

Good(r) == Searched(r) /\ Begun(r) /\ Ruled(r) /\ Sent(r)

Types ==
  /\ pc \in [Requests -> Steps]
  /\ req \in [Requests -> Incoming \cup {NoRequest}]
  /\ tier \in [Requests -> 1..Len(Tiers)]
  /\ answer \in [Requests -> Answer]
  /\ framing \in [Requests -> Framings]
  /\ seen \in [Requests -> SUBSET Events]

Inv == Types /\ \A r \in Requests : Good(r)

\* What a step does not do to a request.
Untouched(r) ==
  /\ pc'[r] = pc[r] /\ req'[r] = req[r] /\ tier'[r] = tier[r] /\ answer'[r] = answer[r]
  /\ framing'[r] = framing[r] /\ seen'[r] = seen[r]

LEMMA UntouchedStaysGood ==
  ASSUME NEW r \in Requests, Good(r), Untouched(r), where' = where
  PROVE  Good(r)'
<1>1. File(r)' = File(r) /\ (Answered(r)' <=> Answered(r)) /\ Address(r)' = Address(r)
  BY DEF Untouched, File, Answered, Sized, Whole, Address
<1>2. Searched(r)'
  BY <1>1 DEF Good, Searched, Untouched, InTier, Cached, Searching, Forwarded
<1>3. Begun(r)'
  BY DEF Good, Begun, Untouched
<1>4. Ruled(r)'
  BY <1>1 DEF Good, Ruled, Untouched
<1>5. Sent(r)'
  BY <1>1 DEF Good, Sent, Untouched
<1>6. QED
  BY <1>2, <1>3, <1>4, <1>5 DEF Good

\* The end of an answer.
LEMMA ReplyGives ==
  ASSUME Types, NEW r \in Requests, NEW a \in Answer, Reply(r, a)
  PROVE  /\ answer' \in [Requests -> Answer] /\ answer'[r] = a
         /\ pc' \in [Requests -> Steps] /\ pc'[r] = "idle"
         /\ \A q \in Requests \ {r} : answer'[q] = answer[q] /\ pc'[q] = pc[q]
<1>1. answer' = [answer EXCEPT ![r] = a] /\ pc' = [pc EXCEPT ![r] = "idle"]
  BY DEF Reply, Go
<1>2. answer \in [Requests -> Answer] /\ pc \in [Requests -> Steps] /\ "idle" \in Steps
  BY DEF Types, Steps
<1>3. QED
  BY <1>1, <1>2

\* What the header makes of an answer.
LEMMA HeaderGives ==
  ASSUME NEW a \in Answer, NEW code \in Codes
  PROVE  LET h == WriteHeader(a, code) IN
           /\ h \in Answer /\ h.status = (IF a.status = Unset THEN code ELSE a.status)
           /\ h.logged = code /\ h.body = a.body /\ h.passed = a.passed /\ h.text = a.text
           /\ h.intact = a.intact
BY DEF WriteHeader, Answer

\* A request that starts anew.
LEMMA FreshIsGood ==
  ASSUME NEW r \in Requests, pc'[r] \in {"check", "dispatch"}, answer'[r] = NoAnswer,
         tier'[r] = 1
  PROVE  Good(r)'
<1>1. /\ answer'[r].status = Unset /\ answer'[r].intact = FALSE /\ answer'[r].passed = 0 /\ answer'[r].text = 0
      /\ answer'[r].body = "text"
  BY DEF NoAnswer
<1>2. ~ Forwarded(r)' /\ ~ Answered(r)' /\ ~ Searching(r)'
  BY <1>1 DEF Forwarded, Answered, Searching
<1>3. QED
  BY <1>1, <1>2 DEF Good, Searched, Begun, Ruled, Sent

\* The cache changes under a handler.
LEMMA StoreKeepsGood ==
  ASSUME Types, NEW r \in Requests, Good(r), StoreStep
  PROVE  Good(r)'
<1>1. /\ pc' = pc /\ req' = req /\ tier' = tier /\ answer' = answer
      /\ framing' = framing
  BY DEF StoreStep, handlers
<1>2. seen'[r] = seen[r] \cup Noted(r)
  BY DEF StoreStep
<1>3. File(r)' = File(r) /\ (Answered(r)' <=> Answered(r))
  BY <1>1 DEF File, Answered, Sized, Whole
<1>4. Searched(r)'
  <2>1. ASSUME pc[r] = "scan"
        PROVE  \/ seen'[r] \cap {"absent", "hotter"} # {}
               \/ \A i \in 1..(tier[r] - 1) : ~ InTier(i, File(r))'
    <3>1. CASE seen[r] \cap {"absent", "hotter"} # {}
      BY <1>2, <3>1
    <3>2. CASE \A i \in 1..(tier[r] - 1) : ~ InTier(i, File(r))
      <4>1. SUFFICES ASSUME NEW i \in 1..(tier[r] - 1), InTier(i, File(r))'
                     PROVE  "hotter" \in Noted(r)
        BY <1>2
      <4>2. InTier(i, File(r))' /\ ~ InTier(i, File(r))
        BY <3>2, <4>1
      <4>3. QED
        BY <2>1, <4>2 DEF Noted, Searching, Events
    <3>3. QED
      BY <2>1, <3>1, <3>2 DEF Good, Searched
  <2>2. ASSUME Searching(r), ~ Cached(File(r))'
        PROVE  "absent" \in seen'[r]
    BY <1>2, <2>2 DEF Noted, Events
  <2>3. ASSUME pc[r] = "open"
        PROVE  InTier(tier[r], File(r))' \/ "left" \in seen'[r]
    BY <1>1, <1>2, <2>3 DEF Noted, Searching, Events
  <2>4. ASSUME Forwarded(r)
        PROVE  seen'[r] \cap {"absent", "hotter"} # {}
    BY <1>2, <2>4 DEF Good, Searched
  <2>5. ASSUME Answered(r), File(r) # BadPath, answer[r].status = 404, answer[r].body = "text"
        PROVE  "left" \in seen'[r]
    BY <1>2, <2>5 DEF Good, Searched
  <2>6. /\ Searching(r)' <=> Searching(r)
        /\ Forwarded(r)' <=> Forwarded(r)
        /\ Answered(r)' <=> Answered(r)
    BY <1>1, <1>3 DEF Searching, Forwarded
  <2>7. tier'[r] = tier[r] /\ pc'[r] = pc[r] /\ answer'[r] = answer[r]
    BY <1>1
  <2>8. QED
    BY <1>1, <1>3, <2>1, <2>2, <2>3, <2>4, <2>5, <2>6, <2>7 DEF Good, Searched
<1>5. Begun(r)'
  BY <1>1 DEF Good, Begun
<1>6. Ruled(r)'
  BY <1>1, <1>3 DEF Good, Ruled, Address
<1>7. Sent(r)'
  BY <1>1, <1>3 DEF Good, Sent
<1>8. QED
  BY <1>4, <1>5, <1>6, <1>7 DEF Good

\* The walk through the tiers, and the decision what to do about a miss.
LEMMA WalkKeepsGood ==
  ASSUME Types, NEW r \in Requests, Good(r),
         Search(r) \/ Found(r) \/ NotHere(r) \/ Proxy(r)
  PROVE  Good(r)' /\ Types' /\ \A q \in Requests \ {r} : Untouched(q)
<1>1. /\ where' = where /\ req' = req /\ answer' = answer
      /\ framing' = framing
  BY DEF Search, Found, NotHere, Proxy, cache
<1>2. /\ pc \in [Requests -> Steps] /\ tier \in [Requests -> 1..Len(Tiers)]
      /\ seen \in [Requests -> SUBSET Events] /\ Len(Tiers) \in Nat /\ tier[r] \in 1..Len(Tiers)
  BY ServingAssumption DEF Types
<1>3. /\ \A f : Cached(f)' <=> Cached(f)
      /\ \A i, f : InTier(i, f)' <=> InTier(i, f)
      /\ File(r)' = File(r) /\ Address(r)' = Address(r)
  BY <1>1 DEF Cached, InTier, File, Address
<1>4. CASE Search(r)
  <2>1. /\ pc[r] = "check" /\ pc' = [pc EXCEPT ![r] = "scan"] /\ tier' = tier
        /\ seen' = [seen EXCEPT ![r] = IF Cached(File(r)) THEN {} ELSE {"absent"}]
    BY <1>4 DEF Search, Go
  <2>2. /\ pc'[r] = "scan" /\ seen'[r] = IF Cached(File(r)) THEN {} ELSE {"absent"}
        /\ pc' \in [Requests -> Steps] /\ seen' \in [Requests -> SUBSET Events]
        /\ \A q \in Requests \ {r} : pc'[q] = pc[q] /\ seen'[q] = seen[q]
    BY <1>2, <2>1 DEF Steps, Events
  <2>3. QED
    <3>1. File(r) \in Files
      BY <1>2, <1>4, ServingAssumption DEF Search, File, Types, NoRequest
    <3>2. QED
      BY <1>1, <1>2, <1>3, <2>1, <2>2, <3>1 DEF Good, Searched, Begun, Ruled, Sent, Types,
         Untouched, Searching, Forwarded, Answered
<1>5. CASE Found(r)
  <2>1. /\ pc[r] = "scan" /\ pc' = [pc EXCEPT ![r] = "open"] /\ seen' = seen
        /\ tier' = tier /\ InTier(tier[r], File(r))
    BY <1>2, <1>5 DEF Found, Go, Looked
  <2>2. /\ pc'[r] = "open" /\ pc' \in [Requests -> Steps]
        /\ \A q \in Requests \ {r} : pc'[q] = pc[q]
    BY <1>2, <2>1 DEF Steps
  <2>3. QED
    BY <1>1, <1>2, <1>3, <2>1, <2>2 DEF Good, Searched, Begun, Ruled, Sent, Types,
       Untouched, Searching, Forwarded, Answered
<1>6. CASE Proxy(r)
  <2>1. /\ pc[r] = "miss" /\ pc' = [pc EXCEPT ![r] = "proxy"] /\ seen' = seen /\ tier' = tier
        /\ Mode(Address(r)) = "proxy"
    BY <1>6 DEF Proxy, Go
  <2>2. /\ pc'[r] = "proxy" /\ pc' \in [Requests -> Steps]
        /\ \A q \in Requests \ {r} : pc'[q] = pc[q]
    BY <1>2, <2>1 DEF Steps
  <2>3. QED
    BY <1>1, <1>2, <1>3, <2>1, <2>2 DEF Good, Searched, Begun, Ruled, Sent, Types,
       Untouched, Searching, Forwarded, Answered
<1>7. CASE NotHere(r) /\ MoreTiers(r)
  <2>1. /\ pc[r] = "scan" /\ pc' = pc /\ seen' = seen /\ ~ InTier(tier[r], File(r))
        /\ tier' = [tier EXCEPT ![r] = tier[r] + 1] /\ tier[r] < Len(Tiers)
    BY <1>7 DEF NotHere, Looked, MoreTiers, NextTier
  <2>2. /\ tier'[r] = tier[r] + 1 /\ tier' \in [Requests -> 1..Len(Tiers)]
        /\ \A q \in Requests \ {r} : tier'[q] = tier[q]
    BY <1>2, <2>1
  <2>3. (\A i \in 1..(tier[r] - 1) : ~ InTier(i, File(r)))
          => \A i \in 1..(tier'[r] - 1) : ~ InTier(i, File(r))
    BY <1>2, <2>1, <2>2
  <2>4. Searched(r)'
    BY <1>1, <1>3, <2>1, <2>2, <2>3 DEF Good, Searched, Searching, Forwarded, Answered
  <2>5. Begun(r)' /\ Ruled(r)' /\ Sent(r)'
    BY <1>1, <1>3, <2>1 DEF Good, Begun, Ruled, Sent, Answered
  <2>6. QED
    BY <1>1, <1>2, <2>1, <2>2, <2>4, <2>5 DEF Good, Types, Untouched
<1>8. CASE NotHere(r) /\ ~ MoreTiers(r)
  <2>1. /\ pc[r] = "scan" /\ pc' = [pc EXCEPT ![r] = "miss"] /\ seen' = seen /\ tier' = tier
        /\ ~ InTier(tier[r], File(r)) /\ tier[r] = Len(Tiers)
    BY <1>2, <1>8 DEF NotHere, Looked, MoreTiers, Go
  <2>2. /\ pc'[r] = "miss" /\ pc' \in [Requests -> Steps]
        /\ \A q \in Requests \ {r} : pc'[q] = pc[q]
    BY <1>2, <2>1 DEF Steps
  <2>3. seen[r] \cap {"absent", "hotter"} # {}
    <3>1. CASE \A i \in 1..(tier[r] - 1) : ~ InTier(i, File(r))
      <4>1. \A i \in 1..Len(Tiers) : ~ InTier(i, File(r))
        BY <1>2, <2>1, <3>1
      <4>2. DOMAIN Tiers = 1..Len(Tiers)
        BY ServingAssumption
      <4>3. ~ Cached(File(r))
        BY <4>1, <4>2 DEF Cached
      <4>4. "absent" \in seen[r]
        BY <2>1, <4>3 DEF Good, Searched, Searching
      <4>5. QED
        BY <4>4
    <3>2. QED
      BY <2>1, <3>1 DEF Good, Searched
  <2>4. Searched(r)'
    BY <1>1, <1>3, <2>1, <2>2, <2>3 DEF Good, Searched, Searching, Forwarded, Answered
  <2>5. Begun(r)' /\ Ruled(r)' /\ Sent(r)'
    BY <1>1, <1>3, <2>1, <2>2 DEF Good, Begun, Ruled, Sent, Answered
  <2>6. QED
    BY <1>1, <1>2, <2>1, <2>2, <2>4, <2>5 DEF Good, Types, Untouched
<1>9. QED
  BY <1>4, <1>5, <1>6, <1>7, <1>8

\* The handler returns with an answer that was not begun before.
LEMMA ReplyIsGood ==
  ASSUME Types, NEW r \in Requests, Good(r), pc[r] \in {"check", "open", "miss", "proxy"},
         NEW a \in Answer, Reply(r, a),
         UNCHANGED <<where, req, tier, framing, seen>>,
         a.logged = a.status, a.body = "package" /\ a.intact => a.passed = Bytes[File(r)],
         a.text = 0,
         a.status = 404 /\ a.body = "text" => File(r) = BadPath \/ "left" \in seen[r],
         a.status \in {302, 502} => pc[r] \in {"miss", "proxy"},
         a.status = 302 => Mode(Address(r)) # "proxy"
  PROVE  Good(r)' /\ Types' /\ \A q \in Requests \ {r} : Untouched(q)
<1>1. /\ where' = where /\ req' = req /\ tier' = tier
      /\ framing' = framing /\ seen' = seen
  OBVIOUS
<1>2. File(r)' = File(r) /\ Address(r)' = Address(r)
  BY <1>1 DEF File, Address
<1>3. /\ answer' \in [Requests -> Answer] /\ pc' \in [Requests -> Steps]
      /\ pc'[r] = "idle" /\ answer'[r] = a
      /\ \A q \in Requests \ {r} : answer'[q] = answer[q] /\ pc'[q] = pc[q]
  BY ReplyGives
<1>4. a.status \in {302, 502} => seen[r] \cap {"absent", "hotter"} # {}
  BY DEF Good, Searched, Forwarded
<1>5. Answered(r)' => a.intact
  BY <1>3 DEF Answered
<1>6. Searched(r)'
  BY <1>1, <1>2, <1>3, <1>4 DEF Searched, Searching, Forwarded
<1>7. Begun(r)' /\ Ruled(r)' /\ Sent(r)'
  BY <1>1, <1>2, <1>3, <1>5 DEF Begun, Ruled, Sent
<1>8. QED
  BY <1>1, <1>3, <1>6, <1>7 DEF Good, Types, Untouched

\* A status and a short text.
LEMMA TextOfServer ==
  ASSUME Types, NEW r \in Requests, Good(r), pc[r] \in {"check", "open", "miss", "proxy"},
         NEW code \in Codes
  PROVE  LET a == [WriteHeader(answer[r], code) EXCEPT !.intact = TRUE]
         IN  /\ a \in Answer /\ a.status = code /\ a.logged = code /\ a.body = "text"
             /\ a.text = 0
<1>1. answer[r] \in Answer /\ answer[r].status = Unset /\ answer[r].body = "text"
      /\ answer[r].text = 0
  BY DEF Types, Good, Begun
<1> DEFINE h == WriteHeader(answer[r], code)
<1>2. h \in Answer /\ h.status = code /\ h.logged = code /\ h.body = "text" /\ h.text = 0
  BY <1>1, HeaderGives
<1> HIDE DEF h
<1>3. LET a == [h EXCEPT !.intact = TRUE]
      IN  /\ a \in Answer /\ a.status = code /\ a.logged = code /\ a.body = "text"
          /\ a.text = 0
  BY <1>2 DEF Answer
<1>4. QED
  BY <1>3 DEF h

\* The answers.
LEMMA AnswerKeepsGood ==
  ASSUME Types, NEW r \in Requests, Good(r),
         Refuse(r) \/ Open(r) \/ Redirect(r) \/ NoUpstream(r)
  PROVE  Good(r)' /\ Types' /\ \A q \in Requests \ {r} : Untouched(q)
<1>1. UNCHANGED <<where, req, tier, framing, seen>>
  BY DEF Refuse, Open, Redirect, NoUpstream, cache
<1>2. 200 \in Codes /\ 302 \in Codes /\ 404 \in Codes /\ 502 \in Codes
  BY DEF Codes
<1>3. ASSUME NEW code \in Codes, Plain(r, code),
             pc[r] \in {"check", "open", "miss", "proxy"},
             code # 200,
             code = 404 => File(r) = BadPath \/ "left" \in seen[r],
             code \in {302, 502} => pc[r] \in {"miss", "proxy"},
             code = 302 => Mode(Address(r)) # "proxy"
      PROVE  Good(r)' /\ Types' /\ \A q \in Requests \ {r} : Untouched(q)
  <2> DEFINE a == [WriteHeader(answer[r], code) EXCEPT !.intact = TRUE]
  <2>1. /\ a \in Answer /\ a.status = code /\ a.logged = code /\ a.body = "text"
        /\ a.text = 0
    BY <1>3, TextOfServer
  <2>2. Reply(r, a)
    BY <1>3 DEF Plain
  <2> HIDE DEF a
  <2>3. QED
    BY <1>1, <1>3, <2>1, <2>2, ReplyIsGood
<1>4. CASE Refuse(r)
  BY <1>2, <1>3, <1>4 DEF Refuse
<1>5. CASE Open(r) /\ InTier(tier[r], File(r))
  <2>1. PICK n \in 0..Bytes[File(r)] :
          Reply(r, [WriteHeader(answer[r], 200) EXCEPT
                      !.body = "package", !.passed = n, !.intact = n = Bytes[File(r)]])
    BY <1>5 DEF Open
  <2> DEFINE a == [WriteHeader(answer[r], 200) EXCEPT
                     !.body = "package", !.passed = n, !.intact = n = Bytes[File(r)]]
  <2>2. pc[r] = "open"
    BY <1>5 DEF Open
  <2>3. answer[r] \in Answer /\ answer[r].status = Unset /\ answer[r].text = 0
    BY <2>2 DEF Types, Good, Begun
  <2>4. File(r) \in Files /\ Bytes[File(r)] \in Nat
    BY <2>2, ServingAssumption DEF Good, Searched, Searching
  <2>5. n \in Nat /\ "package" \in Bodies /\ (n = Bytes[File(r)]) \in BOOLEAN
    BY <2>4 DEF Bodies
  <2>6. /\ a.status = 200 /\ a.logged = 200 /\ a.body = "package" /\ a.text = 0
        /\ a.passed = n /\ a.intact = (n = Bytes[File(r)])
        /\ a \in Answer
    <3> DEFINE h == WriteHeader(answer[r], 200)
    <3>1. h \in Answer /\ h.status = 200 /\ h.logged = 200 /\ h.text = 0
      <4>1. 200 \in Codes
        BY <1>2
      <4>2. /\ h \in Answer /\ h.status = IF answer[r].status = Unset THEN 200 ELSE answer[r].status
            /\ h.logged = 200 /\ h.text = answer[r].text
        BY <2>3, <4>1, HeaderGives
      <4>3. QED
        BY <2>3, <4>2
    <3>2. a = [h EXCEPT !.body = "package", !.passed = n, !.intact = n = Bytes[File(r)]]
      OBVIOUS
    <3> HIDE DEF h, a
    <3>3. QED
      BY <2>5, <3>1, <3>2 DEF Answer
  <2>7. Reply(r, a)
    BY <2>1
  <2>8. a.intact => n = Bytes[File(r)]
    BY <2>6
  <2> HIDE DEF a
  <2>9. QED
    BY <1>1, <2>2, <2>6, <2>7, <2>8, ReplyIsGood
<1>6. CASE Open(r) /\ ~ InTier(tier[r], File(r))
  <2>1. Plain(r, 404) /\ "left" \in seen[r] /\ pc[r] = "open"
    BY <1>6 DEF Open, Good, Searched
  <2>2. QED
    BY <1>2, <1>3, <2>1
<1>7. CASE Redirect(r)
  BY <1>2, <1>3, <1>7 DEF Redirect
<1>8. CASE NoUpstream(r)
  BY <1>2, <1>3, <1>8 DEF NoUpstream
<1>9. QED
  BY <1>4, <1>5, <1>6, <1>7, <1>8

\* The header of a proxied answer.
LEMMA HeaderKeepsGood ==
  ASSUME Types, NEW r \in Requests, Good(r), Header(r)
  PROVE  Good(r)' /\ Types' /\ \A q \in Requests \ {r} : Untouched(q)
<1>1. where' = where /\ req' = req /\ tier' = tier /\ seen' = seen
  BY DEF Header, cache
<1>2. /\ File(r)' = File(r) /\ Address(r)' = Address(r)
      /\ \A f : Cached(f)' <=> Cached(f)
  BY <1>1 DEF File, Address, Cached, InTier
<1>3. /\ pc \in [Requests -> Steps] /\ answer \in [Requests -> Answer] /\ answer[r] \in Answer
      /\ framing \in [Requests -> Framings]
  BY DEF Types
<1>4. pc[r] = "proxy" /\ pc' = [pc EXCEPT ![r] = "stream"]
  BY DEF Header, Go
<1>5. PICK f \in Framings : framing' = [framing EXCEPT ![r] = f]
  BY DEF Header
<1>6. PICK code \in {200, 404} :
        answer' = [answer EXCEPT ![r] =
                     [WriteHeader(answer[r], code) EXCEPT
                        !.body = IF code = 200 THEN "package" ELSE "page"]]
  BY DEF Header
<1> DEFINE a == [WriteHeader(answer[r], code) EXCEPT
                   !.body = IF code = 200 THEN "package" ELSE "page"]
<1>7. /\ answer[r].status = Unset /\ ~ answer[r].intact
      /\ answer[r].passed = 0 /\ answer[r].text = 0
  BY <1>4 DEF Good, Begun
<1>8. /\ a \in Answer /\ a.status = code /\ a.logged = code /\ ~ a.intact /\ a.passed = 0
      /\ a.text = 0 /\ a.body = IF code = 200 THEN "package" ELSE "page"
  <2>1. code \in Codes /\ "package" \in Bodies /\ "page" \in Bodies
    BY DEF Codes, Bodies
  <2> DEFINE h == WriteHeader(answer[r], code)
  <2>2. /\ h \in Answer /\ h.status = code /\ h.logged = code /\ ~ h.intact /\ h.passed = 0
        /\ h.text = 0
    BY <1>3, <1>7, <2>1, HeaderGives
  <2>3. a = [h EXCEPT !.body = IF code = 200 THEN "package" ELSE "page"]
    OBVIOUS
  <2> HIDE DEF h, a
  <2>4. QED
    BY <2>1, <2>2, <2>3 DEF Answer
<1>9. answer' = [answer EXCEPT ![r] = a]
  BY <1>6
<1> HIDE DEF a
<1>10. /\ pc' \in [Requests -> Steps] /\ pc'[r] = "stream"
       /\ \A q \in Requests \ {r} : pc'[q] = pc[q]
  BY <1>3, <1>4 DEF Steps
<1>11. /\ answer' \in [Requests -> Answer] /\ answer'[r] = a
       /\ \A q \in Requests \ {r} : answer'[q] = answer[q]
  BY <1>3, <1>8, <1>9
<1>12. /\ framing' \in [Requests -> Framings]
       /\ \A q \in Requests \ {r} : framing'[q] = framing[q]
  BY <1>3, <1>5
<1>13. Searched(r)'
  BY <1>1, <1>2, <1>4, <1>10 DEF Good, Searched, Searching, Forwarded, Answered
<1>14. Begun(r)' /\ Ruled(r)' /\ Sent(r)'
  BY <1>1, <1>2, <1>4, <1>8, <1>10, <1>11 DEF Good, Begun, Ruled, Sent, Answered
<1>15. QED
  BY <1>1, <1>10, <1>11, <1>12, <1>13, <1>14 DEF Good, Types, Untouched

\* The end of a body that was passed on: what the client can make of it follows from how
\* many bytes it was promised and got.
LEMMA StreamKeepsGood ==
  ASSUME Types, NEW r \in Requests, Good(r),
         BodyEnds(r) \/ BodyBreaks(r) \/ ClientGone(r)
  PROVE  Good(r)' /\ Types' /\ \A q \in Requests \ {r} : Untouched(q)
<1>1. UNCHANGED <<where, req, tier, framing, seen>> /\ pc[r] = "stream"
  BY DEF BodyEnds, BodyBreaks, ClientGone, cache
<1>2. /\ File(r)' = File(r) /\ Address(r)' = Address(r) /\ (Sized(r)' <=> Sized(r))
      /\ \A f : Cached(f)' <=> Cached(f)
  BY <1>1 DEF File, Address, Cached, InTier, Sized
<1>3. answer[r] \in Answer /\ framing[r] \in Framings
  BY DEF Types
<1>4. /\ answer[r].status \in {200, 404} /\ answer[r].logged = answer[r].status
      /\ answer[r].body = IF answer[r].status = 200 THEN "package" ELSE "page"
      /\ ~ answer[r].intact /\ answer[r].passed = 0 /\ answer[r].text = 0
  BY <1>1 DEF Good, Begun
<1>5. File(r) \in Files /\ Bytes[File(r)] \in Nat /\ PageBytes \in Nat /\ TextBytes \in Nat \ {0}
  BY <1>1, ServingAssumption DEF Good, Searched, Searching
<1>6. Whole(r) \in Nat /\ (answer[r].body = "package" => Whole(r) = Bytes[File(r)])
  BY <1>5 DEF Whole
<1>7. ASSUME NEW a \in Answer, Reply(r, a), a.status = answer[r].status, a.body = answer[r].body,
             a.intact /\ (Sized(r) => a.passed + a.text = Whole(r)) =>
               /\ a.logged = a.status \/ a.text > 0
               /\ \/ a.passed = Whole(r) /\ a.text = 0
                  \/ a.text > 0 /\ (framing[r] # "length" \/ a.passed + TextBytes = Whole(r))
                  \/ framing[r] = "close"
      PROVE  Good(r)' /\ Types' /\ \A q \in Requests \ {r} : Untouched(q)
  <2>1. /\ answer' \in [Requests -> Answer] /\ pc' \in [Requests -> Steps]
        /\ pc'[r] = "idle" /\ answer'[r] = a
        /\ \A q \in Requests \ {r} : answer'[q] = answer[q] /\ pc'[q] = pc[q]
    BY <1>7, ReplyGives
  <2>2. Searched(r)'
    BY <1>2, <1>4, <1>7, <2>1 DEF Searched, Searching, Forwarded
  <2>3. Begun(r)' /\ Ruled(r)'
    BY <1>2, <1>4, <1>7, <2>1 DEF Begun, Ruled
  <2>4. Sent(r)'
    <3>1. Whole(r)' = Whole(r)
      BY <1>2, <1>7, <2>1 DEF Whole
    <3>2. a.body # "text"
      BY <1>4, <1>7
    <3>3. Answered(r)' => a.intact /\ (Sized(r) => a.passed + a.text = Whole(r))
      BY <1>2, <2>1, <3>1, <3>2 DEF Answered
    <3>4. a.body = "package" => Whole(r) = Bytes[File(r)]
      BY <1>6, <1>7
    <3>5. QED
      BY <1>1, <1>2, <1>7, <2>1, <3>3, <3>4 DEF Sent
  <2>5. QED
    BY <1>1, <2>1, <2>2, <2>3, <2>4 DEF Good, Types, Untouched
<1>8. CASE BodyEnds(r)
  <2>1. PICK n \in 0..Whole(r) :
          /\ framing[r] = "close" \/ n = Whole(r)
          /\ Reply(r, [answer[r] EXCEPT !.passed = n, !.intact = TRUE])
    BY <1>8 DEF BodyEnds
  <2> DEFINE a == [answer[r] EXCEPT !.passed = n, !.intact = TRUE]
  <2>2. /\ a \in Answer /\ a.status = answer[r].status /\ a.body = answer[r].body
        /\ a.logged = a.status /\ a.passed = n /\ a.text = 0
    <3>1. n \in Nat
      BY <1>6
    <3>2. QED
      BY <1>3, <1>4, <3>1 DEF Answer
  <2>3. Reply(r, a)
    BY <2>1
  <2> HIDE DEF a
  <2>4. QED
    BY <1>7, <2>1, <2>2, <2>3
<1>9. CASE BodyBreaks(r)
  <2>1. PICK n \in 0..Whole(r) :
          /\ framing[r] = "length" => n < Whole(r)
          /\ Reply(r, [WriteHeader(answer[r], 502) EXCEPT
                         !.passed = n, !.text = IF Fits(r, n) THEN TextBytes ELSE 0,
                         !.intact = TRUE])
    BY <1>9 DEF BodyBreaks
  <2> DEFINE a == [WriteHeader(answer[r], 502) EXCEPT
                     !.passed = n, !.text = IF Fits(r, n) THEN TextBytes ELSE 0, !.intact = TRUE]
  <2>2. /\ a \in Answer /\ a.status = answer[r].status /\ a.body = answer[r].body
        /\ a.passed = n /\ a.text = IF Fits(r, n) THEN TextBytes ELSE 0
    <3> DEFINE h == WriteHeader(answer[r], 502)
    <3>1. h \in Answer /\ h.status = answer[r].status /\ h.body = answer[r].body
      BY <1>3, <1>4, HeaderGives DEF Codes, Unset
    <3>2. n \in Nat /\ (IF Fits(r, n) THEN TextBytes ELSE 0) \in {0, TextBytes}
      BY <1>6
    <3>3. a = [h EXCEPT !.passed = n, !.text = IF Fits(r, n) THEN TextBytes ELSE 0,
                        !.intact = TRUE]
      OBVIOUS
    <3> HIDE DEF h, a
    <3>4. QED
      BY <3>1, <3>2, <3>3 DEF Answer
  <2>3. Reply(r, a)
    BY <2>1
  <2> HIDE DEF a
  <2>4. CASE Fits(r, n)
    <3>1. a.text = TextBytes /\ a.text > 0
      BY <1>5, <2>2, <2>4
    <3>2. Sized(r) <=> framing[r] = "length"
      BY DEF Sized
    <3>3. QED
      BY <1>7, <2>2, <2>3, <3>1, <3>2
  <2>5. CASE ~ Fits(r, n)
    <3>1. Sized(r) /\ a.text = 0 /\ a.passed + a.text # Whole(r)
      BY <1>6, <2>1, <2>2, <2>5 DEF Fits, Sized
    <3>2. QED
      BY <1>7, <2>2, <2>3, <3>1
  <2>6. QED
    BY <2>4, <2>5
<1>10. CASE ClientGone(r)
  <2> DEFINE a == WriteHeader(answer[r], 502)
  <2>1. a \in Answer /\ a.status = answer[r].status /\ a.body = answer[r].body /\ ~ a.intact
    BY <1>3, <1>4, HeaderGives DEF Codes, Unset
  <2>2. Reply(r, a)
    BY <1>10 DEF ClientGone
  <2> HIDE DEF a
  <2>3. QED
    BY <1>7, <2>1, <2>2
<1>11. QED
  BY <1>8, <1>9, <1>10

LEMMA HandleKeepsGood ==
  ASSUME Types, NEW r \in Requests, Good(r), Handle(r)
  PROVE  Good(r)' /\ Types' /\ where' = where /\ \A q \in Requests \ {r} : Untouched(q)
<1>1. where' = where
  BY DEF Handle, Miss, Refuse, Search, Found, NotHere, Open, Redirect, Proxy, NoUpstream,
         Header, BodyEnds, BodyBreaks, ClientGone, cache
<1>2. QED
  BY <1>1, WalkKeepsGood, AnswerKeepsGood, HeaderKeepsGood, StreamKeepsGood DEF Handle, Miss

\* A request for a file or for the index begins, or one for the index ends.
LEMMA BrowseKeepsGood ==
  ASSUME Types, NEW r \in Requests, Good(r), AskFile(r) \/ Ask(r) \/ Browse(r)
  PROVE  Good(r)' /\ Types' /\ where' = where /\ \A q \in Requests \ {r} : Untouched(q)
<1>1. where' = where
  BY DEF AskFile, Arrive, Ask, Browse, RefuseRoot, SendOn, ServePage, Ends, cache
<1>2. /\ pc \in [Requests -> Steps] /\ req \in [Requests -> Incoming \cup {NoRequest}]
      /\ tier \in [Requests -> 1..Len(Tiers)] /\ answer \in [Requests -> Answer]
      /\ framing \in [Requests -> Framings]
      /\ seen \in [Requests -> SUBSET Events]
  BY DEF Types
<1>3. CASE AskFile(r) \/ Ask(r)
  <2>1. PICK step \in {"check", "dispatch"}, q \in Incoming \cup {NoRequest} :
          /\ pc' = [pc EXCEPT ![r] = step] /\ req' = [req EXCEPT ![r] = q]
    BY <1>3 DEF AskFile, Arrive, Ask, Go
  <2>2. /\ answer' = [answer EXCEPT ![r] = NoAnswer] /\ tier' = [tier EXCEPT ![r] = 1]
        /\ seen' = [seen EXCEPT ![r] = {}] /\ framing' = [framing EXCEPT ![r] = "length"]
    BY <1>3 DEF AskFile, Arrive, Ask
  <2>3. NoAnswer \in Answer /\ 1 \in 1..Len(Tiers) /\ {"check", "dispatch"} \subseteq Steps
    <3>1. Tiers \in Seq(Dirs) /\ Tiers # << >>
      BY ServingAssumption
    <3>2. 1 \in 1..Len(Tiers)
      BY <3>1
    <3>3. QED
      BY <3>2 DEF NoAnswer, Answer, Codes, Bodies, Steps
  <2>4. /\ pc'[r] \in {"check", "dispatch"} /\ answer'[r] = NoAnswer /\ tier'[r] = 1
        /\ pc' \in [Requests -> Steps] /\ req' \in [Requests -> Incoming \cup {NoRequest}]
        /\ answer' \in [Requests -> Answer] /\ tier' \in [Requests -> 1..Len(Tiers)]
    BY <1>2, <2>1, <2>2, <2>3
  <2>5. /\ seen' \in [Requests -> SUBSET Events]
        /\ framing' \in [Requests -> Framings]
    BY <1>2, <2>2 DEF Framings
  <2>6. \A p \in Requests \ {r} : Untouched(p)
    BY <1>2, <2>1, <2>2 DEF Untouched
  <2>7. QED
    BY <1>1, <2>4, <2>5, <2>6, FreshIsGood DEF Types
<1>4. CASE SendOn(r)
  <2>1. UNCHANGED <<pc, req, tier, answer, framing, seen>>
    BY <1>4 DEF SendOn
  <2>2. Types' /\ \A q \in Requests : Untouched(q)
    BY <1>2, <2>1 DEF Types, Untouched
  <2>3. QED
    BY <1>1, <2>2, UntouchedStaysGood
<1>5. CASE RefuseRoot(r) \/ ServePage(r)
  <2>1. /\ pc[r] = "dispatch" /\ pc' = [pc EXCEPT ![r] = "idle"]
        /\ UNCHANGED <<req, tier, answer, framing, seen>>
    BY <1>5 DEF RefuseRoot, ServePage, Ends, Go
  <2>2. /\ pc'[r] = "idle" /\ pc' \in [Requests -> Steps]
        /\ \A q \in Requests \ {r} : pc'[q] = pc[q]
    BY <1>2, <2>1 DEF Steps
  <2>3. ~ answer'[r].intact /\ answer'[r].passed = 0 /\ answer'[r].text = 0
    BY <2>1 DEF Good, Begun
  <2>4. ~ Answered(r)' /\ ~ Forwarded(r)' /\ ~ Searching(r)'
    BY <2>2, <2>3 DEF Answered, Forwarded, Searching
  <2>5. Good(r)'
    BY <2>2, <2>4 DEF Good, Searched, Begun, Ruled, Sent
  <2>6. QED
    BY <1>1, <1>2, <2>1, <2>2, <2>5 DEF Types, Untouched
<1>6. QED
  BY <1>3, <1>4, <1>5 DEF Browse

LEMMA InitGood ==
  ASSUME Init
  PROVE  Inv
<1>1. /\ pc = [r \in Requests |-> "idle"] /\ req = [r \in Requests |-> NoRequest]
      /\ tier = [r \in Requests |-> 1] /\ answer = [r \in Requests |-> NoAnswer]
      /\ framing = [r \in Requests |-> "length"]
      /\ seen = [r \in Requests |-> {}]
  BY DEF Init, ServingInit
<1>2. NoAnswer \in Answer /\ NoAnswer.intact = FALSE /\ "idle" \in Steps
  BY DEF NoAnswer, Answer, Codes, Bodies, Steps
<1>3. 1 \in 1..Len(Tiers)
  <2>1. Tiers \in Seq(Dirs) /\ Tiers # << >>
    BY ServingAssumption
  <2>2. QED
    BY <2>1
<1>4. Types
  BY <1>1, <1>2, <1>3 DEF Types, Framings
<1>5. ASSUME NEW r \in Requests
      PROVE  Good(r)
  <2>1. pc[r] = "idle" /\ ~ answer[r].intact
    BY <1>1, <1>2
  <2>2. ~ Answered(r) /\ ~ Forwarded(r) /\ ~ Searching(r)
    BY <2>1 DEF Answered, Forwarded, Searching
  <2>3. QED
    BY <2>1, <2>2 DEF Good, Searched, Begun, Ruled, Sent
<1>6. QED
  BY <1>4, <1>5 DEF Inv

LEMMA NextKeepsGood ==
  ASSUME Inv, [Next]_vars
  PROVE  Inv'
<1>1. Types /\ \A r \in Requests : Good(r)
  BY DEF Inv
<1>2. CASE StoreStep
  <2>1. Types'
    <3>1. UNCHANGED handlers
      BY <1>2 DEF StoreStep
    <3>2. seen' = [r \in Requests |-> seen[r] \cup Noted(r)]
      BY <1>2 DEF StoreStep
    <3>3. \A r \in Requests : Noted(r) \subseteq Events
      BY DEF Noted
    <3>4. seen' \in [Requests -> SUBSET Events]
      BY <1>1, <3>2, <3>3 DEF Types
    <3>5. QED
      BY <1>1, <3>1, <3>4 DEF Types, handlers
  <2>2. QED
    BY <1>1, <1>2, <2>1, StoreKeepsGood DEF Inv
<1>3. ASSUME NEW r \in Requests, AskFile(r) \/ Handle(r) \/ Ask(r) \/ Browse(r)
      PROVE  Inv'
  <2>1. Good(r)' /\ Types' /\ where' = where /\ \A q \in Requests \ {r} : Untouched(q)
    BY <1>1, <1>3, BrowseKeepsGood, HandleKeepsGood
  <2>2. ASSUME NEW q \in Requests
        PROVE  Good(q)'
    BY <1>1, <2>1, UntouchedStaysGood
  <2>3. QED
    BY <2>1, <2>2 DEF Inv
<1>4. CASE UNCHANGED <<where, pc, req, tier, answer, framing, seen>>
  <2>1. Types' /\ \A r \in Requests : Untouched(r)
    BY <1>1, <1>4 DEF Types, Untouched
  <2>2. QED
    BY <1>1, <1>4, <2>1, UntouchedStaysGood DEF Inv
<1>5. \/ StoreStep
      \/ \E r \in Requests : AskFile(r) \/ Handle(r) \/ Ask(r) \/ Browse(r)
      \/ UNCHANGED <<where, pc, req, tier, answer, framing, seen>>
  BY DEF Next, Serve, Publish, Withdraw, vars, cache, handlers
<1>6. QED
  BY <1>2, <1>3, <1>4, <1>5

\* Inv holds throughout.
THEOREM ServingInvariance == Spec => []Inv
<1>1. Init => Inv
  BY InitGood
<1>2. Inv /\ [Next]_vars => Inv'
  BY NextKeepsGood
<1>3. QED
  BY <1>1, <1>2, PTL DEF Spec
-----------------------------------------------------------------------------
\* However many tiers there are, and whatever the sync process does between two looks of a
\* handler, a request for a cached file is sent on or refused only for the reasons that
\* the moves of the cache give.
THEOREM MissesAreExplained == Spec => []MissExplained
<1>1. Inv => MissExplained
  BY DEF Inv, Good, Searched, MissExplained
<1>2. QED
  BY <1>1, ServingInvariance, PTL

\* The log has the status that was sent, unless a proxied body broke off.
THEOREM StatusIsLogged == Spec => []LoggedAsSent
<1>1. Inv => LoggedAsSent
  BY DEF Inv, Good, Sent, LoggedAsSent
<1>2. QED
  BY <1>1, ServingInvariance, PTL

\* Whatever the lengths of packages and of the error text: a client that takes an answer
\* for a package has it, except for the three cases that KnownIsWhole names.
THEOREM WholeIsKnown == Spec => []KnownIsWhole
<1>1. Inv => KnownIsWhole
  BY DEF Inv, Good, Sent, KnownIsWhole
<1>2. QED
  BY <1>1, ServingInvariance, PTL

\* If the requests of clients outside the trusted networks come as such proxies send them,
\* the rules that decide what is done about a miss are those for the client.
THEOREM RulesAreForClient ==
  ASSUME \A q \in Incoming :
           q.client \in Addrs \ Trusted =>
             \E claimed \in Seq(Texts), via \in Seq(Trusted), replaces \in BOOLEAN :
               /\ q.peer = PeerOf(q.client, via)
               /\ q.line = LineOf(q.client, claimed, via, replaces)
  PROVE  Spec => []RulesForClient
<1>1. ASSUME Inv, NEW r \in Requests, req[r].client \in Addrs \ Trusted
      PROVE  /\ pc[r] \in {"proxy", "stream"} => Mode(req[r].client) = "proxy"
             /\ Answered(r) /\ answer[r].status = 302 => Mode(req[r].client) # "proxy"
  <2>1. Ruled(r) /\ req[r] \in Incoming \cup {NoRequest}
    BY <1>1 DEF Inv, Good, Types
  <2>2. req[r] # NoRequest
    BY <1>1, AddressAssumption DEF NoRequest
  <2>3. req[r] \in Incoming /\ req[r].realIP \in Texts
    BY <2>1, <2>2, ServingAssumption
  <2>4. PICK claimed \in Seq(Texts), via \in Seq(Trusted), replaces \in BOOLEAN :
          /\ req[r].peer = PeerOf(req[r].client, via)
          /\ req[r].line = LineOf(req[r].client, claimed, via, replaces)
    BY <1>1, <2>3
  <2>5. Address(r) = req[r].client
    BY <1>1, <2>3, <2>4, ClientKnown DEF Address
  <2>6. QED
    BY <2>1, <2>5 DEF Ruled
<1>2. Inv => RulesForClient
  BY <1>1 DEF RulesForClient
<1>3. QED
  BY <1>2, ServingInvariance, PTL
-----------------------------------------------------------------------------
(***************************************************************************)
(* The index.  What a client has asked by is a spelling of its own, and    *)
(* after it, if the spelling was another and safe, the normalized name.    *)
(***************************************************************************)
Led(r) ==
  /\ pc[r] = "dispatch" => trail[r] # << >>
  /\ trail[r] # << >> =>
       /\ Head(trail[r]) \in Spellings
       /\ UrlSafe(Head(trail[r])) =>
            \/ trail[r] = <<Head(trail[r])>>
            \/ trail[r] = <<Head(trail[r]), NormalizeName(Head(trail[r]))>>
  /\ got[r].status = 200 =>
       /\ trail[r] # << >> /\ got[r].page = PageOf(ask[r])
       /\ UrlSafe(Head(trail[r])) => got[r].project = NormalizeName(Head(trail[r]))

IndexTypes ==
  /\ Store!TypeOK /\ written \in [Projects -> 0..Len(PageFiles)]
  /\ ask \in [Requests -> Asks] /\ got \in [Requests -> Results]
  /\ \A r \in Requests : trail[r] \in Seq(Spellings) /\ Len(trail[r]) <= MaxHops + 1
  /\ trail = [r \in Requests |-> trail[r]]

IndexInv == Types /\ IndexTypes /\ \A r \in Requests : Led(r)

\* By each of the names it goes by, the project has the same normalized one.
LEMMA LedFacts ==
  ASSUME NEW r \in Requests, Led(r), trail[r] # << >>, UrlSafe(Head(trail[r]))
  PROVE  LET s == Head(trail[r]) IN
           /\ s \in Spellings /\ s \in Seq(Chars)
           /\ NormalizeName(Name(r)) = NormalizeName(s)
           /\ \/ Len(trail[r]) = 1 /\ Name(r) = s /\ trail[r] = <<s>>
              \/ /\ Len(trail[r]) = 2 /\ Name(r) = NormalizeName(s)
                 /\ trail[r] = <<s, NormalizeName(s)>>
<1> DEFINE s == Head(trail[r])
<1>1. s \in Spellings /\ (trail[r] = <<s>> \/ trail[r] = <<s, NormalizeName(s)>>)
  BY DEF Led
<1> HIDE DEF s
<1>2. s \in Seq(Chars) /\ NormalizeName(NormalizeName(s)) = NormalizeName(s)
  BY <1>1, IndexAssumption, NormalizeTwice
<1>3. CASE trail[r] = <<s>>
  <2>1. Len(trail[r]) = 1 /\ Name(r) = s
    BY <1>3 DEF Name, Last
  <2> QED BY <1>1, <1>2, <1>3, <2>1 DEF s
<1>4. CASE trail[r] = <<s, NormalizeName(s)>>
  <2>1. Len(trail[r]) = 2 /\ Name(r) = NormalizeName(s)
    BY <1>4 DEF Name, Last
  <2> QED BY <1>1, <1>2, <1>4, <2>1 DEF s
<1> QED BY <1>1, <1>3, <1>4

\* The file of an answer is one of the pages.
LEMMA PageFacts ==
  /\ Range(PageFiles) = {".html", ".v1_html", ".v1_json", "document"} /\ Len(PageFiles) = 4
  /\ \A a \in Asks : PageOf(a) \in Range(PageFiles)
<1>1. DOMAIN PageFiles = {1, 2, 3, 4} /\ Len(PageFiles) = 4
  BY DEF PageFiles
<1>2. Range(PageFiles) = {".html", ".v1_html", ".v1_json", "document"}
  BY <1>1 DEF Range, PageFiles
<1> QED BY <1>1, <1>2 DEF PageOf, NegotiateSimpleFormat

\* What a step does not do to a request.
Unled(r) == pc'[r] = pc[r] /\ ask'[r] = ask[r] /\ trail'[r] = trail[r] /\ got'[r] = got[r]

LEMMA UnledStaysLed ==
  ASSUME NEW r \in Requests, Led(r), Unled(r) \/ (pc'[r] # "dispatch" /\ ask'[r] = ask[r]
                                                /\ trail'[r] = trail[r] /\ got'[r] = got[r])
  PROVE  Led(r)'
BY DEF Led, Unled, PageOf

\* The store.
LEMMA StoreTypes ==
  ASSUME Store!TypeOK, Store!Next
  PROVE  Store!TypeOK'
BY DEF Store!TypeOK, Store!Next, Store!Plan, Store!Place, Store!Move, Store!Drop, Store!Evict

\* A request for the index: the four things that happen to it.
LEMMA BrowseKeepsIndex ==
  ASSUME Types, IndexTypes, NEW r \in Requests, Led(r), Ask(r) \/ AskFile(r) \/ Browse(r)
  PROVE  /\ IndexTypes' /\ Led(r)'
         /\ \A q \in Requests \ {r} : Unled(q)
<1>1. /\ ask \in [Requests -> Asks] /\ got \in [Requests -> Results]
      /\ pc \in [Requests -> Steps] /\ DOMAIN trail = Requests
      /\ \A q \in Requests : trail[q] \in Seq(Spellings) /\ Len(trail[q]) <= MaxHops + 1
      /\ MaxHops \in Nat /\ Spellings \subseteq Seq(Chars)
  BY IndexAssumption DEF IndexTypes, Types
<1>2. Nothing \in Results /\ \A code \in {403, 404} : Failed(code) \in Results
                                                  /\ Failed(code).status = code
  BY PageFacts DEF Nothing, Failed, Results
<1>3. where' = where /\ doomed' = doomed /\ written' = written
  BY DEF Ask, AskFile, Arrive, Browse, RefuseRoot, SendOn, ServePage, Ends, cache
<1>4. Store!TypeOK' /\ written' \in [Projects -> 0..Len(PageFiles)]
  BY <1>3 DEF IndexTypes, Store!TypeOK
<1>5. CASE AskFile(r)
  <2>1. /\ ask' = [ask EXCEPT ![r] = NoAsk] /\ trail' = [trail EXCEPT ![r] = << >>]
        /\ got' = [got EXCEPT ![r] = Nothing] /\ pc' = [pc EXCEPT ![r] = "check"]
    BY <1>5 DEF AskFile, Arrive, Go
  <2>2. NoAsk \in Asks /\ Nothing.status = 0
    BY DEF NoAsk, Asks, Routes, Nothing
  <2>3. << >> \in Seq(Spellings) /\ Len(<< >>) = 0
    OBVIOUS
  <2>4. IndexTypes'
    <3>1. ask' \in [Requests -> Asks] /\ got' \in [Requests -> Results]
      BY <1>1, <1>2, <2>1, <2>2
    <3>4. trail' = [q \in Requests |-> trail'[q]]
      BY <1>1, <2>1
    <3>2. \A q \in Requests : trail'[q] = << >> \/ trail'[q] = trail[q]
      BY <1>1, <2>1
    <3>3. \A q \in Requests : trail'[q] \in Seq(Spellings)
                              /\ Len(trail'[q]) <= MaxHops + 1
      <4>1. 0 <= MaxHops + 1
        BY <1>1
      <4> QED BY <1>1, <2>3, <3>2, <4>1
    <3> QED BY <1>4, <3>1, <3>3, <3>4 DEF IndexTypes
  <2>5. Led(r)'
    BY <1>1, <2>1, <2>2 DEF Led
  <2> QED BY <1>1, <2>1, <2>4, <2>5 DEF Unled
<1>6. CASE Ask(r)
  <2>1. PICK a \in Asks, name \in Spellings :
          ask' = [ask EXCEPT ![r] = a] /\ trail' = [trail EXCEPT ![r] = <<name>>]
    BY <1>6 DEF Ask
  <2>2. got' = [got EXCEPT ![r] = Nothing] /\ pc' = [pc EXCEPT ![r] = "dispatch"]
    BY <1>6 DEF Ask, Go
  <2>3. Nothing.status = 0
    BY DEF Nothing
  <2>4. <<name>> \in Seq(Spellings) /\ Len(<<name>>) = 1 /\ <<name>> # << >>
    OBVIOUS
  <2>5. IndexTypes'
    <3>1. ask' \in [Requests -> Asks] /\ got' \in [Requests -> Results]
      BY <1>1, <1>2, <2>1, <2>2
    <3>4. trail' = [q \in Requests |-> trail'[q]]
      BY <1>1, <2>1
    <3>2. \A q \in Requests : trail'[q] = <<name>> \/ trail'[q] = trail[q]
      BY <1>1, <2>1
    <3>3. \A q \in Requests : trail'[q] \in Seq(Spellings)
                              /\ Len(trail'[q]) <= MaxHops + 1
      <4>1. 1 <= MaxHops + 1
        BY <1>1
      <4> QED BY <1>1, <2>4, <3>2, <4>1
    <3> QED BY <1>4, <3>1, <3>3, <3>4 DEF IndexTypes
  <2>6. Led(r)'
    BY <1>1, <2>1, <2>2, <2>3, <2>4 DEF Led
  <2> QED BY <1>1, <2>1, <2>2, <2>5, <2>6 DEF Unled
<1>7. CASE SendOn(r)
  <2>1. /\ pc[r] = "dispatch" /\ Len(trail[r]) <= MaxHops /\ trail[r] # << >>
        /\ Name(r) # << >> /\ Name(r) # NormalizeName(Name(r))
        /\ trail' = [trail EXCEPT ![r] = Append(trail[r], Followed(ask[r].route, NormalizeName(Name(r))))]
        /\ UNCHANGED <<pc, ask, got>>
    BY <1>7 DEF SendOn, Led
  <2> DEFINE next == Followed(ask[r].route, NormalizeName(Name(r)))
  <2>2. /\ trail[r] \in Seq(Spellings) /\ Name(r) \in Spellings /\ ask[r].route \in Routes
    <3>1. trail[r] \in Seq(Spellings) /\ ask[r] \in Asks
      BY <1>1
    <3>2. Name(r) \in Spellings
      BY <2>1, <3>1 DEF Name, Last
    <3> QED BY <3>1, <3>2 DEF Asks
  <2>3. next \in Spellings
    BY <2>2, IndexAssumption
  <2>4. trail'[r] = Append(trail[r], next)
    BY <1>1, <2>1
  <2> HIDE DEF next
  <2>5. /\ trail'[r] \in Seq(Spellings) /\ trail'[r] # << >>
        /\ Head(trail'[r]) = Head(trail[r]) /\ Len(trail'[r]) <= MaxHops + 1
    BY <1>1, <2>1, <2>2, <2>3, <2>4
  <2>6. ASSUME UrlSafe(Head(trail[r]))
        PROVE  trail'[r] = <<Head(trail[r]), NormalizeName(Head(trail[r]))>>
    <3> DEFINE s == Head(trail[r])
    <3>1. /\ s \in Spellings /\ s \in Seq(Chars)
          /\ \/ Name(r) = s /\ trail[r] = <<s>>
             \/ Name(r) = NormalizeName(s)
      BY <2>1, <2>6, LedFacts
    <3>2. NormalizeName(NormalizeName(s)) = NormalizeName(s)
      BY <3>1, NormalizeTwice
    <3>3. Name(r) = s /\ trail[r] = <<s>>
      BY <2>1, <3>1, <3>2
    <3>4. next = NormalizeName(s)
      BY <2>2, <2>6, <3>1, <3>3, IndexAssumption DEF next
    <3> QED BY <2>4, <3>3, <3>4, AppendToOne
  <2>7. \A q \in Requests \ {r} : trail'[q] = trail[q]
    BY <1>1, <2>1
  <2>8. IndexTypes'
    <3>1. \A q \in Requests : trail'[q] \in Seq(Spellings)
                              /\ Len(trail'[q]) <= MaxHops + 1
      BY <1>1, <2>5, <2>7
    <3>2. trail' = [q \in Requests |-> trail'[q]]
      BY <1>1, <2>1
    <3> QED BY <1>1, <1>4, <2>1, <3>1, <3>2 DEF IndexTypes
  <2>9. Led(r)'
    <3>1. got'[r] = got[r] /\ ask'[r] = ask[r] /\ pc'[r] = pc[r] /\ trail[r] # << >>
      BY <2>1
    <3>2. (UrlSafe(Head(trail[r])))' <=> UrlSafe(Head(trail[r]))
      BY <2>5 DEF UrlSafe
    <3>3. UrlSafe(Head(trail[r])) =>
            trail'[r] = <<Head(trail'[r]), NormalizeName(Head(trail'[r]))>>
      BY <2>5, <2>6
    <3> QED BY <2>5, <3>1, <3>2, <3>3 DEF Led, PageOf
  <2> QED BY <2>1, <2>7, <2>8, <2>9 DEF Unled
<1>8. ASSUME NEW result \in Results, Ends(r, result), pc[r] = "dispatch",
             result.status = 200 =>
               /\ result.page = PageOf(ask[r])
               /\ UrlSafe(Head(trail[r])) => result.project = NormalizeName(Name(r))
      PROVE  IndexTypes' /\ Led(r)' /\ \A q \in Requests \ {r} : Unled(q)
  <2>1. /\ got' = [got EXCEPT ![r] = result] /\ pc' = [pc EXCEPT ![r] = "idle"]
        /\ UNCHANGED <<ask, trail>>
    BY <1>8 DEF Ends, Go
  <2>2. trail[r] # << >>
    BY <1>8 DEF Led
  <2>3. UrlSafe(Head(trail[r])) => NormalizeName(Name(r)) = NormalizeName(Head(trail[r]))
    BY <2>2, LedFacts
  <2>4. IndexTypes'
    BY <1>1, <1>4, <2>1 DEF IndexTypes
  <2>5. got'[r] = result /\ pc'[r] = "idle"
    BY <1>1, <2>1
  <2>6. Led(r)'
    BY <1>8, <2>1, <2>2, <2>3, <2>5 DEF Led, PageOf, UrlSafe
  <2> QED BY <1>1, <2>1, <2>4, <2>6 DEF Unled
<1>9. CASE RefuseRoot(r)
  <2>1. PICK code \in {403, 404} : Ends(r, Failed(code))
    BY <1>9 DEF RefuseRoot
  <2>2. pc[r] = "dispatch"
    BY <1>9 DEF RefuseRoot
  <2>3. Failed(code) \in Results /\ Failed(code).status # 200
    BY <1>2
  <2> QED BY <1>8, <2>1, <2>2, <2>3
<1>10. CASE ServePage(r)
  <2>1. pc[r] = "dispatch" /\ Name(r) # << >> /\ Name(r) = NormalizeName(Name(r))
    BY <1>10 DEF ServePage
  <2>2. CASE Ends(r, Failed(404))
    <3>1. Failed(404) \in Results /\ Failed(404).status # 200
      BY <1>2
    <3> QED BY <1>8, <2>1, <2>2, <3>1
  <2>3. CASE Ends(r, [status |-> 200, project |-> Name(r), page |-> PageOf(ask[r])])
    <3> DEFINE result == [status |-> 200, project |-> Name(r), page |-> PageOf(ask[r])]
    <3>3. Name(r) \in Projects \/ Ends(r, Failed(404))
      BY <1>10, <2>1 DEF ServePage, OnDisk
    <3>7. CASE Ends(r, Failed(404))
      BY <1>2, <1>8, <2>1, <3>7
    <3>8. SUFFICES ASSUME Name(r) \in Projects PROVE IndexTypes' /\ Led(r)' /\ \A q \in Requests \ {r} : Unled(q)
      BY <3>3, <3>7
    <3>4. PageOf(ask[r]) \in Range(PageFiles)
      BY <1>1, PageFacts
    <3>5. result \in Results /\ result.status = 200 /\ result.project = NormalizeName(Name(r))
          /\ result.page = PageOf(ask[r])
      BY <2>1, <3>8, <3>4 DEF Results
    <3> HIDE DEF result
    <3>6. Ends(r, result)
      BY <2>3 DEF result
    <3> QED BY <1>8, <2>1, <3>5, <3>6
  <2> QED BY <1>10, <2>2, <2>3 DEF ServePage
<1> QED BY <1>5, <1>6, <1>7, <1>9, <1>10 DEF Browse

LEMMA IndexStep ==
  ASSUME IndexInv, Types', [Next]_vars
  PROVE  IndexInv'
<1>1. Types /\ IndexTypes /\ \A r \in Requests : Led(r)
  BY DEF IndexInv
<1>2. CASE StoreStep /\ UNCHANGED <<written, browsing>>
  <2>1. UNCHANGED <<pc, written, ask, trail, got>> /\ Store!Next
    BY <1>2 DEF StoreStep, handlers, browsing
  <2>2. Store!TypeOK'
    BY <1>1, <2>1, StoreTypes DEF IndexTypes
  <2>3. IndexTypes' /\ \A r \in Requests : Led(r)'
    BY <1>1, <2>1, <2>2, UnledStaysLed DEF IndexTypes, Unled
  <2> QED BY <2>3 DEF IndexInv
<1>3. ASSUME NEW r \in Requests, AskFile(r) \/ Ask(r) \/ Browse(r) PROVE IndexInv'
  <2>1. IndexTypes' /\ Led(r)' /\ \A q \in Requests \ {r} : Unled(q)
    BY <1>1, <1>3, BrowseKeepsIndex
  <2> QED BY <1>1, <2>1, UnledStaysLed DEF IndexInv
<1>4. ASSUME NEW r \in Requests, Serve(r) PROVE IndexInv'
  <2>1. UNCHANGED <<where, doomed, written, ask, trail, got>>
    BY <1>4 DEF Serve, browsing, Handle, Miss, Refuse, Search, Found, NotHere, Open, Redirect,
                Proxy, NoUpstream, Header, BodyEnds, BodyBreaks, ClientGone, cache
  <2>2. pc'[r] # "dispatch" /\ \A q \in Requests \ {r} : pc'[q] = pc[q]
    <3>1. (pc' = pc /\ pc[r] = "scan") \/ \E step \in Steps \ {"dispatch"} : pc' = [pc EXCEPT ![r] = step]
      <4>1. CASE BodyEnds(r) \/ BodyBreaks(r) \/ ClientGone(r)
        BY <4>1 DEF BodyEnds, BodyBreaks, ClientGone, Reply, Go, Steps
      <4>2. CASE Refuse(r) \/ Open(r) \/ Redirect(r) \/ NoUpstream(r)
        BY <4>2 DEF Refuse, Open, Redirect, NoUpstream, Plain, Reply, Go, Steps
      <4>3. CASE Search(r) \/ Found(r) \/ NotHere(r) \/ Proxy(r) \/ Header(r)
        BY <4>3 DEF Search, Found, NotHere, Proxy, Header, Go, Steps
      <4> QED BY <1>4, <4>1, <4>2, <4>3 DEF Serve, Handle, Miss
    <3> QED BY <1>1, <3>1 DEF Types
  <2>3. IndexTypes'
    BY <1>1, <2>1 DEF IndexTypes, Store!TypeOK
  <2>4. ASSUME NEW q \in Requests PROVE Led(q)'
    BY <1>1, <2>1, <2>2, UnledStaysLed DEF Unled
  <2> QED BY <2>3, <2>4 DEF IndexInv
<1>5. CASE \E p \in Projects : Publish(p) \/ Withdraw(p)
  <2>1. UNCHANGED <<where, doomed, pc, ask, trail, got>>
    BY <1>5 DEF Publish, Withdraw, cache, handlers, browsing
  <2>2. written' \in [Projects -> 0..Len(PageFiles)]
    BY <1>1, <1>5, PageFacts DEF Publish, Withdraw, IndexTypes
  <2>3. IndexTypes' /\ \A r \in Requests : Led(r)'
    BY <1>1, <2>1, <2>2, UnledStaysLed DEF IndexTypes, Unled, Store!TypeOK
  <2> QED BY <2>3 DEF IndexInv
<1>6. CASE UNCHANGED vars
  <2>1. UNCHANGED <<where, doomed, pc, written, ask, trail, got>>
    BY <1>6 DEF vars
  <2>2. IndexTypes' /\ \A r \in Requests : Led(r)'
    BY <1>1, <2>1, UnledStaysLed DEF IndexTypes, Unled, Store!TypeOK
  <2> QED BY <2>2 DEF IndexInv
<1> QED BY <1>2, <1>3, <1>4, <1>5, <1>6 DEF Next

THEOREM IndexInvariance == Spec => []IndexInv
<1>1. Init => IndexInv
  <2> SUFFICES ASSUME Init PROVE IndexInv
    OBVIOUS
  <2>1. Types
    BY InitGood DEF Inv
  <2>2. /\ ask = [r \in Requests |-> NoAsk] /\ trail = [r \in Requests |-> << >>]
        /\ got = [r \in Requests |-> Nothing] /\ pc = [r \in Requests |-> "idle"]
        /\ written \in [Projects -> {0, Len(PageFiles)}]
    BY DEF Init, ServingInit
  <2>3. Store!TypeOK
    BY DEF Init, ServingInit, Store!Init, Store!TypeOK
  <2>4. NoAsk \in Asks /\ Nothing \in Results /\ Nothing.status = 0
    BY PageFacts DEF NoAsk, Asks, Routes, Nothing, Results
  <2>5. << >> \in Seq(Spellings) /\ Len(<< >>) = 0 /\ MaxHops \in Nat
    BY IndexAssumption
  <2>6. IndexTypes
    BY <2>2, <2>3, <2>4, <2>5, PageFacts DEF IndexTypes
  <2>7. \A r \in Requests : Led(r)
    BY <2>2, <2>4 DEF Led
  <2> QED BY <2>1, <2>6, <2>7 DEF IndexInv
<1>2. Inv => Types
  BY DEF Inv
<1>3. IndexInv /\ Types' /\ [Next]_vars => IndexInv'
  BY IndexStep
<1> QED BY <1>1, <1>2, <1>3, ServingInvariance, PTL DEF Spec

\* The types of serving, of files and of pages.
THEOREM ServingTypes == Spec => []TypeOK
<1>1. IndexInv => TypeOK
  BY DEF IndexInv, IndexTypes, Types, TypeOK, ServingTypeOK
<1> QED BY <1>1, IndexInvariance, PTL

\* However it is spelled, in whatever characters that are safe in a URL, one redirect at most
\* leads to the project that PEP 503 means.
THEOREM RedirectOnce == Spec => []OneRedirect
<1>1. ASSUME IndexInv, NEW r \in Requests
      PROVE  /\ got[r].status = 200 /\ "json" \in ask[r].accepts /\ ask[r].route = "simple"
                  => got[r].page = ".v1_json"
             /\ trail[r] # << >> /\ UrlSafe(Head(trail[r])) =>
                  /\ Len(trail[r]) <= 2
                  /\ got[r].status = 200 => got[r].project = NormalForm(Head(trail[r]))
  <2>1. Led(r)
    BY <1>1 DEF IndexInv
  <2>2. CASE trail[r] = << >>
    BY <2>1, <2>2 DEF Led
  <2>3. CASE trail[r] # << >>
    <3>1. ASSUME UrlSafe(Head(trail[r]))
          PROVE  /\ Len(trail[r]) <= 2
                 /\ got[r].status = 200 => got[r].project = NormalForm(Head(trail[r]))
      <4>1. /\ Head(trail[r]) \in Seq(Chars)
            /\ Len(trail[r]) = 1 \/ Len(trail[r]) = 2
        BY <2>3, <2>1, <3>1, LedFacts
      <4>2. NormalizeName(Head(trail[r])) = NormalForm(Head(trail[r]))
        BY <4>1, NamesAreNormalized
      <4>3. Len(trail[r]) <= 2
        <5>1. CASE Len(trail[r]) = 1
          BY <5>1
        <5>2. CASE Len(trail[r]) = 2
          BY <5>2
        <5> QED BY <4>1, <5>1, <5>2
      <4>4. got[r].status = 200 => got[r].project = NormalizeName(Head(trail[r]))
        BY <2>1, <3>1 DEF Led
      <4> QED BY <4>2, <4>3, <4>4
    <3>3. got[r].status = 200 => got[r].page = PageOf(ask[r])
      BY <2>1 DEF Led
    <3>4. "json" \in ask[r].accepts /\ ask[r].route = "simple" => PageOf(ask[r]) = ".v1_json"
      BY DEF PageOf, NegotiateSimpleFormat
    <3> QED BY <3>1, <3>3, <3>4
  <2> QED BY <2>2, <2>3
<1>2. IndexInv => OneRedirect
  BY <1>1 DEF OneRedirect
<1> QED BY <1>2, IndexInvariance, PTL
=============================================================================
