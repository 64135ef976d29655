------------------------- MODULE ServeProcessProofs -------------------------
(***************************************************************************)
(* Theorems about ServeProcess, for every set of requests, size of the     *)
(* buffer and number of files and faults.                                  *)
(*                                                                         *)
(* What the buffer still owes the disk is in Ledger: as long as bufio has  *)
(* seen no error, the lines handed over are what is on disk and what is in *)
(* the buffer; after an error the disk keeps a beginning of them, and      *)
(* nothing is written any more.                                            *)
(***************************************************************************)
EXTENDS ServeProcess, SequenceTheorems, TLAPS

Ledger ==
  /\ ~ err => handed = out \o buf
  /\ \E s \in Seq(Piece) : handed = out \o s

Flows ==
  /\ handed \in Seq(Piece) /\ out \in Seq(Piece) /\ buf \in Seq(Piece)
  /\ Len(buf) <= BufSize /\ err \in BOOLEAN

LEMMA LineIsSeq ==
  ASSUME NEW r \in Requests
  PROVE  /\ Line(r) \in Seq(Piece) /\ Len(Line(r)) = 2
         /\ Line(r)[2] = <<r, "newline">>
BY DEF Line, Piece

LEMMA Associative ==
  \A s, t, u \in Seq(Piece) : (s \o t) \o u = s \o (t \o u)
BY ConcatAssociative

\* A sequence is its beginning and the rest.
LEMMA CutInTwo ==
  ASSUME NEW s \in Seq(Piece), NEW n \in 0..Len(s)
  PROVE  /\ SubSeq(s, 1, n) \in Seq(Piece) /\ SubSeq(s, n + 1, Len(s)) \in Seq(Piece)
         /\ Len(SubSeq(s, 1, n)) = n /\ Len(SubSeq(s, n + 1, Len(s))) = Len(s) - n
         /\ s = SubSeq(s, 1, n) \o SubSeq(s, n + 1, Len(s))
<1>0. Len(s) \in Nat /\ n \in Nat /\ \A i \in 1..Len(s) : s[i] \in Piece
  OBVIOUS
<1>1. SubSeq(s, 1, n) \in Seq(Piece) /\ Len(SubSeq(s, 1, n)) = n
  <2>1. \A i \in 1..n : s[i] \in Piece
    BY <1>0
  <2>2. n \in Int /\ 1 \in Int
    BY <1>0
  <2>3. QED
    BY <1>0, <2>1, <2>2, SubSeqProperties
<1>2. SubSeq(s, n + 1, Len(s)) \in Seq(Piece) /\ Len(SubSeq(s, n + 1, Len(s))) = Len(s) - n
  <2>1. \A i \in (n + 1)..Len(s) : s[i] \in Piece
    BY <1>0
  <2>2. n + 1 \in Int /\ Len(s) \in Int
    BY <1>0
  <2>3. QED
    BY <1>0, <2>1, <2>2, SubSeqProperties
<1>3. SubSeq(s, 1, n) \o SubSeq(s, n + 1, Len(s)) = SubSeq(s, 1, Len(s))
  <2>1. 1 \in 1..(Len(s) + 1) /\ n \in (1 - 1)..Len(s) /\ Len(s) \in n..Len(s)
    BY <1>0
  <2>2. QED
    BY <2>1, ConcatAdjacentSubSeq
<1>4. QED
  BY <1>1, <1>2, <1>3, SubSeqFull

\* Writing `full` out, with or without an error, keeps the ledger, if `full` and `rest` are
\* what was to be written.
LEMMA WriteKeepsLedger ==
  ASSUME Flows, NEW full \in Seq(Piece), NEW rest \in Seq(Piece),
         Len(full) <= BufSize, Len(rest) <= BufSize, full # << >>,
         handed' = out \o (full \o rest),
         Written(full, rest) \/ WriteFails(full)
  PROVE  Flows' /\ Ledger' /\ Len(out) <= Len(out')
<1>1. /\ out \in Seq(Piece) /\ full \o rest \in Seq(Piece)
      /\ handed' \in Seq(Piece)
  BY ConcatProperties DEF Flows
<1>2. CASE Written(full, rest)
  <2>1. out' = out \o full /\ buf' = rest /\ err' = FALSE
    BY <1>2 DEF Written
  <2>2. out' \in Seq(Piece) /\ Len(out') = Len(out) + Len(full)
    BY <1>1, <2>1, ConcatProperties
  <2>3. handed' = out' \o rest
    BY <1>1, <2>1, ConcatAssociative
  <2>4. Flows'
    BY <1>1, <2>1, <2>2 DEF Flows
  <2>5. Ledger'
    BY <2>1, <2>3 DEF Ledger
  <2>6. Len(out) <= Len(out')
    BY <1>1, <2>2
  <2>7. QED
    BY <2>4, <2>5, <2>6
<1>3. CASE WriteFails(full)
  <2>1. PICK n \in 0..(Len(full) - 1) :
          /\ out' = out \o SubSeq(full, 1, n)
          /\ buf' = SubSeq(full, n + 1, Len(full))
    BY <1>3 DEF WriteFails
  <2>2. err' = TRUE
    BY <1>3 DEF WriteFails
  <2>3. n \in 0..Len(full) /\ Len(full) \in Nat
    OBVIOUS
  <2>4. PICK a \in Seq(Piece), b \in Seq(Piece) :
          /\ out' = out \o a /\ buf' = b
          /\ Len(a) = n /\ Len(b) = Len(full) - n /\ full = a \o b
    <3>1. /\ SubSeq(full, 1, n) \in Seq(Piece)
          /\ SubSeq(full, n + 1, Len(full)) \in Seq(Piece)
          /\ Len(SubSeq(full, 1, n)) = n /\ Len(SubSeq(full, n + 1, Len(full))) = Len(full) - n
          /\ full = SubSeq(full, 1, n) \o SubSeq(full, n + 1, Len(full))
      BY <2>3, CutInTwo
    <3>2. QED
      BY <2>1, <3>1, Zenon
  <2>5. out' \in Seq(Piece) /\ Len(out') = Len(out) + n
    BY <1>1, <2>4, ConcatProperties
  <2>6. handed' = out' \o (b \o rest) /\ b \o rest \in Seq(Piece)
    <3>1. (a \o b) \o rest = a \o (b \o rest)
      BY Associative, Zenon
    <3>2. b \o rest \in Seq(Piece)
      BY <2>4, ConcatProperties
    <3>3. (out \o a) \o (b \o rest) = out \o (a \o (b \o rest))
      <4>1. out \in Seq(Piece)
        BY <1>1
      <4>2. \A u \in Seq(Piece) : (out \o a) \o u = out \o (a \o u)
        BY <4>1, Associative, Zenon
      <4>3. QED
        BY <3>2, <4>2, Zenon
    <3>4. QED
      BY <2>4, <3>1, <3>2, <3>3
  <2>7. Len(buf') <= BufSize
    BY <2>3, <2>4, LoggerAssumption
  <2>8. Flows'
    BY <1>1, <2>2, <2>4, <2>5, <2>7 DEF Flows
  <2>9. Len(out) <= Len(out')
    BY <1>1, <2>3, <2>5
  <2>10. QED
    BY <2>2, <2>6, <2>8, <2>9 DEF Ledger
<1>4. QED
  BY <1>2, <1>3

\* Nothing happens to the log.
LEMMA NothingKeepsLedger ==
  ASSUME Flows, Ledger, UNCHANGED <<handed, out, buf, err>>
  PROVE  Flows' /\ Ledger' /\ Len(out) <= Len(out')
<1>1. Len(out) \in Nat
  BY DEF Flows
<1>2. handed' = handed /\ out' = out /\ buf' = buf /\ err' = err
  OBVIOUS
<1>3. Flows'
  BY <1>2 DEF Flows
<1>4. Ledger'
  BY <1>2 DEF Ledger
<1>5. QED
  BY <1>1, <1>2, <1>3, <1>4

\* A flush of the buffer.
LEMMA FlushKeepsLedger ==
  ASSUME Flows, Ledger, ~ err, buf # << >>, handed' = handed,
         Written(buf, << >>) \/ WriteFails(buf)
  PROVE  Flows' /\ Ledger' /\ Len(out) <= Len(out')
<1>1. buf \in Seq(Piece) /\ << >> \in Seq(Piece) /\ Len(buf) <= BufSize /\ Len(<< >>) <= BufSize
  BY LoggerAssumption DEF Flows
<1>2. handed' = out \o (buf \o << >>)
  BY <1>1, ConcatEmptySeq DEF Ledger
<1>3. QED
  BY <1>1, <1>2, WriteKeepsLedger

\* A line handed over, whether it is lost, fits into the buffer or fills it.
LEMMA LineKeepsLedger ==
  ASSUME Flows, Ledger, NEW r \in Requests, WriteLine(r)
  PROVE  Flows' /\ Ledger' /\ Len(out) <= Len(out')
<1> DEFINE line == Line(r)
           all == buf \o line
<1>1. line \in Seq(Piece) /\ Len(line) = 2
  BY LineIsSeq
<1>2. /\ handed \in Seq(Piece) /\ out \in Seq(Piece) /\ buf \in Seq(Piece)
      /\ Len(buf) <= BufSize /\ err \in BOOLEAN
  BY DEF Flows
<1>3. handed' = handed \o line
  BY DEF WriteLine
<1>4. \/ err /\ UNCHANGED <<out, buf, err>>
      \/ ~ err /\ Fits(all) /\ buf' = all /\ UNCHANGED <<out, err>>
      \/ /\ ~ err /\ ~ Fits(all)
         /\ \/ Written(SubSeq(all, 1, BufSize), SubSeq(all, BufSize + 1, Len(all)))
            \/ WriteFails(SubSeq(all, 1, BufSize))
  BY Zenon DEF WriteLine
<1> HIDE DEF line
<1>5. all \in Seq(Piece) /\ Len(all) = Len(buf) + 2
  <2>1. buf \in Seq(Piece) /\ line \in Seq(Piece) /\ Len(line) = 2
    BY <1>1, <1>2
  <2>2. all \in Seq(Piece) /\ Len(all) = Len(buf) + Len(line)
    BY <2>1, ConcatProperties
  <2>3. QED
    BY <2>1, <2>2
<1>6. handed' \in Seq(Piece)
  BY <1>1, <1>2, <1>3, ConcatProperties
<1>7. ~ err => handed' = out \o all
  <2> SUFFICES ASSUME ~ err
               PROVE  handed' = out \o all
    OBVIOUS
  <2>1. handed' = (out \o buf) \o line
    BY <1>3 DEF Ledger
  <2>2. out \in Seq(Piece) /\ buf \in Seq(Piece) /\ line \in Seq(Piece)
    BY <1>1, <1>2
  <2>3. (out \o buf) \o line = out \o (buf \o line)
    BY <2>2, Associative, Zenon
  <2>4. QED
    BY <2>1, <2>3, Zenon
<1> HIDE DEF all
<1>8. CASE err /\ UNCHANGED <<out, buf, err>>
  <2>1. PICK s \in Seq(Piece) : handed = out \o s
    BY DEF Ledger
  <2>2. handed' = out \o (s \o line)
    BY <1>1, <1>2, <1>3, <2>1, ConcatAssociative
  <2>3. s \o line \in Seq(Piece)
    BY <1>1, ConcatProperties
  <2>4. out' = out /\ buf' = buf /\ err' = err /\ err
    BY <1>8
  <2>5. Ledger'
    BY <2>2, <2>3, <2>4 DEF Ledger
  <2>6. QED
    BY <1>2, <1>6, <2>4, <2>5 DEF Flows
<1>9. CASE ~ err /\ Fits(all) /\ buf' = all /\ UNCHANGED <<out, err>>
  <2>1. handed' = out' \o all /\ out' = out /\ buf' = all /\ err' = err
    BY <1>7, <1>9
  <2>2. Ledger'
    BY <1>5, <2>1 DEF Ledger
  <2>3. Flows' /\ Len(out) <= Len(out')
    BY <1>2, <1>5, <1>6, <1>9, <2>1 DEF Flows, Fits
  <2>4. QED
    BY <2>2, <2>3
<1>10. CASE /\ ~ err /\ ~ Fits(all)
            /\ \/ Written(SubSeq(all, 1, BufSize), SubSeq(all, BufSize + 1, Len(all)))
               \/ WriteFails(SubSeq(all, 1, BufSize))
  <2>1. BufSize \in 0..Len(all) /\ Len(all) <= BufSize + 2 /\ BufSize >= 2 /\ BufSize \in Nat
    BY <1>2, <1>5, <1>10, LoggerAssumption DEF Fits
  <2>2. PICK full \in Seq(Piece), rest \in Seq(Piece) :
          /\ full = SubSeq(all, 1, BufSize) /\ rest = SubSeq(all, BufSize + 1, Len(all))
          /\ Len(full) = BufSize /\ Len(rest) = Len(all) - BufSize /\ all = full \o rest
    <3>1. /\ SubSeq(all, 1, BufSize) \in Seq(Piece)
          /\ SubSeq(all, BufSize + 1, Len(all)) \in Seq(Piece)
          /\ Len(SubSeq(all, 1, BufSize)) = BufSize
          /\ Len(SubSeq(all, BufSize + 1, Len(all))) = Len(all) - BufSize
          /\ all = SubSeq(all, 1, BufSize) \o SubSeq(all, BufSize + 1, Len(all))
      BY <1>5, <2>1, CutInTwo
    <3>2. QED
      BY <3>1, Zenon
  <2>3. Written(full, rest) \/ WriteFails(full)
    BY <1>10, <2>2, Zenon
  <2>4. handed' = out \o (full \o rest)
    BY <1>7, <1>10, <2>2
  <2>5. Len(full) <= BufSize /\ Len(rest) <= BufSize /\ full # << >>
    <3>1. Len(full) = BufSize /\ Len(rest) = Len(all) - BufSize /\ Len(all) \in Nat
      BY <1>5, <2>2
    <3>2. Len(full) <= BufSize /\ Len(rest) <= BufSize /\ Len(full) # 0
      BY <2>1, <3>1
    <3>3. QED
      BY <3>2
  <2>6. QED
    BY <2>3, <2>4, <2>5, WriteKeepsLedger
<1>11. QED
  BY <1>4, <1>8, <1>9, <1>10

LEMMA ReopenKeepsLedger ==
  ASSUME Flows, Ledger, Reopen
  PROVE  Flows' /\ Ledger' /\ Len(out) <= Len(out')
<1>1. handed' = handed
  BY DEF Reopen
<1>2. CASE UNCHANGED <<out, buf, err>>
  BY <1>1, <1>2, NothingKeepsLedger
<1>3. CASE ~ err /\ buf # << >> /\ WriteFails(buf)
  BY <1>1, <1>3, FlushKeepsLedger
<1>4. CASE ~ err /\ FlushFirst /\ UNCHANGED err
  <2>1. out' = out \o buf /\ buf' = << >> /\ handed' = out' /\ err' = err
    BY <1>1, <1>4 DEF FlushFirst, Ledger
  <2>2. out' \in Seq(Piece) /\ Len(out) <= Len(out') /\ handed' = out' \o << >>
    BY <2>1, ConcatProperties, ConcatEmptySeq DEF Flows
  <2>3. << >> \in Seq(Piece) /\ Len(<< >>) <= BufSize
    BY LoggerAssumption
  <2>4. Ledger'
    BY <2>1, <2>2, <2>3 DEF Ledger
  <2>5. QED
    BY <2>1, <2>2, <2>3, <2>4 DEF Flows
<1>5. QED
  BY <1>2, <1>3, <1>4 DEF Reopen, ReopenFile

LEMMA CloseKeepsLedger ==
  ASSUME Flows, Ledger, Close
  PROVE  Flows' /\ Ledger' /\ Len(out) <= Len(out')
<1>1. handed' = handed
  BY DEF Close
<1>2. CASE UNCHANGED <<out, buf, err>>
  BY <1>1, <1>2, NothingKeepsLedger
<1>3. CASE ~ err /\ buf # << >> /\ (Written(buf, << >>) \/ WriteFails(buf))
  BY <1>1, <1>3, FlushKeepsLedger
<1>4. QED
  BY <1>2, <1>3 DEF Close

\* No step of the process breaks the ledger, or takes anything from the disk.
LEMMA StepKeepsLedger ==
  ASSUME Flows, Ledger, [Next]_vars
  PROVE  Flows' /\ Ledger' /\ Len(out) <= Len(out')
<1>1. CASE UNCHANGED <<handed, out, buf, err>>
  BY <1>1, NothingKeepsLedger
<1>2. CASE \E r \in Requests : Log(r)
  BY <1>2, LineKeepsLedger DEF Log
<1>3. CASE AutoFlush
  <2>1. ~ err /\ buf # << >> /\ handed' = handed /\ (Written(buf, << >>) \/ WriteFails(buf))
    BY <1>3 DEF AutoFlush, WhenAnything
  <2>2. QED
    BY <2>1, FlushKeepsLedger
<1>4. CASE Reopen
  BY <1>4, ReopenKeepsLedger
<1>5. CASE CloseLog
  BY <1>5, CloseKeepsLedger DEF CloseLog
<1>6. \/ UNCHANGED <<handed, out, buf, err>>
      \/ \E r \in Requests : Log(r)
      \/ AutoFlush \/ Reopen \/ CloseLog
  BY DEF Next, vars, logVars, Accept, Answer, LoggerStep, TickerEnds, TakeSignal,
         HandlerReturns, Rotate, SendSignal, Reload, Terminate, ListenerFails, KillSelf,
         Stopping, Drained, Expire, Exit
<1>7. QED
  BY <1>1, <1>2, <1>3, <1>4, <1>5, <1>6
-----------------------------------------------------------------------------
(***************************************************************************)
(* The inductive invariant.                                                *)
(***************************************************************************)
\* Lines go in whole, and files change when all that went in is out.
Whole == Len(handed) % 2 = 0 /\ WholeLines

\* The lines of the requests that have returned are among those handed over.
Recorded ==
  \A r \in Requests : req[r] = "logged" =>
     \E i \in 1..Len(handed) : handed[i] = <<r, "newline">>

\* What the process knows of its end, and what the log is like then.
Course ==
  /\ phase \in {"serving", "draining"} => how = "not yet"
  /\ phase \in {"serving", "draining", "returned"} => ~ closed
  /\ ~ closed /\ faults = 0 => ~ err /\ fd # 0
  /\ how = "drained" => \A r \in Requests : req[r] \in {"none", "logged"}
  /\ how = "drained" /\ phase \in {"closed", "exited"} /\ faults = 0 => ~ err /\ buf = << >>

Inv == TypeOK /\ Ledger /\ Whole /\ RotationFollowed /\ Recorded /\ Course

LEMMA TypeGivesFlows ==
  ASSUME TypeOK
  PROVE  Flows
BY DEF TypeOK, LoggerTypeOK, Flows

LEMMA InitInv ==
  ASSUME Init
  PROVE  Inv
<1>1. << >> \in Seq(Piece) /\ Len(<< >>) = 0
  OBVIOUS
<1>2. handed = << >> /\ out = << >> /\ buf = << >> /\ err = FALSE /\ cuts = {}
  BY DEF Init, LoggerInit
<1>3. /\ fd = 1 /\ here = 1 /\ files = 1 /\ moved = FALSE /\ signal = FALSE
      /\ handler = "waits" /\ ticking = TRUE /\ closed = FALSE /\ faults = 0
  BY DEF Init, LoggerInit
<1>4. phase = "serving" /\ how = "not yet" /\ req = [r \in Requests |-> "none"]
  BY DEF Init
<1>5. Len(handed) = 0
  BY <1>1, <1>2
<1>6. TypeOK
  <2>1. handed \in Seq(Piece) /\ out \in Seq(Piece) /\ buf \in Seq(Piece) /\ Len(buf) <= BufSize
    BY <1>1, <1>2, LoggerAssumption
  <2>2. cuts \subseteq 0..Len(out) /\ err \in BOOLEAN
    BY <1>2
  <2>3. fd \in 0..files /\ here \in 0..files /\ files \in 1..MaxFiles /\ faults \in 0..MaxFaults
    BY <1>3, LoggerAssumption
  <2>4. /\ moved \in BOOLEAN /\ signal \in BOOLEAN /\ ticking \in BOOLEAN /\ closed \in BOOLEAN
        /\ handler \in {"waits", "taken", "reopened"}
    BY <1>3
  <2>5. /\ phase \in Phases /\ how \in Ends
        /\ req \in [Requests -> {"none", "handled", "answered", "logged"}]
    BY <1>4 DEF Phases, Ends
  <2>6. QED
    BY <2>1, <2>2, <2>3, <2>4, <2>5 DEF TypeOK, LoggerTypeOK
<1>7. Ledger
  BY <1>1, <1>2, ConcatEmptySeq DEF Ledger
<1>8. Whole /\ RotationFollowed /\ Recorded /\ Course
  <2>1. Whole
    BY <1>2, <1>5 DEF Whole, WholeLines
  <2>2. RotationFollowed
    BY <1>3 DEF RotationFollowed
  <2>3. Recorded /\ Course
    <3>1. \A r \in Requests : req[r] = "none"
      BY <1>4
    <3>2. phase = "serving" /\ how = "not yet"
      BY <1>4
    <3>3. \A r \in Requests : req[r] # "logged"
      BY <3>1
    <3>4. ~ err /\ fd # 0 /\ ~ closed
      BY <1>2, <1>3
    <3>5. how # "drained"
      BY <3>2
    <3>6. QED
      BY <3>2, <3>3, <3>4, <3>5 DEF Recorded, Course
  <2>4. QED
    BY <2>1, <2>2, <2>3
<1>9. QED
  BY <1>6, <1>7, <1>8 DEF Inv

\* The variables around the flow of lines.
AroundOK ==
  /\ cuts \subseteq 0..Len(out)
  /\ fd \in 0..files /\ here \in 0..files
  /\ files \in 1..MaxFiles /\ moved \in BOOLEAN /\ signal \in BOOLEAN
  /\ handler \in {"waits", "taken", "reopened"}
  /\ ticking \in BOOLEAN /\ closed \in BOOLEAN /\ faults \in 0..MaxFaults
  /\ phase \in Phases /\ how \in Ends
  /\ req \in [Requests -> {"none", "handled", "answered", "logged"}]

Counted == faults' = faults \/ (faults < MaxFaults /\ faults' = faults + 1)

LEMMA WritesAreCounted ==
  ASSUME NEW full, NEW rest, Written(full, rest) \/ WriteFails(full)
  PROVE  Counted
<1>1. CASE Written(full, rest)
  BY <1>1 DEF Written, Counted
<1>2. CASE WriteFails(full)
  BY <1>2 DEF WriteFails, Counted
<1>3. QED
  BY <1>1, <1>2

\* An action of the logger whose only effects here are on the faults.
LEMMA CountedIsAround ==
  ASSUME AroundOK, cuts \subseteq 0..Len(out'), Counted,
         UNCHANGED <<disk, routines, phase, how>>,
         req' \in [Requests -> {"none", "handled", "answered", "logged"}]
  PROVE  AroundOK'
<1>1. faults' \in 0..MaxFaults
  BY LoggerAssumption DEF AroundOK, Counted
<1>2. /\ cuts' = cuts /\ fd' = fd /\ here' = here /\ files' = files /\ moved' = moved
      /\ signal' = signal /\ handler' = handler /\ ticking' = ticking /\ closed' = closed
      /\ phase' = phase /\ how' = how
  BY DEF disk, routines
<1>3. QED
  BY <1>1, <1>2 DEF AroundOK

LEMMA StepKeepsTypes ==
  ASSUME TypeOK, Ledger, [Next]_vars
  PROVE  TypeOK'
<1>1. Flows' /\ Len(out) <= Len(out')
  BY TypeGivesFlows, StepKeepsLedger
<1>2. AroundOK
  BY DEF TypeOK, LoggerTypeOK, AroundOK
<1>3. Len(out) \in Nat /\ Len(out') \in Nat /\ cuts \subseteq 0..Len(out')
  BY <1>1, <1>2, TypeGivesFlows DEF Flows, AroundOK
<1>4. AroundOK'
  <2>1. CASE UNCHANGED vars
    BY <1>2, <2>1 DEF AroundOK, vars
  <2>2. CASE \E r \in Requests : Accept(r) \/ Answer(r)
    BY <1>2, <2>2 DEF AroundOK, Accept, Answer, logVars
  <2>3. ASSUME NEW r \in Requests, Log(r)
        PROVE  AroundOK'
    <3>1. WriteLine(r) /\ req' = [req EXCEPT ![r] = "logged"] /\ UNCHANGED <<phase, how>>
      BY <2>3 DEF Log
    <3>2. UNCHANGED <<disk, routines>>
      BY <3>1 DEF WriteLine
    <3>3. Counted
      <4>1. \/ faults' = faults
            \/ \E full, rest : Written(full, rest) \/ WriteFails(full)
        BY <3>1, Zenon DEF WriteLine
      <4>2. QED
        BY <4>1, WritesAreCounted DEF Counted
    <3>4. req' \in [Requests -> {"none", "handled", "answered", "logged"}]
      BY <1>2, <3>1 DEF AroundOK
    <3>5. QED
      BY <1>2, <1>3, <3>1, <3>2, <3>3, <3>4, CountedIsAround
  <2>4. CASE AutoFlush /\ UNCHANGED <<phase, how, req>>
    <3>1. Counted
      BY <2>4, WritesAreCounted DEF AutoFlush
    <3>2. UNCHANGED <<disk, routines, phase, how, req>>
      BY <2>4 DEF AutoFlush
    <3>3. req' \in [Requests -> {"none", "handled", "answered", "logged"}]
      BY <1>2, <3>2 DEF AroundOK
    <3>4. QED
      BY <1>2, <1>3, <3>1, <3>2, <3>3, CountedIsAround
  <2>5. CASE Reopen /\ UNCHANGED <<phase, how, req>>
    <3>1. handler' = "reopened" /\ UNCHANGED <<moved, signal, ticking, closed, phase, how, req>>
      BY <2>5 DEF Reopen
    <3>2. \/ UNCHANGED <<fd, here, files, cuts>> /\ Counted
          \/ Opened
          \/ NotOpened
      BY <2>5, WritesAreCounted DEF Reopen, ReopenFile, Counted
    <3>3. CASE UNCHANGED <<fd, here, files, cuts>> /\ Counted
      BY <1>2, <1>3, <3>1, <3>3, LoggerAssumption DEF AroundOK, Counted
    <3>4. CASE Opened
      <4>1. /\ FileAtPath \in 1..MaxFiles /\ fd' = FileAtPath /\ here' = FileAtPath
            /\ files' = (IF here # 0 THEN files ELSE files + 1) /\ faults' = faults
            /\ cuts' = cuts \cup {Len(out')}
        BY <1>2, <3>4, LoggerAssumption DEF AroundOK, Opened, FileAtPath
      <4>2. files' \in 1..MaxFiles /\ FileAtPath \in 0..files'
        <5>1. files \in 1..MaxFiles /\ here \in 0..files
          BY <1>2 DEF AroundOK
        <5>2. CASE here # 0
          BY <4>1, <5>1, <5>2, LoggerAssumption DEF FileAtPath
        <5>3. CASE here = 0
          BY <4>1, <5>1, <5>3, LoggerAssumption DEF FileAtPath
        <5>4. QED
          BY <5>2, <5>3
      <4>3. cuts' \subseteq 0..Len(out')
        <5>1. Len(out') \in 0..Len(out')
          BY <1>3
        <5>2. cuts' = cuts \cup {Len(out')} /\ cuts \subseteq 0..Len(out')
          BY <1>3, <4>1
        <5>3. QED
          BY <5>1, <5>2, Zenon
      <4>4. QED
        BY <1>2, <3>1, <4>1, <4>2, <4>3 DEF AroundOK
    <3>5. CASE NotOpened
      BY <1>2, <1>3, <3>1, <3>5, LoggerAssumption DEF AroundOK, NotOpened
    <3>6. QED
      BY <3>2, <3>3, <3>4, <3>5
  <2>6. CASE (TickerEnds \/ TakeSignal \/ HandlerReturns) /\ UNCHANGED <<phase, how, req>>
    BY <1>2, <1>3, <2>6 DEF AroundOK, TickerEnds, TakeSignal, HandlerReturns, disk
  <2>7. CASE (Rotate \/ SendSignal \/ Reload) /\ UNCHANGED <<phase, how, req>>
    <3>1. out' = out
      BY <2>7 DEF Rotate, SendSignal, Reload
    <3>2. CASE Rotate
      BY <1>2, <1>3, <2>7, <3>2, LoggerAssumption DEF AroundOK, Rotate, routines
    <3>3. CASE SendSignal
      BY <1>2, <1>3, <2>7, <3>3 DEF AroundOK, SendSignal, SIGUSR1, Notified
    <3>4. CASE Reload
      BY <1>2, <1>3, <2>7, <3>4 DEF AroundOK, Reload, SIGUSR1, Notified, disk
    <3>5. QED
      BY <2>7, <3>2, <3>3, <3>4
  <2>8. CASE Terminate \/ ListenerFails \/ KillSelf \/ Drained \/ Expire \/ Exit
    BY <1>2, <2>8 DEF AroundOK, Terminate, ListenerFails, KillSelf, Drained, Expire, Exit,
                      logVars, Phases, Ends
  <2>9. CASE CloseLog
    <3>1. /\ UNCHANGED <<cuts, here, files, moved, signal, handler, ticking, how, req>>
          /\ phase' = "closed" /\ closed' = TRUE /\ fd' = 0
      BY <2>9 DEF CloseLog, Close
    <3>2. Counted
      BY <2>9, WritesAreCounted DEF CloseLog, Close, Counted
    <3>3. QED
      BY <1>2, <1>3, <3>1, <3>2, LoggerAssumption DEF AroundOK, Phases, Counted
  <2>10. QED
    BY <2>1, <2>2, <2>3, <2>4, <2>5, <2>6, <2>7, <2>8, <2>9 DEF Next, LoggerStep, Stopping
<1>5. QED
  BY <1>1, <1>4 DEF TypeOK, LoggerTypeOK, Flows, AroundOK

LEMMA StepKeepsWhole ==
  ASSUME TypeOK, Ledger, Whole, [Next]_vars
  PROVE  Whole'
<1>1. handed \in Seq(Piece) /\ out \in Seq(Piece) /\ buf \in Seq(Piece)
  BY TypeGivesFlows DEF Flows
<1>2. CASE UNCHANGED <<handed, cuts>>
  <2>1. handed' = handed /\ cuts' = cuts
    BY <1>2
  <2>2. QED
    BY <2>1 DEF Whole, WholeLines
<1>3. ASSUME NEW r \in Requests, Log(r)
      PROVE  Whole'
  <2>1. handed' = handed \o Line(r) /\ cuts' = cuts
    BY <1>3 DEF Log, WriteLine, disk
  <2>2. Len(handed') = Len(handed) + 2
    <3>1. Line(r) \in Seq(Piece) /\ Len(Line(r)) = 2
      BY LineIsSeq
    <3>2. Len(handed \o Line(r)) = Len(handed) + Len(Line(r))
      BY <1>1, <3>1, ConcatProperties
    <3>3. QED
      BY <2>1, <3>1, <3>2
  <2>3. Len(handed) \in Nat
    BY <1>1
  <2>4. Len(handed') % 2 = 0
    BY <2>2, <2>3 DEF Whole
  <2>5. QED
    BY <2>1, <2>4 DEF Whole, WholeLines
<1>4. CASE Reopen
  <2>1. handed' = handed
    BY <1>4 DEF Reopen
  <2>2. cuts' = cuts \/ (~ err /\ FlushFirst /\ cuts' = cuts \cup {Len(out')})
    BY <1>4 DEF Reopen, ReopenFile, Opened, NotOpened
  <2>3. CASE ~ err /\ FlushFirst /\ cuts' = cuts \cup {Len(out')}
    <3>1. out' = handed
      BY <2>3 DEF FlushFirst, Ledger
    <3>2. QED
      BY <2>1, <2>3, <3>1 DEF Whole, WholeLines
  <2>4. QED
    BY <2>1, <2>2, <2>3 DEF Whole, WholeLines
<1>5. \/ UNCHANGED <<handed, cuts>>
      \/ \E r \in Requests : Log(r)
      \/ Reopen
  BY DEF Next, vars, logVars, disk, Accept, Answer, LoggerStep, AutoFlush, TickerEnds,
         TakeSignal, HandlerReturns, Rotate, SendSignal, Reload, Terminate, ListenerFails,
         KillSelf, Stopping, Drained, Expire, CloseLog, Close, Exit
<1>6. QED
  BY <1>2, <1>3, <1>4, <1>5

LEMMA StepKeepsRotation ==
  ASSUME TypeOK, RotationFollowed, [Next]_vars
  PROVE  RotationFollowed'
<1>1. CASE UNCHANGED <<fd, here, moved, signal, handler>> /\ (err => err')
  BY <1>1 DEF RotationFollowed
<1>2. CASE Reopen
  <2>1. err' \/ fd' = 0 \/ fd' = here'
    BY <1>2 DEF Reopen, ReopenFile, WriteFails, Opened, NotOpened
  <2>2. QED
    BY <2>1 DEF RotationFollowed
<1>3. CASE CloseLog
  BY <1>3 DEF CloseLog, Close, RotationFollowed
<1>4. CASE TakeSignal \/ HandlerReturns \/ Rotate \/ SendSignal \/ Reload
  BY <1>4 DEF TakeSignal, HandlerReturns, Rotate, SendSignal, Reload, SIGUSR1, Notified,
              RotationFollowed, disk, routines
<1>5. ASSUME NEW r \in Requests, Log(r)
      PROVE  UNCHANGED <<fd, here, moved, signal, handler>> /\ (err => err')
  BY <1>5 DEF Log, WriteLine, disk, routines
<1>6. \/ UNCHANGED <<fd, here, moved, signal, handler>> /\ (err => err')
      \/ \E r \in Requests : Log(r)
      \/ Reopen \/ CloseLog \/ TakeSignal \/ HandlerReturns \/ Rotate \/ SendSignal \/ Reload
  BY DEF Next, vars, logVars, disk, routines, Accept, Answer, LoggerStep, AutoFlush, TickerEnds,
         Terminate, ListenerFails, KillSelf, Stopping, Drained, Expire, Exit
<1>7. QED
  BY <1>1, <1>2, <1>3, <1>4, <1>5, <1>6

\* A line stays among the lines handed over.
LEMMA LinesStay ==
  ASSUME Flows, NEW r \in Requests, NEW x \in Piece,
         handed' = handed \o Line(r), \E i \in 1..Len(handed) : handed[i] = x
  PROVE  \E i \in 1..Len(handed') : handed'[i] = x
<1>1. handed \in Seq(Piece) /\ Line(r) \in Seq(Piece) /\ Len(Line(r)) = 2
  BY LineIsSeq DEF Flows
<1>2. PICK i \in 1..Len(handed) : handed[i] = x
  OBVIOUS
<1>3. /\ Len(handed \o Line(r)) = Len(handed) + Len(Line(r))
      /\ \A j \in 1..(Len(handed) + Len(Line(r))) :
           (handed \o Line(r))[j] = IF j <= Len(handed) THEN handed[j]
                                    ELSE Line(r)[j - Len(handed)]
  BY <1>1, ConcatProperties
<1>4. Len(handed) \in Nat /\ i \in 1..(Len(handed) + Len(Line(r))) /\ i <= Len(handed)
  BY <1>1
<1>5. handed'[i] = x /\ i \in 1..Len(handed')
  BY <1>2, <1>3, <1>4
<1>6. QED
  BY <1>5

LEMMA LineIsIn ==
  ASSUME Flows, NEW r \in Requests, handed' = handed \o Line(r)
  PROVE  \E i \in 1..Len(handed') : handed'[i] = <<r, "newline">>
<1>1. /\ handed \in Seq(Piece) /\ Line(r) \in Seq(Piece) /\ Len(Line(r)) = 2
      /\ Line(r)[2] = <<r, "newline">>
  BY LineIsSeq DEF Flows
<1>2. /\ Len(handed \o Line(r)) = Len(handed) + Len(Line(r))
      /\ \A j \in 1..(Len(handed) + Len(Line(r))) :
           (handed \o Line(r))[j] = IF j <= Len(handed) THEN handed[j]
                                    ELSE Line(r)[j - Len(handed)]
  BY <1>1, ConcatProperties
<1> DEFINE i == Len(handed) + 2
<1>3. /\ Len(handed) \in Nat /\ i \in 1..(Len(handed) + Len(Line(r))) /\ ~ (i <= Len(handed))
      /\ i - Len(handed) = 2
  BY <1>1
<1>4. handed'[i] = <<r, "newline">> /\ i \in 1..Len(handed')
  BY <1>1, <1>2, <1>3
<1>5. QED
  BY <1>4

LEMMA StepKeepsRecorded ==
  ASSUME TypeOK, Recorded, [Next]_vars
  PROVE  Recorded'
<1>1. Flows /\ req \in [Requests -> {"none", "handled", "answered", "logged"}]
  BY TypeGivesFlows DEF TypeOK
<1>2. CASE handed' = handed /\ \A r \in Requests : req'[r] = "logged" => req[r] = "logged"
  BY <1>2 DEF Recorded
<1>3. ASSUME NEW r \in Requests, Log(r)
      PROVE  Recorded'
  <2>1. handed' = handed \o Line(r) /\ req' = [req EXCEPT ![r] = "logged"]
    BY <1>3 DEF Log, WriteLine
  <2>2. ASSUME NEW q \in Requests, req'[q] = "logged"
        PROVE  \E i \in 1..Len(handed') : handed'[i] = <<q, "newline">>
    <3>1. CASE q = r
      BY <1>1, <2>1, <3>1, LineIsIn
    <3>2. CASE q # r
      <4>1. req[q] = "logged"
        BY <1>1, <2>1, <2>2, <3>2
      <4>2. \E i \in 1..Len(handed) : handed[i] = <<q, "newline">>
        BY <4>1 DEF Recorded
      <4>3. <<q, "newline">> \in Piece
        BY DEF Piece
      <4>4. QED
        BY <1>1, <2>1, <4>2, <4>3, LinesStay
    <3>3. QED
      BY <3>1, <3>2
  <2>3. QED
    BY <2>2 DEF Recorded
<1>4. ASSUME NEW r \in Requests, Accept(r) \/ Answer(r)
      PROVE  handed' = handed /\ \A q \in Requests : req'[q] = "logged" => req[q] = "logged"
  BY <1>1, <1>4 DEF Accept, Answer, logVars
<1>5. \/ handed' = handed /\ req' = req
      \/ \E r \in Requests : Accept(r) \/ Answer(r) \/ Log(r)
  BY DEF Next, vars, logVars, LoggerStep, AutoFlush, TickerEnds, TakeSignal, Reopen,
         HandlerReturns, Rotate, SendSignal, Reload, Terminate, ListenerFails, KillSelf,
         Stopping, Drained, Expire, CloseLog, Close, Exit
<1>6. QED
  BY <1>2, <1>3, <1>4, <1>5

LEMMA NoFaultNoError ==
  ASSUME NEW full, NEW rest, faults \in Nat, fd # 0, faults' = 0,
         Written(full, rest) \/ WriteFails(full)
  PROVE  faults = 0 /\ ~ err' /\ buf' = rest
<1>1. CASE Written(full, rest)
  BY <1>1 DEF Written
<1>2. CASE WriteFails(full)
  <2>1. faults' = faults + 1
    BY <1>2 DEF WriteFails
  <2>2. QED
    BY <2>1
<1>3. QED
  BY <1>1, <1>2

\* What a step leaves alone if it is none of those that move lines or end the process.
Quiet == UNCHANGED <<buf, err, fd, closed, faults, phase, how>>

LEMMA StepKeepsCourse ==
  ASSUME TypeOK, Course, [Next]_vars
  PROVE  Course'
<1>1. /\ faults \in Nat /\ err \in BOOLEAN /\ closed \in BOOLEAN
      /\ req \in [Requests -> {"none", "handled", "answered", "logged"}]
  BY LoggerAssumption DEF TypeOK, LoggerTypeOK
<1>2. CASE Quiet /\ req' = req
  BY <1>2 DEF Quiet, Course
<1>3. ASSUME NEW r \in Requests, Accept(r) \/ Answer(r)
      PROVE  Course'
  <2>1. Quiet
    BY <1>3 DEF Accept, Answer, Quiet, logVars
  <2>2. how # "drained"
    BY <1>1, <1>3 DEF Accept, Answer, Course
  <2>3. QED
    BY <2>1, <2>2 DEF Quiet, Course
<1>4. ASSUME NEW r \in Requests, Log(r)
      PROVE  Course'
  <2>1. how # "drained" /\ how' = how /\ phase' = phase /\ closed' = closed /\ fd' = fd
    BY <1>1, <1>4 DEF Log, WriteLine, Course, disk, routines
  <2>2. ~ closed /\ faults' = 0 => ~ err'
    <3>1. \/ UNCHANGED <<err, faults>>
          \/ \E full, rest : Written(full, rest) \/ WriteFails(full)
      BY <1>4, Zenon DEF Log, WriteLine
    <3>2. CASE UNCHANGED <<err, faults>>
      BY <3>2 DEF Course
    <3>3. CASE \E full, rest : Written(full, rest) \/ WriteFails(full)
      <4>1. faults' = 0 => faults = 0
        BY <1>1, <3>3 DEF Written, WriteFails
      <4>2. SUFFICES ASSUME ~ closed, faults' = 0
                     PROVE  ~ err'
        OBVIOUS
      <4>3. fd # 0
        BY <4>1, <4>2 DEF Course
      <4>4. QED
        BY <1>1, <3>3, <4>2, <4>3, NoFaultNoError
    <3>4. QED
      BY <3>1, <3>2, <3>3
  <2>3. faults' = 0 => faults = 0
    BY <1>1, <1>4 DEF Log, WriteLine, Written, WriteFails
  <2>4. QED
    BY <2>1, <2>2, <2>3 DEF Course
<1>5. CASE AutoFlush /\ UNCHANGED <<phase, how, req>>
  <2>1. closed' = closed /\ fd' = fd /\ buf # << >> /\ (Written(buf, << >>) \/ WriteFails(buf))
    BY <1>5 DEF AutoFlush, WhenAnything, disk, routines
  <2>2. faults' = 0 => faults = 0
    BY <1>1, <2>1 DEF Written, WriteFails
  <2>3. ~ closed /\ faults' = 0 => ~ err'
    BY <1>1, <2>1, <2>2, NoFaultNoError DEF Course
  <2>4. QED
    BY <1>5, <2>1, <2>2, <2>3 DEF Course
<1>6. CASE Reopen /\ UNCHANGED <<phase, how, req>>
  <2>1. closed' = closed
    BY <1>6 DEF Reopen
  <2>2. CASE UNCHANGED <<buf, err, fd, faults>>
    BY <1>6, <2>1, <2>2 DEF Course
  <2>3. CASE buf # << >> /\ fd' = fd /\ WriteFails(buf)
    <3>1. faults' = 0 => faults = 0
      BY <1>1, <2>3 DEF WriteFails
    <3>2. ~ closed /\ faults' = 0 => ~ err'
      BY <1>1, <2>3, <3>1, NoFaultNoError DEF Course
    <3>3. QED
      BY <1>6, <2>1, <2>3, <3>1, <3>2 DEF Course
  <2>4. CASE ~ err /\ FlushFirst /\ UNCHANGED err /\ Opened
    <3>1. faults' = faults /\ buf' = << >> /\ err' = err /\ ~ err
      BY <2>4 DEF FlushFirst, Opened
    <3>2. fd' # 0
      BY <2>4 DEF Opened, FileAtPath, TypeOK, LoggerTypeOK
    <3>3. QED
      BY <1>6, <2>1, <3>1, <3>2 DEF Course
  <2>5. CASE ~ err /\ FlushFirst /\ UNCHANGED err /\ NotOpened
    <3>1. faults' # 0
      BY <1>1, <2>5 DEF NotOpened
    <3>2. QED
      BY <1>6, <2>1, <3>1 DEF Course
  <2>6. QED
    BY <1>6, <2>2, <2>3, <2>4, <2>5 DEF Reopen, ReopenFile
<1>7. CASE CloseLog
  <2>1. /\ phase = "returned" /\ phase' = "closed" /\ closed' /\ UNCHANGED <<how, req>>
    BY <1>7 DEF CloseLog, Close
  <2>2. ~ closed
    BY <2>1 DEF Course
  <2>3. faults' = 0 => ~ err' /\ buf' = << >>
    <3>1. SUFFICES ASSUME faults' = 0
                   PROVE  ~ err' /\ buf' = << >>
      OBVIOUS
    <3>2. faults = 0
      BY <1>1, <1>7, <3>1 DEF CloseLog, Close, Written, WriteFails
    <3>3. ~ err /\ fd # 0
      BY <2>2, <3>2 DEF Course
    <3>4. CASE buf = << >> /\ UNCHANGED <<out, buf, err, faults>>
      BY <3>3, <3>4
    <3>5. CASE Written(buf, << >>) \/ WriteFails(buf)
      BY <1>1, <3>1, <3>3, <3>5, NoFaultNoError
    <3>6. QED
      BY <1>7, <3>3, <3>4, <3>5 DEF CloseLog, Close
  <2>4. QED
    BY <2>1, <2>3 DEF Course
<1>8. CASE Terminate \/ ListenerFails \/ KillSelf \/ Drained \/ Expire \/ Exit
  <2>1. UNCHANGED <<buf, err, fd, closed, faults, req>>
    BY <1>8 DEF Terminate, ListenerFails, KillSelf, Drained, Expire, Exit, logVars
  <2>2. CASE Terminate
    BY <2>1, <2>2 DEF Terminate, Course
  <2>3. CASE ListenerFails \/ Expire
    BY <2>1, <2>3 DEF ListenerFails, Expire, GraceEnds, Course
  <2>4. CASE KillSelf
    BY <2>1, <2>4 DEF KillSelf, Course
  <2>5. CASE Drained
    BY <2>1, <2>5 DEF Drained, AllReturned, Course
  <2>6. CASE Exit
    BY <2>1, <2>6 DEF Exit, Course
  <2>7. QED
    BY <1>8, <2>2, <2>3, <2>4, <2>5, <2>6
<1>9. \/ Quiet /\ req' = req
      \/ \E r \in Requests : Accept(r) \/ Answer(r) \/ Log(r)
      \/ (AutoFlush \/ Reopen) /\ UNCHANGED <<phase, how, req>>
      \/ CloseLog
      \/ Terminate \/ ListenerFails \/ KillSelf \/ Drained \/ Expire \/ Exit
  BY DEF Next, vars, LoggerStep, TickerEnds, TakeSignal, HandlerReturns, Rotate, SendSignal,
         Reload, Stopping, Quiet, disk, routines
<1>10. QED
  BY <1>2, <1>3, <1>4, <1>5, <1>6, <1>7, <1>8, <1>9

LEMMA InvIsInductive ==
  ASSUME Inv, [Next]_vars
  PROVE  Inv'
<1>1. TypeOK /\ Ledger /\ Whole /\ RotationFollowed /\ Recorded /\ Course
  BY DEF Inv
<1>2. TypeOK' /\ Ledger'
  BY <1>1, StepKeepsTypes, StepKeepsLedger, TypeGivesFlows
<1>3. Whole' /\ RotationFollowed' /\ Recorded' /\ Course'
  BY <1>1, StepKeepsWhole, StepKeepsRotation, StepKeepsRecorded, StepKeepsCourse
<1>4. QED
  BY <1>2, <1>3 DEF Inv

\* Inv holds throughout.
THEOREM Invariance == Spec => []Inv
<1>1. Init => Inv
  BY InitInv
<1>2. Inv /\ [Next]_vars => Inv'
  BY InvIsInductive
<1>3. QED
  BY <1>1, <1>2, PTL DEF Spec

LEMMA LedgerIsPrefix ==
  ASSUME Flows, Ledger
  PROVE  Prefix
<1>1. PICK s \in Seq(Piece) : handed = out \o s
  BY DEF Ledger
<1>2. out \in Seq(Piece) /\ Len(out) \in Nat /\ Len(s) \in Nat
  BY DEF Flows
<1>3. Len(handed) = Len(out) + Len(s)
  BY <1>1, <1>2, ConcatProperties
<1>4. SubSeq(handed, 1, Len(out)) = out
  <2>1. CASE Len(out) = 0
    <3>1. SubSeq(handed, 1, 0) = << >>
      BY SubSeqEmpty
    <3>2. QED
      BY <1>2, <2>1, <3>1
  <2>2. CASE Len(out) # 0
    <3>1. 1 \in 1..Len(out) /\ Len(out) \in 1..Len(out)
      BY <1>2, <2>2
    <3>2. SubSeq(handed, 1, Len(out)) = SubSeq(out, 1, Len(out))
      BY <1>1, <1>2, <3>1, SubSeqOfConcat1
    <3>3. QED
      BY <1>2, <3>2, SubSeqFull
  <2>3. QED
    BY <2>1, <2>2
<1>5. QED
  BY <1>2, <1>3, <1>4 DEF Prefix

LEMMA CourseIsClean ==
  ASSUME Inv
  PROVE  CleanExit
<1>1. SUFFICES ASSUME phase = "exited", how = "drained", faults = 0
               PROVE  /\ \A r \in Requests : req[r] \in {"none", "logged"}
                      /\ \A r \in Requests : req[r] = "logged" =>
                           \E i \in 1..Len(out) : out[i] = <<r, "newline">>
  BY DEF CleanExit
<1>2. ~ err /\ buf = << >> /\ \A r \in Requests : req[r] \in {"none", "logged"}
  BY <1>1 DEF Inv, Course
<1>3. handed = out
  <2>1. out \in Seq(Piece) /\ handed = out \o << >>
    BY <1>2, TypeGivesFlows DEF Inv, Ledger, Flows
  <2>2. QED
    BY <2>1, ConcatEmptySeq
<1>4. QED
  BY <1>2, <1>3 DEF Inv, Recorded
-----------------------------------------------------------------------------
\* Every variable has its type; the buffer never outgrows its size.
THEOREM ProcessTypeCorrect == Spec => []TypeOK
<1>1. Inv => TypeOK
  BY DEF Inv
<1>2. QED
  BY <1>1, Invariance, PTL

\* The files hold a beginning of what was logged, in order and without a gap, whatever
\* writes and opens fail and whenever the process stops.
THEOREM LogIsPrefix == Spec => []Prefix
<1>1. Inv => Prefix
  BY TypeGivesFlows, LedgerIsPrefix DEF Inv
<1>2. QED
  BY <1>1, Invariance, PTL

\* No rotation splits a line.
THEOREM RotationIsWhole == Spec => []WholeLines
<1>1. Inv => WholeLines
  BY DEF Inv, Whole
<1>2. QED
  BY <1>1, Invariance, PTL

\* No order of rotations and signals leaves a working logger with a file that was moved.
THEOREM RotationIsFollowed == Spec => []RotationFollowed
<1>1. Inv => RotationFollowed
  BY DEF Inv
<1>2. QED
  BY <1>1, Invariance, PTL

\* A shutdown that no handler outlasts loses neither an answer nor a line.
THEOREM ExitIsClean == Spec => []CleanExit
<1>1. Inv => CleanExit
  BY CourseIsClean
<1>2. QED
  BY <1>1, Invariance, PTL
=============================================================================
