-------------------------- MODULE IndexSyncProofs --------------------------
(***************************************************************************)
(* Theorems about IndexSync, for every value of its constants.             *)
(***************************************************************************)
EXTENDS IndexSync, TLAPS

\* No two packages share a directory or a row: what the theorem on repairs assumes.
Distinct ==
  \A p, q \in Packages : p # q => Norm[p] # Norm[q] /\ Key[p] # Key[q]

\* What upstream answers is complete, and of the serial each package has there: the list
\* and each JSON.
TrueUpstream == "list" \notin Faults /\ "stale" \notin Faults

Serial(p) == rows[Key[p]].serial

\* A package to process has a row older than what was listed, or none; upstream has no
\* serial between the two.
Behind(p) ==
  /\ remote[p] # Absent /\ Serial(p) < remote[p]
  /\ upstream[p] = Absent \/ upstream[p] >= remote[p]

(***************************************************************************)
(* The invariant of one package.  A sync only touches the files of a       *)
(* package when its serial is not upstream's (it is behind, or doomed),    *)
(* and a goroutine has written all files when it reaches SetSerial.        *)
(***************************************************************************)
PackageInv(p) ==
  /\ Serial(p) # Absent => rows[Key[p]].name = p
  /\ Serial(p) <= last /\ upstream[p] <= last /\ remote[p] <= last
  /\ p \in toProcess \/ working[p] = Admitted \/ working[p] >= Fetch => Behind(p)
  /\ working[p] = Admitted \/ working[p] >= Fetch => p \notin toProcess
  /\ p \in removed => remote[p] = Absent /\ (upstream[p] = Absent \/ upstream[p] > Serial(p))
  /\ working[p] > Fetch =>
       /\ fetched[p] >= remote[p]
       /\ \A i \in Files : i < working[p] - Fetch => pages[Norm[p]][i] >= remote[p]
  /\ Serial(p) # Absent => WholeSince(p, Serial(p)) \/ upstream[p] # Serial(p)

IInv == TypeOK /\ \A p \in Packages : PackageInv(p)

LEMMA Elements ==
  /\ {Off, Admitted, Fetch, Fetch + 1, Commit, NoSimple, NoJSON} \subseteq Steps
  /\ Absent \in Serials /\ Torn \in Contents /\ Serials \subseteq Contents
  /\ Artifacts \in Files
BY IndexAssumption
DEF IndexAssumption, Off, Admitted, Fetch, Commit, NoSimple, NoJSON, Steps, Absent, Torn,
    Serials, Contents, Files

LEMMA InitType == Init => TypeOK
<1> SUFFICES ASSUME Init PROVE TypeOK
  OBVIOUS
<1> USE IndexAssumption, Elements DEF IndexAssumption
<1>1. NoRow \in [name : Packages, serial : Serials]
  BY DEF NoRow
<1>2. [n \in Norms |-> [i \in Files |-> Absent]] \in [Norms -> [Files -> Contents]]
  OBVIOUS
<1>3. last \in Serials /\ errCount \in Nat /\ faults \in 0..MaxFaults
  BY DEF Init, Serials, Absent
<1>4. Phased
  BY DEF Init, Phased, Off, Admitted, NoSimple
<1> QED BY <1>1, <1>2, <1>3, <1>4 DEF Init, TypeOK, Phases

LEMMA EraseType ==
  ASSUME TypeOK, NEW p \in Packages, NEW which, Erase(p, which)
  PROVE  pages' \in [Norms -> [Files -> Contents]]
<1> DEFINE row == [i \in Files |-> IF i \in which THEN Absent ELSE pages[Norm[p]][i]]
<1>1. pages[Norm[p]] \in [Files -> Contents]
  BY IndexAssumption DEF IndexAssumption, TypeOK
<1>2. row \in [Files -> Contents]
  BY <1>1, Elements
<1>3. pages' = [pages EXCEPT ![Norm[p]] = row] \/ pages' = pages
  BY DEF Erase
<1> QED BY <1>2, <1>3 DEF TypeOK

\* Every action keeps the types.
LEMMA TypeStep == TypeOK /\ [Next]_vars => TypeOK'
<1> SUFFICES ASSUME TypeOK, [Next]_vars PROVE TypeOK'
  OBVIOUS
<1> USE IndexAssumption, Elements
    DEF IndexAssumption, TypeOK, Phases, mirror, remoteVars, NoFault, Fault
<1>1. ASSUME NEW p \in Packages, Release(p) PROVE TypeOK'
  <2>1. last + 1 \in Serials
    BY <1>1 DEF Release, Serials, Absent
  <2> QED BY <1>1, <2>1 DEF Release, Phased
<1>2. ASSUME NEW p \in Packages, Delist(p) PROVE TypeOK'
  <2>1. last + 1 \in Serials
    BY <1>2 DEF Delist, Serials, Absent
  <2> QED BY <1>2, <2>1 DEF Delist, Phased
<1>3. CASE List
  <2>1. toProcess' \subseteq Packages /\ removed' \subseteq Packages
    BY <1>3 DEF List
  <2>2. remote' \in [Packages -> Serials] /\ faults' \in 0..MaxFaults
    BY <1>3 DEF List
  <2>3. Phased'
    BY <1>3 DEF List, Phased, Steps, Off, Admitted, NoSimple, NoJSON, Commit
  <2> QED BY <1>3, <2>1, <2>2, <2>3 DEF List
<1>4. ASSUME NEW p \in Packages, Admit(p) PROVE TypeOK'
  <2>1. Phased'
    BY <1>4 DEF Admit, Phased, Off, Admitted, NoSimple
  <2> QED BY <1>4, <2>1 DEF Admit
<1>5. ASSUME NEW p \in Packages, Spawn(p) PROVE TypeOK'
  <2>1. Phased'
    BY <1>5 DEF Spawn, Phased, Off, Admitted, NoSimple, Fetch
  <2> QED BY <1>5, <2>1 DEF Spawn
<1>6. ASSUME NEW p \in Packages, FetchJSON(p) PROVE TypeOK'
  <2>1. Phased'
    BY <1>6 DEF FetchJSON, Phased, Off, Admitted, NoSimple, Fetch
  <2>2. PICK s \in 1..last : /\ fetched' = [fetched EXCEPT ![p] = s]
                           /\ IF s = upstream[p] THEN NoFault ELSE Fault("stale")
    BY <1>6 DEF FetchJSON
  <2>3. s \in Serials
    BY <2>2 DEF Serials, Absent
  <2>4. fetched' \in [Packages -> Serials]
    BY <2>2, <2>3
  <2>5. faults' \in 0..MaxFaults
    BY <2>2
  <2> QED BY <1>6, <2>1, <2>4, <2>5 DEF FetchJSON
<1>7. ASSUME NEW p \in Packages, FetchError(p) PROVE TypeOK'
  <2>1. Phased'
    BY <1>7 DEF FetchError, Finish, Phased, Off, Admitted, NoSimple
  <2>2. faults' \in 0..MaxFaults /\ errCount' \in Nat
    BY <1>7 DEF FetchError, Finish
  <2> QED BY <1>7, <2>1, <2>2 DEF FetchError, Finish
<1>8. ASSUME NEW p \in Packages, Truncate(p) PROVE TypeOK'
  <2>1. pages' \in [Norms -> [Files -> Contents]]
    BY <1>8 DEF Truncate, Writing
  <2> QED BY <1>8, <2>1 DEF Truncate, Phased
<1>9. ASSUME NEW p \in Packages, Write(p) PROVE TypeOK'
  <2>1. working[p] + 1 \in Steps /\ working[p] > Off
    BY <1>9 DEF Write, Writing, File, Files, Steps, Fetch, Commit, NoJSON, Off
  <2>2. Phased'
    BY <1>9, <2>1 DEF Write, Phased, Steps, Off, Admitted, NoSimple, Commit, NoJSON
  <2>3. pages' \in [Norms -> [Files -> Contents]]
    BY <1>9 DEF Write, Writing
  <2> QED BY <1>9, <2>1, <2>2, <2>3 DEF Write
<1>10. ASSUME NEW p \in Packages, WriteError(p) PROVE TypeOK'
  <2>1. Phased'
    BY <1>10 DEF WriteError, Finish, Phased, Off, Admitted, NoSimple
  <2>2. faults' \in 0..MaxFaults /\ errCount' \in Nat
    BY <1>10 DEF WriteError, Finish
  <2> QED BY <1>10, <2>1, <2>2 DEF WriteError, Finish
<1>11. ASSUME NEW p \in Packages, SetSerial(p) PROVE TypeOK'
  <2>1. Upsert(p) \in [Keys -> [name : Packages, serial : Serials]]
    BY DEF Upsert
  <2>2. Phased'
    BY <1>11 DEF SetSerial, Finish, Phased, Off, Admitted, NoSimple
  <2>3. Finish(p, 0) \/ Finish(p, 1)
    BY <1>11 DEF SetSerial
  <2>4. /\ working' \in [Packages -> Steps] /\ fetched' \in [Packages -> Serials]
        /\ errCount' \in Nat
    <3>1. CASE Finish(p, 0)
      BY <3>1 DEF Finish
    <3>2. CASE Finish(p, 1)
      BY <3>2 DEF Finish
    <3> QED BY <2>3, <3>1, <3>2
  <2>5. faults' \in 0..MaxFaults
    BY <1>11 DEF SetSerial
  <2>6. rows' \in [Keys -> [name : Packages, serial : Serials]]
    BY <1>11, <2>1 DEF SetSerial
  <2> QED BY <1>11, <2>2, <2>4, <2>5, <2>6 DEF SetSerial
<1>12. CASE Wait
  <2>1. Phased'
    BY <1>12 DEF Wait, Waited, Running, At, Phased, Steps, Off, Admitted, NoSimple, Fetch, Commit,
                 NoJSON
  <2> QED BY <1>12, <2>1 DEF Wait
<1>13. ASSUME NEW p \in Packages, RemoveSimple(p) PROVE TypeOK'
  <2>1. Phased'
    BY <1>13 DEF RemoveSimple, Phased, Off, Admitted, NoSimple
  <2>2. pages' \in [Norms -> [Files -> Contents]]
    BY <1>13, EraseType DEF RemoveSimple
  <2>3. faults' \in 0..MaxFaults
    BY <1>13 DEF RemoveSimple, Erase
  <2> QED BY <1>13, <2>1, <2>2, <2>3 DEF RemoveSimple
<1>14. ASSUME NEW p \in Packages, RemoveJSON(p) PROVE TypeOK'
  <2>1. Phased'
    BY <1>14 DEF RemoveJSON, Phased, Off, Admitted, NoSimple, NoJSON
  <2>2. pages' \in [Norms -> [Files -> Contents]]
    BY <1>14, EraseType DEF RemoveJSON
  <2>3. faults' \in 0..MaxFaults
    BY <1>14 DEF RemoveJSON, Erase
  <2> QED BY <1>14, <2>1, <2>2, <2>3 DEF RemoveJSON
<1>15. ASSUME NEW p \in Packages, DeleteSerial(p) PROVE TypeOK'
  <2>1. RowGone(p) \in [Keys -> [name : Packages, serial : Serials]]
    BY DEF RowGone, NoRow
  <2>2. Phased'
    BY <1>15 DEF DeleteSerial, Phased, Off, Admitted, NoSimple, NoJSON
  <2>3. faults' \in 0..MaxFaults
    BY <1>15 DEF DeleteSerial
  <2> QED BY <1>15, <2>1, <2>2, <2>3 DEF DeleteSerial
<1>16. CASE AllRemoved
  <2>1. Phased'
    BY <1>16 DEF AllRemoved, Phased
  <2> QED BY <1>16, <2>1 DEF AllRemoved
<1>17. CASE TruncateRoot
  <2>1. Phased'
    BY <1>17 DEF TruncateRoot, Phased
  <2> QED BY <1>17, <2>1 DEF TruncateRoot
<1>18. CASE WriteRoot
  <2>1. Phased'
    BY <1>18 DEF WriteRoot, Phased
  <2>2. faults' \in 0..MaxFaults
    BY <1>18 DEF WriteRoot
  <2> QED BY <1>18, <2>1, <2>2 DEF WriteRoot
<1>19. CASE Cancel
  <2>1. faults' \in 0..MaxFaults
    BY <1>19 DEF Cancel
  <2> QED BY <1>19, <2>1 DEF Cancel, Phased
<1>20. CASE Crash
  <2>1. Phased'
    BY <1>20 DEF Crash, Phased, Off, Admitted, NoSimple
  <2>2. faults' \in 0..MaxFaults
    BY <1>20 DEF Crash
  <2> QED BY <1>20, <2>1, <2>2 DEF Crash
<1>21. CASE UNCHANGED vars
  BY <1>21 DEF vars, Phased
<1> QED
  BY <1>1, <1>2, <1>3, <1>4, <1>5, <1>6, <1>7, <1>8, <1>9, <1>10, <1>11, <1>12, <1>13, <1>14,
     <1>15, <1>16, <1>17, <1>18, <1>19, <1>20, <1>21
  DEF Next, Sync, World, Loop, Goroutine

\* TypeOK holds in every reachable state: a program counter of a goroutine or of the
\* removal loop is always one of its phase.
THEOREM TypeCorrect == Spec => []TypeOK
BY InitType, TypeStep, PTL DEF Spec

(***************************************************************************)
(* The invariant of a package that a step does not touch.                  *)
(***************************************************************************)
LEMMA Untouched ==
  ASSUME TypeOK, TypeOK', NEW q \in Packages, PackageInv(q),
         rows'[Key[q]] = rows[Key[q]], pages'[Norm[q]] = pages[Norm[q]],
         upstream'[q] = upstream[q], remote'[q] = remote[q], last' >= last,
         working'[q] \in {working[q], Off, NoSimple, NoJSON}, working'[q] = working[q] => fetched'[q] = fetched[q],
         q \in toProcess' => q \in toProcess, q \in removed' => q \in removed
  PROVE  PackageInv(q)'
<1>1. /\ rows[Key[q]].serial \in Int /\ upstream[q] \in Int /\ remote[q] \in Int
      /\ last \in Int /\ last' \in Int /\ working[q] \in Int
  BY IndexAssumption DEF IndexAssumption, TypeOK, Serials, Absent, Steps, NoJSON, Commit
<1> QED
  BY <1>1 DEF PackageInv, Serial, Behind, WholeSince, Off, NoSimple, NoJSON, Admitted, Fetch

LEMMA Ints ==
  ASSUME TypeOK, NEW q \in Packages
  PROVE  /\ rows[Key[q]].serial \in Nat /\ upstream[q] \in Nat /\ remote[q] \in Nat
         /\ last \in Nat /\ working[q] \in Int /\ fetched[q] \in Nat
         /\ \A i \in Files : pages[Norm[q]][i] \in Int /\ i \in Nat \ {0} /\ i <= Artifacts
         /\ Artifacts \in Files /\ Artifacts \in Nat
<1> USE IndexAssumption DEF IndexAssumption, TypeOK
<1>1. Serials \subseteq Nat /\ Contents \subseteq Int /\ Steps \subseteq Int
  BY DEF Serials, Contents, Torn, Absent, Steps, NoJSON, Commit
<1>2. Artifacts \in Files /\ \A i \in Files : i \in Nat \ {0} /\ i <= Artifacts
  BY DEF Files
<1>3. Norm[q] \in Norms /\ Key[q] \in Keys
  OBVIOUS
<1>4. \A i \in Files : pages[Norm[q]][i] \in Contents
  BY <1>3
<1>5. rows[Key[q]].serial \in Serials
  BY <1>3
<1> QED BY <1>1, <1>2, <1>4, <1>5

LEMMA InitPackage == Init => IInv
<1> SUFFICES ASSUME Init, NEW p \in Packages PROVE PackageInv(p)
  BY InitType DEF IInv
<1>1. Key[p] \in Keys
  BY IndexAssumption DEF IndexAssumption
<1> QED
  BY <1>1 DEF Init, PackageInv, Serial, NoRow, Absent, Off, Admitted, Fetch

\* Upstream gives out serials that no row has.
LEMMA UpstreamPackage ==
  ASSUME IInv, TypeOK', NEW p \in Packages, Release(p) \/ Delist(p), NEW q \in Packages
  PROVE  PackageInv(q)'
<1> USE DEF IInv
<1>1. CASE p # q
  <2>1. rows' = rows /\ pages' = pages /\ remote' = remote /\ working' = working
    BY DEF Release, Delist, mirror
  <2>2. upstream'[q] = upstream[q] /\ last' = last + 1
    BY <1>1 DEF Release, Delist, TypeOK
  <2>3. fetched' = fetched /\ toProcess' = toProcess /\ removed' = removed
    BY DEF Release, Delist
  <2> QED BY <2>1, <2>2, <2>3, Ints, Untouched
<1>2. CASE p = q
  <2>1. /\ rows' = rows /\ pages' = pages /\ remote' = remote /\ working' = working
        /\ fetched' = fetched /\ toProcess' = toProcess /\ removed' = removed
    BY DEF Release, Delist, mirror
  <2>2. upstream'[q] \in {Absent, last + 1} /\ last' = last + 1
    BY <1>2 DEF Release, Delist, TypeOK
  <2>3. PackageInv(q)
    OBVIOUS
  <2> QED BY <2>1, <2>2, <2>3, Ints DEF PackageInv, Serial, Behind, WholeSince, Absent
<1> QED BY <1>1, <1>2

\* With a complete list, what is skipped is whole and what is removed is not upstream.
LEMMA ListPackage ==
  ASSUME TrueUpstream, IInv, TypeOK', List, NEW q \in Packages
  PROVE  PackageInv(q)'
<1> USE DEF IInv, TrueUpstream
<1>1. remote'[q] = upstream[q]
  BY DEF List, Fault, TypeOK, Absent
<1>2. PackageInv(q)
  OBVIOUS
<1>3. Local(q) = Serial(q)
  BY <1>2 DEF PackageInv, Serial, Local, Absent
<1>4. working'[q] = working[q] /\ working[q] <= Off /\ working[q] # Admitted
  <2>1. pc # "process" /\ working' = working
    BY DEF List
  <2> QED BY <2>1, Ints DEF TypeOK, Phased, Off, Admitted
<1>5. rows' = rows /\ pages' = pages /\ upstream' = upstream /\ last' = last
  BY DEF List, mirror, remoteVars
<1>6. q \in toProcess' => remote'[q] # Absent /\ Serial(q) < remote'[q]
  BY <1>3 DEF List, Outdated
<1>7. q \in removed' => remote'[q] = Absent
  BY DEF List, Gone
<1> QED
  BY <1>1, <1>2, <1>4, <1>5, <1>6, <1>7, Ints
  DEF PackageInv, Serial, Behind, WholeSince, Absent, Off, Admitted, Fetch

\* The steps of the goroutine of a package, and of the loops, on that package.
LEMMA ProcessPackage ==
  ASSUME Distinct, TrueUpstream, IInv, TypeOK', NEW p \in Packages, Loop(p) \/ Goroutine(p),
         NEW q \in Packages
  PROVE  PackageInv(q)'
<1> USE DEF IInv
<1>1. PackageInv(q) /\ PackageInv(p)
  OBVIOUS
<1>2. /\ upstream' = upstream /\ last' = last /\ remote' = remote
      /\ toProcess' \subseteq toProcess /\ removed' \subseteq removed
  BY DEF Loop, Goroutine, Admit, Spawn, RemoveSimple, RemoveJSON, DeleteSerial, FetchJSON,
         FetchError, Truncate, Write, WriteError, SetSerial, remoteVars
<1>3. CASE p # q
  <2>1. Norm[p] # Norm[q] /\ Key[p] # Key[q] /\ Norm[q] \in Norms /\ Key[q] \in Keys
    BY <1>3, IndexAssumption DEF Distinct, IndexAssumption
  <2>2. rows'[Key[q]] = rows[Key[q]]
    BY <2>1 DEF Loop, Goroutine, Admit, Spawn, RemoveSimple, RemoveJSON, DeleteSerial, RowGone,
       FetchJSON, FetchError, Truncate, Write, WriteError, SetSerial, Upsert, mirror, TypeOK
  <2>3. pages'[Norm[q]] = pages[Norm[q]]
    BY <2>1 DEF Loop, Goroutine, Admit, Spawn, RemoveSimple, RemoveJSON, DeleteSerial, Erase,
       FetchJSON, FetchError, Truncate, Write, WriteError, SetSerial, mirror, TypeOK
  <2>4. working'[q] = working[q] /\ fetched'[q] = fetched[q]
    BY <1>3 DEF Loop, Goroutine, Admit, Spawn, RemoveSimple, RemoveJSON, DeleteSerial,
       FetchJSON, FetchError, Truncate, Write, WriteError, SetSerial, Finish, TypeOK
  <2> QED BY <1>1, <1>2, <2>2, <2>3, <2>4, Ints, Untouched
<1>4. CASE p = q
  <2> USE <1>4
  <2>1. Norm[q] \in Norms /\ Key[q] \in Keys
    BY IndexAssumption DEF IndexAssumption
  <2>2. CASE Admit(p)
    BY <1>1, <1>2, <2>2 DEF Admit, mirror, PackageInv, Serial, Behind, WholeSince, TypeOK,
       Admitted, Fetch
  <2>3. CASE Spawn(p)
    BY <1>1, <1>2, <2>3 DEF Spawn, mirror, PackageInv, Serial, Behind, WholeSince, TypeOK,
       Admitted, Fetch
  <2>4. CASE RemoveSimple(p) \/ RemoveJSON(p)
    <3>1. p \in removed
      BY <2>4 DEF RemoveSimple, RemoveJSON, TypeOK, Phased, NoSimple
    <3>2. rows' = rows /\ working'[q] \in {NoSimple, NoJSON}
      BY <2>4 DEF RemoveSimple, RemoveJSON, TypeOK
    <3>3. upstream[q] # Serial(q) \/ Serial(q) = Absent
      BY <1>1, <3>1, Ints DEF PackageInv, Serial, Absent
    <3>4. q \notin toProcess
      BY <1>1, <3>1 DEF PackageInv, Behind
    <3> QED BY <1>1, <1>2, <3>2, <3>3, <3>4
            DEF PackageInv, Serial, Behind, WholeSince, NoSimple, NoJSON, Admitted, Fetch
  <2>5. CASE DeleteSerial(p)
    <3>1. p \in removed
      BY <2>5 DEF DeleteSerial, TypeOK, Phased, NoSimple, NoJSON
    <3>2. q \notin toProcess
      BY <1>1, <3>1 DEF PackageInv, Behind
    <3>3. pages' = pages /\ working'[q] = Off /\ q \notin removed'
      BY <2>5 DEF DeleteSerial, TypeOK
    <3>4. rows'[Key[q]] \in {rows[Key[q]], NoRow}
      BY <2>1, <2>5 DEF DeleteSerial, RowGone, TypeOK
    <3>5. NoRow.serial = Absent
      BY DEF NoRow
    <3> QED BY <1>1, <1>2, <3>2, <3>3, <3>4, <3>5, Ints
            DEF PackageInv, Serial, Behind, WholeSince, Off, Absent, Admitted, Fetch
  <2>7. CASE FetchJSON(p)
    <3>1. working[p] = Fetch /\ upstream[p] # Absent /\ fetched'[p] = upstream[p]
          /\ working'[p] = Fetch + 1 /\ rows' = rows /\ pages' = pages
      BY <2>7 DEF FetchJSON, Fault, TrueUpstream, mirror, TypeOK, Absent
    <3> QED BY <1>1, <1>2, <3>1, Ints
            DEF PackageInv, Serial, Behind, WholeSince, Admitted, Fetch, Absent
  <2>8. CASE FetchError(p) \/ WriteError(p)
    <3>1. rows' = rows /\ pages' = pages /\ working'[q] = Off
      BY <2>8 DEF FetchError, WriteError, mirror, Finish, TypeOK
    <3>2. working[q] # Off
      BY <2>8, Ints DEF FetchError, WriteError, Writing, File, Fetch, Off
    <3> QED BY <1>1, <1>2, <3>1, <3>2, Ints, Untouched
  <2>9. CASE Truncate(p)
    <3>1. rows' = rows /\ working' = working /\ fetched' = fetched
      BY <2>9 DEF Truncate
    <3>2. File(q) \in Files /\ working[q] > Fetch /\ File(q) = working[q] - Fetch
      BY <2>9, Ints DEF Truncate, Writing, File, Fetch
    <3>3. \A i \in Files : i # File(q) => pages'[Norm[q]][i] = pages[Norm[q]][i]
      BY <2>1, <2>9, <3>2 DEF Truncate, TypeOK
    <3>4. upstream[q] # Serial(q) \/ Serial(q) = Absent
      BY <1>1, <3>2, Ints DEF PackageInv, Behind, Serial, Absent, Fetch
    <3> QED BY <1>1, <1>2, <3>1, <3>2, <3>3, <3>4, Ints
            DEF PackageInv, Serial, Behind, WholeSince, Fetch
  <2>10. CASE Write(p)
    <3>1. rows' = rows /\ working'[q] = working[q] + 1 /\ fetched' = fetched
      BY <2>10 DEF Write, TypeOK
    <3>2. File(q) \in Files /\ working[q] > Fetch /\ File(q) = working[q] - Fetch
      BY <2>10, Ints DEF Write, Writing, File, Fetch
    <3>3. \A i \in Files : i # File(q) => pages'[Norm[q]][i] = pages[Norm[q]][i]
      BY <2>1, <2>10, <3>2 DEF Write, TypeOK
    <3>4. pages'[Norm[q]][File(q)] = fetched[q]
      BY <2>1, <2>10, <3>2 DEF Write, TypeOK
    <3>5. upstream[q] # Serial(q) \/ Serial(q) = Absent
      BY <1>1, <3>2, Ints DEF PackageInv, Behind, Serial, Absent, Fetch
    <3> QED BY <1>1, <1>2, <3>1, <3>2, <3>3, <3>4, <3>5, Ints
            DEF PackageInv, Serial, Behind, WholeSince, Fetch
  <2>11. CASE SetSerial(p)
    <3>1. working[q] = Commit /\ working'[q] = Off /\ pages' = pages
      BY <2>11 DEF SetSerial, Commits, Finish, TypeOK
    <3>2. WholeSince(q, remote[q]) /\ Behind(q)
      BY <1>1, <3>1, Ints DEF PackageInv, WholeSince, Commit, Fetch
    <3>3. \/ rows'[Key[q]] = rows[Key[q]]
          \/ rows'[Key[q]].serial = remote[q] /\ rows'[Key[q]].name = q
      <4>1. CASE rows' = Upsert(q)
        <5>1. rows'[Key[q]] = [name   |-> IF Serial(q) = Absent THEN q ELSE rows[Key[q]].name,
                               serial |-> remote[q]]
          BY <2>1, <4>1 DEF Upsert, TypeOK, Serial
        <5>2. Serial(q) # Absent => rows[Key[q]].name = q
          BY <1>1 DEF PackageInv
        <5> QED BY <5>1, <5>2
      <4>2. rows' = Upsert(q) \/ rows' = rows
        BY <2>11 DEF SetSerial
      <4> QED BY <4>1, <4>2
    <3>4. q \notin toProcess' /\ q \notin removed'
      BY <1>1, <1>2, <3>1, <3>2, Ints DEF PackageInv, Behind, Commit, Fetch
    <3>5. WholeSince(q, remote[q])'
      BY <1>2, <3>1, <3>2 DEF WholeSince
    <3> QED BY <1>1, <1>2, <3>1, <3>2, <3>3, <3>4, <3>5, Ints
            DEF PackageInv, Serial, Behind, WholeSince, Off, Admitted, Fetch
  <2> QED BY <2>2, <2>3, <2>4, <2>5, <2>7, <2>8, <2>9, <2>10, <2>11 DEF Loop, Goroutine
<1> QED BY <1>3, <1>4

LEMMA PackageStep ==
  Distinct /\ TrueUpstream /\ IInv /\ [Next]_vars => IInv'
<1> SUFFICES ASSUME Distinct, TrueUpstream, IInv, [Next]_vars PROVE IInv'
  OBVIOUS
<1>1. TypeOK'
  BY TypeStep DEF IInv
<1> SUFFICES ASSUME NEW q \in Packages PROVE PackageInv(q)'
  BY <1>1 DEF IInv
<1>2. CASE List
  BY <1>1, <1>2, ListPackage
<1>3. ASSUME NEW p \in Packages, Release(p) \/ Delist(p) PROVE PackageInv(q)'
  BY <1>1, <1>3, UpstreamPackage
<1>4. ASSUME NEW p \in Packages, Loop(p) \/ Goroutine(p) PROVE PackageInv(q)'
  BY <1>1, <1>4, ProcessPackage
<1>5. CASE Wait \/ AllRemoved \/ TruncateRoot \/ WriteRoot \/ Cancel \/ UNCHANGED vars
  <2>1. /\ rows' = rows /\ pages' = pages /\ upstream' = upstream /\ last' = last
        /\ remote' = remote /\ working' = working /\ fetched' = fetched
        /\ toProcess' = toProcess /\ removed' = removed
    BY <1>5 DEF Wait, AllRemoved, TruncateRoot, WriteRoot, Cancel, vars, mirror, remoteVars
  <2> QED BY <1>1, <2>1, Ints, Untouched DEF IInv
<1>6. CASE Crash
  <2>1. /\ rows' = rows /\ pages' = pages /\ upstream' = upstream /\ last' = last
        /\ remote' = remote /\ working'[q] = Off /\ toProcess' = {} /\ removed' = {}
    BY <1>6 DEF Crash, mirror, remoteVars
  <2> QED
    BY <2>1, Ints
    DEF IInv, PackageInv, Serial, Behind, WholeSince, Off, Admitted, Fetch
<1> QED BY <1>2, <1>3, <1>4, <1>5, <1>6 DEF Next, Sync, World

LEMMA Repairs == IInv => Repairable
BY DEF IInv, PackageInv, Serial, Repairable, Local, WholeSince, Absent

(***************************************************************************)
(* Whatever the packages, the goroutines and the faults (but those of      *)
(* TrueUpstream), no serial is left that hides torn or missing files.      *)
(***************************************************************************)
THEOREM AlwaysRepairable ==
  ASSUME Distinct, TrueUpstream
  PROVE  Spec => []Repairable
<1>1. IInv /\ [Next]_vars => IInv'
  BY PackageStep
<1> QED BY <1>1, InitPackage, Repairs, PTL DEF Spec

(***************************************************************************)
(* What else a run keeps, on top of IInv.  Kept: until the serial of a     *)
(* package that was listed is due, its files are already as new as it.     *)
(* Covered: files without a row belong to a goroutine that will store one. *)
(***************************************************************************)
Bare(q, which) == \A i \in which : pages[Norm[q]][i] = Absent

Kept(q) ==
  /\ upstream[q] = Absent \/ Serial(q) <= upstream[q]
  /\ pc # "idle" /\ errCount = 0 /\ ctx = "live" /\ remote[q] # Absent
       => q \in toProcess \/ working[q] = Admitted \/ working[q] >= Fetch
          \/ WholeSince(q, remote[q])

Covered(q) ==
  faults = 0 =>
    /\ Serial(q) = Absent /\ working[q] <= Fetch => Bare(q, Files)
    /\ working[q] = NoSimple => Bare(q, Files \ {Artifacts})
    /\ working[q] = NoJSON => Bare(q, Files)

\* Nothing is left to process after wg.Wait, and the root pages list what was listed.
Rooted ==
  /\ pc \in {"remove", "root", "rootwrite", "done"} /\ ctx = "live" => toProcess = {}
  /\ pc = "rootwrite" => root = {}
  /\ pc = "done" => \A p \in root : remote[p] # Absent

RunInv == IInv /\ Rooted /\ \A q \in Packages : Kept(q) /\ Covered(q)

LEMMA InitRun == Init => RunInv
<1> SUFFICES ASSUME Init PROVE RunInv
  OBVIOUS
<1>1. IInv
  BY InitPackage
<1>2. Rooted
  BY DEF Init, Rooted
<1>3. ASSUME NEW q \in Packages PROVE Kept(q) /\ Covered(q)
  <2>1. Key[q] \in Keys /\ Norm[q] \in Norms
    BY IndexAssumption DEF IndexAssumption
  <2> QED BY <2>1 DEF Init, Kept, Covered, Bare, Serial, NoRow, Absent, Off, NoSimple, NoJSON
<1> QED BY <1>1, <1>2, <1>3 DEF RunInv

LEMMA RootedStep == IInv /\ Rooted /\ [Next]_vars => Rooted'
<1> SUFFICES ASSUME IInv, Rooted, [Next]_vars PROVE Rooted'
  OBVIOUS
<1> USE DEF Rooted
<1>1. ASSUME NEW p \in Packages, Release(p) \/ Delist(p) \/ Loop(p) \/ Goroutine(p)
      PROVE  Rooted'
  <2>1. /\ pc' = pc /\ ctx' = ctx /\ root' = root /\ remote' = remote
        /\ toProcess' \subseteq toProcess
    BY <1>1 DEF Release, Delist, Loop, Goroutine, Admit, Spawn, RemoveSimple, RemoveJSON,
       DeleteSerial, FetchJSON, FetchError, Truncate, Write, WriteError, SetSerial, mirror
  <2> QED BY <2>1
<1>2. CASE List \/ Crash
  BY <1>2 DEF List, Crash
<1>3. CASE Wait
  BY <1>3 DEF Wait, mirror
<1>4. CASE AllRemoved \/ TruncateRoot \/ Cancel \/ UNCHANGED vars
  BY <1>4 DEF AllRemoved, TruncateRoot, Cancel, vars, mirror
<1>5. CASE WriteRoot
  BY <1>5 DEF WriteRoot
<1> QED BY <1>1, <1>2, <1>3, <1>4, <1>5 DEF Next, Sync, World

\* A step that leaves alone what is said of a package.
LEMMA RunUntouched ==
  ASSUME TypeOK, TypeOK', NEW q \in Packages, Kept(q), Covered(q),
         rows'[Key[q]] = rows[Key[q]], pages'[Norm[q]] = pages[Norm[q]],
         upstream'[q] = upstream[q], remote'[q] = remote[q],
         pc # "idle" \/ pc' = "idle", errCount' >= errCount,
         ctx' = "live" => ctx = "live", faults' >= faults,
         working'[q] = working[q], q \in toProcess => q \in toProcess'
  PROVE  Kept(q)' /\ Covered(q)'
<1>1. errCount \in Nat /\ errCount' \in Nat /\ faults \in Nat /\ faults' \in Nat
  BY IndexAssumption DEF TypeOK, IndexAssumption
<1> QED BY <1>1 DEF Kept, Covered, Bare, Serial, WholeSince

LEMMA FaultsGrow ==
  ASSUME TypeOK, TypeOK', Next
  PROVE  faults \in Nat /\ faults' \in Nat /\ faults' >= faults
<1>1. faults \in Nat /\ faults' \in Nat
  BY IndexAssumption DEF IndexAssumption, TypeOK
<1>2. faults' = faults \/ faults' = faults + 1
  BY DEF Next, Sync, World, Loop, Goroutine, Release, Delist, List, Admit, Spawn, FetchJSON,
     FetchError, Truncate, Write, WriteError, SetSerial, Wait, RemoveSimple, RemoveJSON, Erase,
     DeleteSerial, AllRemoved, TruncateRoot, WriteRoot, Cancel, Crash, NoFault, Fault
<1> QED BY <1>1, <1>2

LEMMA RunUpstream ==
  ASSUME RunInv, TypeOK', NEW p \in Packages, Release(p) \/ Delist(p), NEW q \in Packages
  PROVE  Kept(q)' /\ Covered(q)'
<1>1. /\ rows' = rows /\ pages' = pages /\ remote' = remote /\ working' = working
      /\ pc' = pc /\ ctx' = ctx /\ errCount' = errCount /\ faults' = faults
      /\ toProcess' = toProcess
  BY DEF Release, Delist, mirror
<1>2. upstream'[q] \in {upstream[q], Absent, last + 1}
  BY DEF Release, Delist, RunInv, IInv, TypeOK
<1>3. Serial(q) <= last /\ Serial(q) \in Nat /\ last \in Nat /\ Kept(q) /\ Covered(q)
  BY Ints DEF RunInv, IInv, PackageInv, Serial
<1>4. upstream'[q] = Absent \/ Serial(q) <= upstream'[q]
  BY <1>2, <1>3 DEF Kept
<1> QED BY <1>1, <1>3, <1>4 DEF Kept, Covered, Bare, Serial, WholeSince

LEMMA RunList ==
  ASSUME TrueUpstream, RunInv, TypeOK', List, NEW q \in Packages
  PROVE  Kept(q)' /\ Covered(q)'
<1>1. remote'[q] = upstream[q]
  BY DEF List, Fault, TrueUpstream, RunInv, IInv, TypeOK, Absent
<1>2. PackageInv(q) /\ Kept(q) /\ Covered(q)
  BY DEF RunInv, IInv
<1>3. Local(q) = Serial(q)
  BY <1>2 DEF PackageInv, Serial, Local, Absent
<1>4. /\ rows' = rows /\ pages' = pages /\ upstream' = upstream /\ working' = working
  BY DEF List, mirror, remoteVars
<1>5. remote'[q] # Absent /\ q \notin toProcess' => Serial(q) >= upstream[q]
  BY <1>1, <1>3, Ints DEF List, Outdated, RunInv, IInv, Serial
<1>6. faults' = 0 => faults = 0
  BY FaultsGrow DEF RunInv, IInv, Next, Sync
<1>7. Covered(q)'
  BY <1>2, <1>4, <1>6 DEF Covered, Bare, Serial
<1>8. remote'[q] # Absent /\ q \notin toProcess' => WholeSince(q, remote'[q])
  BY <1>1, <1>2, <1>5, Ints DEF Kept, PackageInv, RunInv, IInv, Serial, Absent
<1> QED BY <1>2, <1>4, <1>7, <1>8 DEF Kept, Serial, WholeSince

\* The steps of the process with one package, on the others and on it.
LEMMA RunOther ==
  ASSUME Distinct, RunInv, TypeOK', NEW p \in Packages, Loop(p) \/ Goroutine(p),
         NEW q \in Packages, p # q
  PROVE  Kept(q)' /\ Covered(q)'
<1> USE DEF RunInv, IInv
<1>1. Norm[p] # Norm[q] /\ Key[p] # Key[q] /\ Norm[q] \in Norms /\ Key[q] \in Keys
  BY IndexAssumption DEF Distinct, IndexAssumption
<1>2. rows'[Key[q]] = rows[Key[q]]
  BY <1>1 DEF Loop, Goroutine, Admit, Spawn, RemoveSimple, RemoveJSON, DeleteSerial, RowGone,
     FetchJSON, FetchError, Truncate, Write, WriteError, SetSerial, Upsert, mirror, TypeOK
<1>3. pages'[Norm[q]] = pages[Norm[q]]
  BY <1>1 DEF Loop, Goroutine, Admit, Spawn, RemoveSimple, RemoveJSON, DeleteSerial, Erase,
     FetchJSON, FetchError, Truncate, Write, WriteError, SetSerial, mirror, TypeOK
<1>4. working'[q] = working[q] /\ (q \in toProcess => q \in toProcess')
  BY DEF Loop, Goroutine, Admit, Spawn, RemoveSimple, RemoveJSON, DeleteSerial,
     FetchJSON, FetchError, Truncate, Write, WriteError, SetSerial, Finish, TypeOK
<1>5. upstream' = upstream /\ remote' = remote /\ pc' = pc /\ ctx' = ctx
  BY DEF Loop, Goroutine, Admit, Spawn, RemoveSimple, RemoveJSON, DeleteSerial, FetchJSON,
         FetchError, Truncate, Write, WriteError, SetSerial, remoteVars
<1>6. errCount' \in {errCount, errCount + 0, errCount + 1} /\ errCount \in Nat
  BY DEF Loop, Goroutine, Admit, Spawn, RemoveSimple, RemoveJSON, DeleteSerial, FetchJSON,
         FetchError, Truncate, Write, WriteError, SetSerial, Finish, TypeOK
<1>7. faults' >= faults
  BY FaultsGrow DEF Next, Sync
<1> QED BY <1>2, <1>3, <1>4, <1>5, <1>6, <1>7, RunUntouched

LEMMA RunProcess ==
  ASSUME Distinct, TrueUpstream, RunInv, TypeOK', NEW q \in Packages, Loop(q) \/ Goroutine(q)
  PROVE  Kept(q)' /\ Covered(q)'
<1>1. PackageInv(q) /\ Kept(q) /\ Covered(q) /\ TypeOK
  BY DEF RunInv, IInv
<1>2. Norm[q] \in Norms /\ Key[q] \in Keys
  BY IndexAssumption DEF IndexAssumption
<1>3. faults \in Nat /\ faults' \in Nat /\ faults' >= faults
  BY <1>1, FaultsGrow DEF Next, Sync
<1>4. errCount \in Nat /\ Artifacts \in Nat \ {0}
  BY <1>1, IndexAssumption DEF TypeOK, IndexAssumption
<1>5. upstream' = upstream /\ remote' = remote /\ pc' = pc /\ ctx' = ctx
  BY DEF Loop, Goroutine, Admit, Spawn, RemoveSimple, RemoveJSON, DeleteSerial, FetchJSON,
         FetchError, Truncate, Write, WriteError, SetSerial, remoteVars
<1>6. CASE Admit(q) \/ Spawn(q)
  <2>1. /\ rows' = rows /\ pages' = pages /\ errCount' = errCount /\ faults' = faults
        /\ working[q] <= Fetch /\ working'[q] \in {Admitted, Fetch}
    <3>1. CASE Admit(q)
      <4>1. working[q] <= Fetch
        BY <1>1, <3>1, Ints DEF Admit, PackageInv, Fetch
      <4> QED BY <1>1, <3>1, <4>1 DEF Admit, mirror, TypeOK
    <3>2. CASE Spawn(q)
      BY <1>1, <3>2 DEF Spawn, mirror, TypeOK, Admitted, Fetch
    <3> QED BY <1>6, <3>1, <3>2
  <2> QED BY <1>1, <1>5, <2>1 DEF Kept, Covered, Bare, Serial, WholeSince, Admitted, Fetch,
             NoSimple, NoJSON
<1>7. CASE FetchJSON(q)
  <2>1. /\ rows' = rows /\ pages' = pages /\ errCount' = errCount /\ faults' = faults
        /\ working'[q] = Fetch + 1
    BY <1>1, <1>7 DEF FetchJSON, NoFault, Fault, TrueUpstream, mirror, TypeOK
  <2> QED BY <1>1, <1>5, <2>1 DEF Kept, Covered, Bare, Serial, WholeSince, Fetch, NoSimple, NoJSON
<1>8. CASE FetchError(q)
  <2>1. /\ rows' = rows /\ pages' = pages /\ errCount' = errCount + 1
        /\ working[q] = Fetch /\ working'[q] = Off
    BY <1>1, <1>8 DEF FetchError, Finish, mirror, TypeOK
  <2> QED BY <1>1, <1>3, <1>4, <1>5, <2>1 DEF Kept, Covered, Bare, Serial, Fetch, Off, NoSimple, NoJSON
<1>9. CASE WriteError(q)
  <2>1. rows' = rows /\ errCount' = errCount + 1 /\ faults' = faults + 1
    BY <1>9 DEF WriteError, Finish, Fault, mirror
  <2> QED BY <1>1, <1>3, <1>4, <1>5, <2>1 DEF Kept, Covered, Serial
<1>10. CASE Truncate(q) \/ Write(q)
  <2>1. /\ rows' = rows /\ errCount' = errCount /\ faults' = faults
        /\ working'[q] \in {working[q], working[q] + 1}
    BY <1>1, <1>10 DEF Truncate, Write, TypeOK
  <2>2. working[q] > Fetch
    BY <1>1, <1>10, Ints DEF Truncate, Write, Writing, File, Fetch, Files
  <2>3. working'[q] \in Int /\ working'[q] > Fetch
    BY <1>1, <2>1, <2>2, Ints DEF Fetch
  <2> QED BY <1>1, <1>5, <2>1, <2>3 DEF Kept, Covered, Serial, Fetch, NoSimple, NoJSON
<1>11. CASE SetSerial(q)
  <2>1. working[q] = Commit /\ pages' = pages /\ working'[q] = Off
    BY <1>1, <1>11 DEF SetSerial, Commits, Finish, TypeOK
  <2>2. WholeSince(q, remote[q]) /\ Behind(q)
    BY <1>1, <2>1, Ints DEF PackageInv, WholeSince, Commit, Fetch
  <2>3. CASE rows' = rows
    <3>1. faults' = faults + 1 \/ rows' = Upsert(q)
      BY <1>11 DEF SetSerial, Fault
    <3>2. ~ rows' = Upsert(q)
      BY <1>1, <1>2, <2>2, <2>3, Ints DEF Upsert, Behind, Serial, TypeOK
    <3> QED BY <1>1, <1>3, <1>5, <2>1, <2>2, <2>3, <3>1, <3>2
            DEF Kept, Covered, Serial, WholeSince
  <2>4. CASE rows' = Upsert(q)
    <3>1. Serial(q)' = remote[q]
      BY <1>1, <1>2, <2>4 DEF Upsert, Serial, TypeOK
    <3> QED BY <1>5, <2>1, <2>2, <3>1, Ints
            DEF Kept, Covered, WholeSince, Behind, Off, NoSimple, NoJSON
  <2> QED BY <1>11, <2>3, <2>4 DEF SetSerial
<1>12. CASE RemoveSimple(q) \/ RemoveJSON(q)
  <2>1. q \in removed /\ remote[q] = Absent
    <3>1. q \in removed
      BY <1>1, <1>12 DEF RemoveSimple, RemoveJSON, TypeOK, Phased, NoSimple
    <3> QED BY <1>1, <3>1 DEF PackageInv
  <2>2. rows' = rows
    BY <1>12 DEF RemoveSimple, RemoveJSON
  <2>3. Kept(q)'
    BY <1>1, <1>5, <2>1, <2>2 DEF Kept, Serial
  <2>4. ASSUME NEW which, Erase(q, which), faults' = 0
        PROVE  \A i \in Files :
                 pages'[Norm[q]][i] = IF i \in which THEN Absent ELSE pages[Norm[q]][i]
    <3>1. ~ Fault("remove")
      BY <1>3, <2>4 DEF Fault
    <3> QED BY <1>1, <1>2, <2>4, <3>1 DEF Erase, TypeOK
  <2>5. CASE RemoveSimple(q)
    <3>1. Erase(q, Files \ {Artifacts}) /\ working'[q] = NoSimple /\ working[q] = Off
      BY <1>1, <2>5 DEF RemoveSimple, TypeOK
    <3>2. faults' = 0 => Bare(q, Files \ {Artifacts})'
      BY <2>4, <3>1 DEF Bare
    <3>3. faults' = 0 /\ Serial(q) = Absent => Bare(q, Files)'
      BY <1>1, <1>3, <2>4, <3>1 DEF Covered, Bare, Off, Fetch
    <3> QED BY <2>2, <2>3, <3>1, <3>2, <3>3 DEF Covered, Serial, NoSimple, NoJSON
  <2>6. CASE RemoveJSON(q)
    <3>1. Erase(q, {Artifacts}) /\ working'[q] = NoJSON /\ working[q] = NoSimple
      BY <1>1, <2>6 DEF RemoveJSON, JSONEntry, TypeOK
    <3>2. faults' = 0 => Bare(q, Files)'
      BY <1>1, <1>3, <2>4, <3>1 DEF Covered, Bare
    <3> QED BY <2>2, <2>3, <3>1, <3>2 DEF Covered, Serial, NoSimple, NoJSON
  <2> QED BY <1>12, <2>5, <2>6
<1>13. CASE DeleteSerial(q)
  <2>1. remote[q] = Absent
    <3>1. q \in removed
      BY <1>1, <1>13 DEF DeleteSerial, TypeOK, Phased, NoSimple, NoJSON
    <3> QED BY <1>1, <3>1 DEF PackageInv
  <2>2. pages' = pages /\ working[q] = NoJSON /\ working'[q] = Off
    BY <1>1, <1>13 DEF DeleteSerial, TypeOK
  <2>3. Serial(q)' \in {Serial(q), Absent}
    <3>1. rows'[Key[q]] \in {rows[Key[q]], NoRow}
      BY <1>1, <1>2, <1>13 DEF DeleteSerial, RowGone, TypeOK
    <3> QED BY <3>1 DEF Serial, NoRow
  <2>4. upstream[q] = Absent \/ Serial(q)' <= upstream[q]
    BY <1>1, <2>3, Ints DEF Kept, Absent
  <2> QED BY <1>1, <1>3, <1>5, <2>1, <2>2, <2>4 DEF Kept, Covered, Bare, Off, NoSimple, NoJSON
<1> QED BY <1>6, <1>7, <1>8, <1>9, <1>10, <1>11, <1>12, <1>13 DEF Loop, Goroutine

LEMMA RunStep ==
  ASSUME Distinct, TrueUpstream
  PROVE  RunInv /\ [Next]_vars => RunInv'
<1> SUFFICES ASSUME RunInv, [Next]_vars PROVE RunInv'
  OBVIOUS
<1>1. IInv' /\ TypeOK' /\ Rooted'
  BY PackageStep, RootedStep DEF RunInv, IInv
<1> SUFFICES ASSUME NEW q \in Packages PROVE Kept(q)' /\ Covered(q)'
  BY <1>1 DEF RunInv
<1>2. CASE List
  BY <1>1, <1>2, RunList
<1>3. ASSUME NEW p \in Packages, Release(p) \/ Delist(p) PROVE Kept(q)' /\ Covered(q)'
  BY <1>1, <1>3, RunUpstream
<1>4. ASSUME NEW p \in Packages, Loop(p) \/ Goroutine(p) PROVE Kept(q)' /\ Covered(q)'
  BY <1>1, <1>4, RunOther, RunProcess
<1>5. CASE Wait \/ AllRemoved \/ TruncateRoot \/ WriteRoot \/ Cancel \/ UNCHANGED vars
  <2>1. /\ rows' = rows /\ pages' = pages /\ upstream' = upstream /\ remote' = remote
        /\ working' = working /\ toProcess' = toProcess /\ errCount' = errCount
        /\ (ctx' = "live" => ctx = "live") /\ (pc # "idle" \/ pc' = "idle")
    BY <1>5 DEF Wait, AllRemoved, TruncateRoot, WriteRoot, Cancel, vars, mirror, remoteVars
  <2>2. faults' >= faults /\ errCount' >= errCount
    BY <1>1, <1>5, <2>1, FaultsGrow DEF RunInv, IInv, TypeOK, vars
  <2> QED BY <1>1, <2>1, <2>2, RunUntouched DEF RunInv, IInv
<1>6. CASE Crash
  <2>1. /\ rows' = rows /\ upstream' = upstream /\ pc' = "idle" /\ faults' = faults + 1
    BY <1>6 DEF Crash, Fault, mirror, remoteVars
  <2>2. faults \in Nat
    BY IndexAssumption DEF IndexAssumption, RunInv, IInv, TypeOK
  <2> QED BY <2>1, <2>2 DEF RunInv, Kept, Covered, Serial
<1> QED BY <1>2, <1>3, <1>4, <1>5, <1>6 DEF Next, Sync, World

(***************************************************************************)
(* A sync that counted no error and was not cancelled leaves every listed  *)
(* package whole, for any packages, concurrency and faults but those of    *)
(* TrueUpstream.                                                           *)
(***************************************************************************)
THEOREM ListedAreWhole ==
  ASSUME Distinct, TrueUpstream
  PROVE  Spec => []ListedHavePages
<1>1. RunInv => ListedHavePages
  <2> SUFFICES ASSUME RunInv, pc = "done", errCount = 0, ctx = "live", NEW p \in root
               PROVE  remote[p] # Absent /\ WholeSince(p, remote[p])
    BY DEF ListedHavePages
  <2>1. p \in Packages /\ TypeOK /\ Kept(p)
    BY DEF RunInv, IInv, TypeOK
  <2>2. remote[p] # Absent /\ toProcess = {}
    BY DEF RunInv, Rooted
  <2>3. working[p] # Admitted /\ ~ working[p] >= Fetch
    BY <2>1, Ints DEF TypeOK, Phased, Off, Fetch
  <2> QED BY <2>1, <2>2, <2>3 DEF Kept
<1> QED BY <1>1, InitRun, RunStep, PTL DEF Spec

(***************************************************************************)
(* As long as nothing fails, the files of every package can be found from  *)
(* a row, for the removal to delete them.                                  *)
(***************************************************************************)
THEOREM NothingOrphaned ==
  ASSUME Distinct, TrueUpstream
  PROVE  Spec => []NoOrphans
<1>1. RunInv => NoOrphans
  <2> SUFFICES ASSUME RunInv, faults = 0, NEW p \in Packages, working[p] = Off,
                      Local(p) = Absent
               PROVE  \A i \in Files : pages[Norm[p]][i] = Absent
    BY DEF NoOrphans
  <2>1. Serial(p) = Absent
    BY DEF RunInv, IInv, PackageInv, Serial, Local
  <2> QED BY <2>1 DEF RunInv, Covered, Bare, Off, Fetch
<1> QED BY <1>1, InitRun, RunStep, PTL DEF Spec

=============================================================================
