------------------------ MODULE ConfigMigrateProofs ------------------------
(***************************************************************************)
(* Proofs about ConfigMigrate, for any settings, values and versions and   *)
(* any number of starts, edits, crashes and I/O errors.                    *)
(***************************************************************************)
EXTENDS ConfigMigrate, TLAPS

\* The content c is of version v, with the settings v was left with, and parses unless the
\* user has changed something: these may be lost once a fault has cut the file that
\* config.toml is.
Kept(c, v) ==
  /\ c # None /\ c.version = v
  /\ torn \/ (Parsed(c) = was[v] /\ (c.parses = "Boost" \/ edits > 0))

\* The files of the versions before v, where they exist, are kept.
Older(v) == \A x \in 0..(v - 1) : files[x] # None => Kept(files[x], x)

\* config.toml is of version v, and not the file of an earlier version than v.
CurrentKept(v) ==
  /\ link # None
  /\ link # Plain => v <= link
  /\ Kept(Current, v)

\* The versions still to be passed have the settings of the present one.
Passed == at < to /\ \A x \in at..to : was[x] = was[at]

AtRest == link = None \/ (CurrentKept(Current.version) /\ Older(Current.version))

\* What holds at each step of a migration.
Sound ==
  /\ pc \in Stopped \cup {"version"} => AtRest
  /\ pc = "read" => Passed /\ (link = None \/ (CurrentKept(at) /\ Older(at)))
  /\ pc = "cutOld" => Passed /\ CurrentKept(at) /\ Older(at) /\ Kept(buf, at)
  /\ pc = "writeOld" =>
       /\ Passed /\ Older(at) /\ Kept(buf, at)
       /\ link # None /\ (link # Plain => at <= link)
       /\ files[at] = Cut
       /\ link # at => CurrentKept(at)
  /\ pc = "migrate" => Passed /\ CurrentKept(at) /\ Older(at + 1)
  /\ pc = "cutNew" => Passed /\ CurrentKept(at) /\ Older(at + 1) /\ Kept(buf, at + 1)
  /\ pc = "writeNew" =>
       /\ Passed /\ Older(at + 1) /\ Kept(buf, at + 1)
       /\ link # None
       /\ files[to] = Cut
       /\ link # to => CurrentKept(at)
  /\ pc = "stat" => to < at /\ CurrentKept(at) /\ Older(at)
  /\ pc = "remove" => link # None /\ AtRest
  /\ pc = "link" => link = None
  /\ pc \in {"remove", "link"} =>
       \/ Passed /\ Kept(files[to], at + 1) /\ Older(at + 1)
       \/ to < at /\ Kept(files[to], to) /\ Older(to)

\* What the types of the steps rest on: an upgrade has a next version, and a file to read.
\* No binary is of version 0.  And config.toml is not removed for good but by a fault.
Upgrading ==
  /\ pc # "idle" => to # 0
  /\ pc \in {"read", "cutOld", "writeOld", "migrate", "cutNew", "writeNew"} => at < to
  /\ pc \in {"cutOld", "writeOld", "migrate"} => Current # None
  /\ link = None => pc = "link" \/ faults > 0

Typed == TypeOK /\ Upgrading

IInv == Typed /\ Sound

USE ConfigMigrateAssumption

-----------------------------------------------------------------------------
(* Types. *)

LEMMA CutTyped == Cut \in Content
BY DEF Cut, Content, Parses, Versions

LEMMA LinkTyped == None \notin Versions \cup {Plain}
OBVIOUS

LEMMA InitTyped == Init => Typed
<1> SUFFICES ASSUME Init PROVE TypeOK /\ Upgrading
  BY DEF Typed
<1>1. files \in [Versions \cup {Plain} -> Content \cup {None}]
  BY CutTyped DEF Init
<1>2. was \in [Versions -> [Keys -> Values]] /\ buf \in Content
  BY CutTyped DEF Init
<1>3. pc = "idle" /\ pc \in PCs
  BY DEF Init, PCs, Stopped
<1>4. link \in Versions \cup {Plain, None} /\ to \in Versions /\ at \in Versions
  BY DEF Init, Versions
<1>5. torn \in BOOLEAN
  BY DEF Init
<1>6. runs \in 0..MaxRuns /\ edits \in 0..MaxEdits /\ faults \in 0..MaxFaults
  BY DEF Init
<1>7. TypeOK
  BY <1>1, <1>2, <1>3, <1>4, <1>5, <1>6 DEF TypeOK
<1> QED
  BY <1>3, <1>7, LinkTyped DEF Init, Upgrading

LEMMA ParsedTyped ==
  ASSUME NEW c \in Content
  PROVE  Parsed(c) \in [Keys -> Values]
BY DEF Parsed, Content

\* What ConfigUpdate returns, when it is no error.
LEMMA UpdateRight ==
  ASSUME NEW s \in [Keys -> Values], NEW v \in Versions, ConfigUpdate(s, v) # None
  PROVE  /\ ConfigUpdate(s, v) \in Content
         /\ ConfigUpdate(s, v).version = v
         /\ ConfigUpdate(s, v).parses = "Boost"
         /\ Parsed(ConfigUpdate(s, v)) = s
<1>1. /\ ConfigUpdate(s, v) = Commented(s, v)
      /\ Parsed(Commented(s, v)) = s
  BY DEF ConfigUpdate
<1>2. /\ Commented(s, v) \in Content
      /\ Commented(s, v).version = v /\ Commented(s, v).parses = "Boost"
  BY DEF Commented, Content, Parses
<1> QED
  BY <1>1, <1>2

LEMMA CurrentTyped ==
  ASSUME TypeOK
  PROVE  /\ Current \in Content \cup {None}
         /\ Current # None => link # None /\ link \in Versions \cup {Plain}
         /\ Current # None => Current.version \in Versions
         /\ VersionOf(Current) \in Versions
BY DEF TypeOK, Current, VersionOf, Content, Versions, Plain

LEMMA MigrateTyped ==
  ASSUME Typed, Migrate
  PROVE  /\ at + 1 \in Versions
         /\ Current \in Content
         /\ Parsed(Current) \in [Keys -> Values]
<1>1. at < to /\ Current # None
  BY DEF Typed, Upgrading, Migrate
<1>2. at + 1 \in Versions
  BY <1>1 DEF Typed, TypeOK, Versions
<1> QED
  BY <1>1, <1>2, CurrentTyped, ParsedTyped DEF Typed

LEMMA StepTyped == Typed /\ [Next]_vars => Typed'
<1> SUFFICES ASSUME Typed, [Next]_vars
             PROVE  Typed'
  OBVIOUS
<1> USE DEF Typed, Upgrading, TypeOK, PCs, Stopped
<1>1. CASE UNCHANGED vars
  BY <1>1 DEF vars, disk, counts, Current
<1>2. ASSUME Fail, pc \notin Stopped \cup {"link"} PROVE Typed'
  BY <1>2 DEF Fail, disk, counts
<1>3. ASSUME NEW v \in Versions \ {0}, Start(v) PROVE Typed'
  BY <1>3 DEF Start, disk, Versions
<1>4. CASE ReadVersion
  BY <1>2, <1>4, CurrentTyped DEF ReadVersion, disk, counts, Versions
<1>5. CASE ReadOld
  BY <1>5, <1>2, CurrentTyped DEF ReadOld, disk, counts, Current
<1>6. CASE CutOld
  BY <1>6, CutTyped DEF CutOld, CutFile, counts, Current
<1>7. CASE WriteOld
  BY <1>7, CutTyped DEF WriteOld, WriteFile, counts, Current
<1>8. CASE Migrate
  BY <1>8, <1>2, MigrateTyped, UpdateRight DEF Migrate, disk, counts
<1>9. CASE CutNew
  BY <1>9, CutTyped DEF CutNew, CutFile, counts
<1>10. CASE WriteNew
  BY <1>10, CutTyped DEF WriteNew, WriteFile, counts
<1>11. CASE StatOlder
  BY <1>11, <1>2 DEF StatOlder, disk, counts
<1>12. CASE RemoveLink
  BY <1>12 DEF RemoveLink, counts
<1>13. CASE MakeSymlink
  BY <1>13, LinkTyped DEF MakeSymlink, counts, Versions
<1>14. ASSUME NEW then \in {"idle", "ioFailed"}, CutShort(then) PROVE Typed'
  <2>1. files' \in [Versions \cup {Plain} -> Content \cup {None}]
    <3>1. CASE Written = None
      BY <1>14, <3>1 DEF CutShort
    <3>2. CASE Written # None
      BY <1>14, <3>2 DEF CutShort, Parts
    <3> QED
      BY <3>1, <3>2
  <2>2. torn' \in BOOLEAN
    BY <1>14 DEF CutShort
  <2>3. pc' = then /\ faults' = faults + 1 /\ faults' \in 0..MaxFaults
    BY <1>14 DEF CutShort
  <2>4. buf' \in Content
    BY <1>14, CutTyped DEF CutShort
  <2>5. UNCHANGED <<link, to, at, was, runs, edits>> /\ pc # "idle"
    BY <1>14 DEF CutShort
  <2> QED
    BY <2>1, <2>2, <2>3, <2>4, <2>5
<1>15. ASSUME NEW k \in Keys, NEW v \in Values, Edit(k, v) PROVE Typed'
  <2>1. pc' = "idle"
    BY <1>15 DEF Edit
  <2>2. /\ link \in Versions \cup {Plain} /\ Current.version \in Versions
        /\ files[link] \in Content
    BY <1>15, CurrentTyped DEF Edit, Current
  <2>3. files' \in [Versions \cup {Plain} -> Content \cup {None}]
    <3> DEFINE edited == [[files[link] EXCEPT !.set[k] = v] EXCEPT !.parses = "Boost"]
    <3>1. edited \in Content
      BY <2>2 DEF Content, Parses
    <3>2. files' = [files EXCEPT ![link] = edited]
      BY <1>15 DEF Edit
    <3> QED
      BY <2>2, <3>1, <3>2
  <2>4. was' \in [Versions -> [Keys -> Values]]
    BY <1>15, <2>2 DEF Edit
  <2>5. edits' \in 0..MaxEdits
    BY <1>15 DEF Edit
  <2>6. pc # "link"
    BY <1>15 DEF Edit
  <2> QED
    BY <1>15, <2>1, <2>3, <2>4, <2>5, <2>6 DEF Edit
<1>16. ASSUME NEW parses \in Parses, Spoil(parses) PROVE Typed'
  <2>1. pc' = "idle" /\ pc # "link"
    BY <1>16 DEF Spoil
  <2>2. link \in Versions \cup {Plain} /\ files[link] \in Content
    BY <1>16, CurrentTyped DEF Spoil, Current
  <2>3. files' \in [Versions \cup {Plain} -> Content \cup {None}]
    BY <1>16, <2>2 DEF Spoil, Content
  <2>4. edits' \in 0..MaxEdits
    BY <1>16 DEF Spoil
  <2> QED
    BY <1>16, <2>1, <2>3, <2>4 DEF Spoil
<1> QED
  BY <1>1, <1>3, <1>4, <1>5, <1>6, <1>7, <1>8, <1>9, <1>10, <1>11, <1>12, <1>13, <1>14, <1>15,
     <1>16
  DEF Next, Step, Crash, IOError

\* The state of the migration always has its types.
THEOREM TypeCorrect == Spec => []TypeOK
<1>1. Typed => TypeOK
  BY DEF Typed
<1> QED
  BY <1>1, InitTyped, StepTyped, PTL DEF Spec

-----------------------------------------------------------------------------
(* Settings. *)

\* The facts about types that most steps need.
LEMMA Numbers ==
  ASSUME Typed
  PROVE  /\ at \in 0..Newest /\ to \in 0..Newest
         /\ link \in (0..Newest) \cup {Plain, None}
         /\ Plain = -1
         /\ Newest \in Nat
         /\ None \notin (0..Newest) \cup {Plain}
         /\ DOMAIN files = (0..Newest) \cup {Plain}
         /\ DOMAIN was = 0..Newest
BY DEF Typed, TypeOK, Versions, Plain

\* A kept config.toml has a version of its own accord.
LEMMA KeptVersion ==
  ASSUME NEW v, CurrentKept(v)
  PROVE  Current # None /\ Current.version = v /\ link # None
BY DEF CurrentKept, Kept

\* A run that stops, by an error or a crash, while config.toml is kept.
LEMMA Stops ==
  ASSUME AtRest, pc' \in Stopped, UNCHANGED <<disk, was, edits>>, torn => torn'
  PROVE  Sound'
<1>1. AtRest'
  BY DEF AtRest, CurrentKept, Older, Kept, Current, disk
<1> QED
  BY <1>1 DEF Sound, Stopped

LEMMA KeptAtRest ==
  ASSUME NEW v, CurrentKept(v), Older(v)
  PROVE  AtRest
BY KeptVersion DEF AtRest

LEMMA OlderFewer ==
  ASSUME NEW v \in Nat, Older(v + 1)
  PROVE  Older(v)
BY DEF Older

LEMMA InitSound == Init => Sound
<1> SUFFICES ASSUME Init PROVE Sound
  OBVIOUS
<1>1. Current = Cut /\ link = Plain
  BY DEF Init, Current, Plain, Versions
<1>2. Cut # None /\ Cut.version = 0 /\ Cut.parses = "Boost"
  BY CutTyped DEF Cut
<1>3. Parsed(Cut) = Default
  BY DEF Parsed, Cut
<1>4. was[0] = Default
  BY DEF Init, Versions
<1>5. CurrentKept(0)
  BY <1>1, <1>2, <1>3, <1>4 DEF CurrentKept, Kept, Plain, Versions
<1>6. Older(0)
  BY DEF Older
<1> QED
  BY <1>5, <1>6, KeptAtRest DEF Init, Sound

LEMMA StartSound ==
  ASSUME IInv, NEW v \in Versions, Start(v)
  PROVE  Sound'
<1>1. AtRest
  BY DEF IInv, Sound, Start
<1>2. AtRest'
  BY <1>1 DEF AtRest, CurrentKept, Older, Kept, Current, Start, disk
<1> QED
  BY <1>2 DEF Sound, Start, Stopped

LEMMA ReadVersionSound ==
  ASSUME IInv, ReadVersion
  PROVE  Sound'
<1> DEFINE v == VersionOf(Current)
<1>1. AtRest
  BY DEF IInv, Sound, ReadVersion
<1>14. CASE Current # None /\ Current.parses = "nothing"
  BY <1>1, <1>14, Stops DEF ReadVersion, Fail, Stopped, counts
<1> SUFFICES ASSUME ~(Current # None /\ Current.parses = "nothing") PROVE Sound'
  BY <1>14
<1>2. v \in 0..Newest
  BY CurrentTyped DEF IInv, Typed, Versions
<1>3. Current # None => v = Current.version
  BY DEF VersionOf
<1>4. UNCHANGED <<files, link, to, torn, edits>> /\ at' = v
  BY DEF ReadVersion, disk, counts
<1>5. link = None \/ (CurrentKept(v) /\ Older(v))
  BY <1>1, <1>3, KeptVersion DEF AtRest
<1>6. pc' = IF v < to THEN "read" ELSE IF v > to THEN "stat" ELSE "done"
  BY DEF ReadVersion
<1>7. \A x \in v..to : was'[x] = was[v]
  BY <1>2, Numbers DEF ReadVersion, Versions, IInv
<1>8. \A x \in 0..v : was'[x] = was[x]
  BY <1>2, Numbers DEF ReadVersion, Versions, IInv
<1> HIDE DEF v
<1>9. (link = None \/ (CurrentKept(at) /\ Older(at)))'
  BY <1>2, <1>4, <1>5, <1>8 DEF CurrentKept, Older, Kept, Current
<1>10. AtRest'
  BY <1>9 DEF AtRest, CurrentKept, Kept
<1>11. CASE v < to
  <2>1. pc' = "read"
    BY <1>6, <1>11
  <2>3. Passed'
    BY <1>2, <1>4, <1>11, <1>7, Numbers DEF Passed, IInv
  <2> QED
    BY <1>4, <1>9, <2>1, <2>3 DEF Sound, Stopped
<1>12. CASE v > to
  <2>1. pc' = "stat"
    BY <1>6, <1>12, <1>2, Numbers DEF IInv
  <2>2. link # None
    BY <1>2, <1>12, Numbers DEF IInv, VersionOf, Current, v
  <2> QED
    BY <1>4, <1>9, <1>12, <2>1, <2>2 DEF Sound, Stopped
<1>13. CASE v = to
  <2>1. pc' = "done"
    BY <1>6, <1>13, <1>2, Numbers DEF IInv
  <2> QED
    BY <1>10, <2>1 DEF Sound, Stopped
<1> QED
  BY <1>2, <1>11, <1>12, <1>13, Numbers DEF IInv

LEMMA ReadOldSound ==
  ASSUME IInv, ReadOld
  PROVE  Sound'
<1>1. Passed /\ (link = None \/ (CurrentKept(at) /\ Older(at)))
  BY DEF IInv, Sound, ReadOld
<1>2. CASE Current = None
  <2>1. AtRest
    BY <1>1, KeptAtRest DEF AtRest
  <2> QED
    BY <1>2, <2>1, Stops DEF ReadOld, Fail, Stopped, counts
<1>3. CASE Current # None
  <2>1. pc' = "cutOld" /\ buf' = Current /\ UNCHANGED <<files, link, to, at, was, torn, edits>>
    BY <1>3 DEF ReadOld, disk, counts
  <2>2. CurrentKept(at) /\ Older(at)
    BY <1>1, <1>3 DEF Current
  <2>3. Passed' /\ CurrentKept(at)' /\ Older(at)' /\ Kept(buf, at)'
    BY <1>1, <2>1, <2>2 DEF Passed, CurrentKept, Older, Kept, Current
  <2> QED
    BY <2>1, <2>3 DEF Sound, Stopped
<1> QED
  BY <1>2, <1>3

LEMMA CutOldSound ==
  ASSUME IInv, CutOld
  PROVE  Sound'
<1>1. Passed /\ CurrentKept(at) /\ Older(at) /\ Kept(buf, at)
  BY DEF IInv, Sound, CutOld
<1>2. pc' = "writeOld" /\ UNCHANGED <<link, to, at, buf, was, torn, edits>>
  BY DEF CutOld, CutFile, counts
<1>3. \A f \in (0..Newest) \cup {Plain} : f # at => files'[f] = files[f]
  BY Numbers DEF CutOld, CutFile, IInv
<1>4. Passed' /\ Older(at)' /\ Kept(buf, at)'
  BY <1>1, <1>2, <1>3, Numbers DEF Passed, Older, Kept, IInv
<1>5. link # None /\ (link # Plain => at <= link)
  BY <1>1 DEF CurrentKept
<1>6. ASSUME link # at PROVE CurrentKept(at)'
  BY <1>1, <1>2, <1>3, <1>5, <1>6, Numbers DEF CurrentKept, Kept, Current, IInv
<1>7. files'[at] = Cut
  BY Numbers DEF CutOld, CutFile, IInv
<1> QED
  BY <1>2, <1>4, <1>5, <1>6, <1>7 DEF Sound, Stopped

LEMMA WriteOldSound ==
  ASSUME IInv, WriteOld
  PROVE  Sound'
<1>1. /\ Passed /\ Older(at) /\ Kept(buf, at)
      /\ link # None /\ (link # Plain => at <= link)
      /\ link # at => CurrentKept(at)
  BY DEF IInv, Sound, WriteOld
<1>2. pc' = "migrate" /\ UNCHANGED <<link, to, at, was, torn, edits>>
  BY DEF WriteOld, WriteFile, counts
<1>3. /\ files'[at] = buf
      /\ \A f \in (0..Newest) \cup {Plain} : f # at => files'[f] = files[f]
  BY Numbers DEF WriteOld, WriteFile, IInv
<1>4. Passed'
  BY <1>1, <1>2 DEF Passed
<1>5. CurrentKept(at)'
  BY <1>1, <1>2, <1>3, Numbers DEF CurrentKept, Kept, Current, IInv
<1>6. Older(at + 1)'
  <2>1. Kept(files[at], at)'
    BY <1>1, <1>2, <1>3 DEF Kept
  <2>2. \A x \in 0..at : x = at \/ x \in 0..(at - 1)
    BY Numbers DEF IInv
  <2>3. Older(at)'
    BY <1>1, <1>2, <1>3, Numbers DEF Older, Kept, IInv
  <2> QED
    BY <1>2, <2>1, <2>2, <2>3, Numbers DEF Older, IInv
<1> QED
  BY <1>2, <1>4, <1>5, <1>6 DEF Sound, Stopped

LEMMA MigrateSound ==
  ASSUME IInv, Migrate
  PROVE  Sound'
<1> DEFINE new == ConfigUpdate(Parsed(Current), at + 1)
<1>1. Passed /\ CurrentKept(at) /\ Older(at + 1)
  BY DEF IInv, Sound, Migrate
<1>2. CASE Current.parses # "Boost" \/ new = None
  <2>1. AtRest
    BY <1>1, OlderFewer, KeptAtRest, Numbers DEF IInv
  <2> QED
    BY <1>2, <2>1, Stops DEF Migrate, Fail, Stopped, counts
<1>3. CASE Current.parses = "Boost" /\ new # None
  <2>1. pc' = "cutNew" /\ buf' = new /\ UNCHANGED <<files, link, to, at, was, torn, edits>>
    BY <1>3 DEF Migrate, disk, counts
  <2>2. new.version = at + 1 /\ Parsed(new) = Parsed(Current) /\ new.parses = "Boost"
    BY <1>3, MigrateTyped, UpdateRight DEF IInv
  <2>3. torn \/ Parsed(Current) = was[at + 1]
    BY <1>1, Numbers DEF CurrentKept, Kept, Passed, IInv
  <2>4. Kept(buf, at + 1)'
    BY <1>3, <2>1, <2>2, <2>3 DEF Kept
  <2>5. Passed' /\ CurrentKept(at)' /\ Older(at + 1)'
    BY <1>1, <2>1 DEF Passed, CurrentKept, Older, Kept, Current
  <2> QED
    BY <2>1, <2>4, <2>5 DEF Sound, Stopped
<1> QED
  BY <1>2, <1>3

LEMMA CutNewSound ==
  ASSUME IInv, CutNew
  PROVE  Sound'
<1>1. Passed /\ CurrentKept(at) /\ Older(at + 1) /\ Kept(buf, at + 1)
  BY DEF IInv, Sound, CutNew
<1>2. pc' = "writeNew" /\ UNCHANGED <<link, to, at, buf, was, torn, edits>>
  BY DEF CutNew, CutFile, counts
<1>3. \A f \in (0..Newest) \cup {Plain} : f # to => files'[f] = files[f]
  BY Numbers DEF CutNew, CutFile, IInv
<1>4. Passed' /\ Older(at + 1)' /\ Kept(buf, at + 1)'
  BY <1>1, <1>2, <1>3, Numbers DEF Passed, Older, Kept, IInv
<1>5. link # None
  BY <1>1 DEF CurrentKept
<1>6. ASSUME link # to PROVE CurrentKept(at)'
  BY <1>1, <1>2, <1>3, <1>5, <1>6, Numbers DEF CurrentKept, Kept, Current, IInv
<1>7. files'[to] = Cut
  BY Numbers DEF CutNew, CutFile, IInv
<1> QED
  BY <1>2, <1>4, <1>5, <1>6, <1>7 DEF Sound, Stopped

LEMMA WriteNewSound ==
  ASSUME IInv, WriteNew
  PROVE  Sound'
<1>1. /\ Passed /\ Older(at + 1) /\ Kept(buf, at + 1)
      /\ link # None
      /\ link # to => CurrentKept(at)
  BY DEF IInv, Sound, WriteNew
<1>2. pc' = "remove" /\ UNCHANGED <<link, to, at, was, torn, edits>>
  BY DEF WriteNew, WriteFile, counts
<1>3. /\ files'[to] = buf
      /\ \A f \in (0..Newest) \cup {Plain} : f # to => files'[f] = files[f]
  BY Numbers DEF WriteNew, WriteFile, IInv
<1>4. Passed' /\ Kept(files[to], at + 1)'
  BY <1>1, <1>2, <1>3 DEF Passed, Kept
<1>5. Older(at + 1)'
  BY <1>1, <1>2, <1>3, Numbers DEF Passed, Older, Kept, IInv
<1>6. Older(at)'
  BY <1>2, <1>5, Numbers DEF Older, IInv
<1>7. CASE link = to
  <2>1. CurrentKept(at + 1)'
    BY <1>1, <1>2, <1>3, <1>7, Numbers DEF Passed, CurrentKept, Kept, Current, IInv
  <2>2. Current'.version = at' + 1
    BY <2>1 DEF CurrentKept, Kept
  <2>3. AtRest'
    BY <1>5, <2>1, <2>2 DEF AtRest
  <2> QED
    BY <1>1, <1>2, <1>4, <1>5, <2>3 DEF Sound, Stopped
<1>8. CASE link # to
  <2>1. CurrentKept(at)'
    BY <1>1, <1>2, <1>3, <1>8, Numbers DEF CurrentKept, Kept, Current, IInv
  <2>2. Current'.version = at'
    BY <2>1 DEF CurrentKept, Kept
  <2>3. AtRest'
    BY <1>6, <2>1, <2>2 DEF AtRest
  <2> QED
    BY <1>1, <1>2, <1>4, <1>5, <2>3 DEF Sound, Stopped
<1> QED
  BY <1>7, <1>8

LEMMA StatOlderSound ==
  ASSUME IInv, StatOlder
  PROVE  Sound'
<1>1. to < at /\ CurrentKept(at) /\ Older(at)
  BY DEF IInv, Sound, StatOlder
<1>2. AtRest
  BY <1>1, KeptAtRest
<1>3. CASE files[to] = None
  BY <1>2, <1>3, Stops DEF StatOlder, Fail, Stopped, counts
<1>4. CASE files[to] # None
  <2>1. pc' = "remove" /\ UNCHANGED <<files, link, to, at, was, torn, edits>>
    BY <1>4 DEF StatOlder, disk, counts
  <2>2. Kept(files[to], to) /\ Older(to)
    BY <1>1, <1>4, Numbers DEF Older, IInv
  <2>3. link # None
    BY <1>1 DEF CurrentKept
  <2>4. (to < at /\ Kept(files[to], to) /\ Older(to) /\ link # None /\ AtRest)'
    BY <1>1, <1>2, <2>1, <2>2, <2>3 DEF AtRest, CurrentKept, Older, Kept, Current
  <2> QED
    BY <2>1, <2>4 DEF Sound, Stopped
<1> QED
  BY <1>3, <1>4

LEMMA RemoveLinkSound ==
  ASSUME IInv, RemoveLink
  PROVE  Sound'
<1>1. \/ Passed /\ Kept(files[to], at + 1) /\ Older(at + 1)
      \/ to < at /\ Kept(files[to], to) /\ Older(to)
  BY DEF IInv, Sound, RemoveLink
<1>2. pc' = "link" /\ link' = None /\ UNCHANGED <<to, at, was, torn, edits>>
  BY DEF RemoveLink, counts
<1>3. \A f \in 0..Newest : files'[f] = files[f]
  BY Numbers DEF RemoveLink, IInv
<1>4. CASE Passed /\ Kept(files[to], at + 1) /\ Older(at + 1)
  <2>1. (Passed /\ Kept(files[to], at + 1) /\ Older(at + 1))'
    BY <1>2, <1>3, <1>4, Numbers DEF Passed, Older, Kept, IInv
  <2> QED
    BY <1>2, <2>1 DEF Sound, Stopped
<1>5. CASE to < at /\ Kept(files[to], to) /\ Older(to)
  <2>1. (to < at /\ Kept(files[to], to) /\ Older(to))'
    BY <1>2, <1>3, <1>5, Numbers DEF Older, Kept, IInv
  <2> QED
    BY <1>2, <2>1 DEF Sound, Stopped
<1> QED
  BY <1>1, <1>4, <1>5

LEMMA MakeSymlinkSound ==
  ASSUME IInv, MakeSymlink
  PROVE  Sound'
<1>1. \/ Passed /\ Kept(files[to], at + 1) /\ Older(at + 1)
      \/ to < at /\ Kept(files[to], to) /\ Older(to)
  BY DEF IInv, Sound, MakeSymlink
<1>2. link' = to /\ UNCHANGED <<files, to, was, torn, edits>>
  BY DEF MakeSymlink, counts
<1>3. Current' = files[to]
  BY <1>2, Numbers DEF Current, IInv
<1>4. CASE at + 1 < to
  <2>1. pc' = "read" /\ at' = at + 1
    BY <1>4 DEF MakeSymlink
  <2>2. Passed /\ Kept(files[to], at + 1) /\ Older(at + 1)
    BY <1>1, <1>4, Numbers DEF IInv
  <2>3. Passed'
    BY <1>2, <1>4, <2>1, <2>2, Numbers DEF Passed, IInv
  <2>4. CurrentKept(at)' /\ Older(at)'
    BY <1>2, <1>3, <1>4, <2>1, <2>2, Numbers DEF CurrentKept, Older, Kept, IInv
  <2> QED
    BY <2>1, <2>3, <2>4 DEF Sound, Stopped
<1>5. CASE ~(at + 1 < to)
  <2>1. pc' = "done"
    BY <1>5 DEF MakeSymlink
  <2>2. Kept(files[to], to) /\ Older(to)
    BY <1>1, <1>5, Numbers DEF Passed, IInv
  <2>3. CurrentKept(to)' /\ Older(to)'
    BY <1>2, <1>3, <2>2, Numbers DEF CurrentKept, Older, Kept, IInv
  <2>4. Current'.version = to'
    BY <2>3 DEF CurrentKept, Kept
  <2>5. AtRest'
    BY <2>3, <2>4 DEF AtRest
  <2> QED
    BY <2>1, <2>5 DEF Sound, Stopped
<1> QED
  BY <1>4, <1>5

\* A write that is cut short leaves a file of the version that was to be written, or of
\* version 0.
LEMMA PartVersion ==
  ASSUME NEW c, NEW part \in Parts(c)
  PROVE  part # None /\ part.version \in {c.version, 0}
BY DEF Parts

\* Wherever a fault comes, config.toml is gone or kept, or it is cut: then it is of version 0,
\* which has no earlier files, or of the version that was to be written.
LEMMA CutShortSound ==
  ASSUME IInv, NEW then \in {"idle", "ioFailed"}, CutShort(then)
  PROVE  Sound'
<1>1. /\ UNCHANGED <<link, was, edits>> /\ pc' = then /\ (torn => torn')
      /\ pc \notin Stopped
  BY DEF CutShort, IInv, Typed, TypeOK
<1>2. CASE AtRest /\ UNCHANGED files
  BY <1>1, <1>2, Stops DEF Stopped, disk
<1>3. CASE Written = None
  <2>1. AtRest
    <3>1. CASE pc = "version"
      BY <3>1 DEF IInv, Sound
    <3>2. CASE pc \in {"read", "cutOld"}
      BY <3>2, KeptAtRest DEF IInv, Sound, AtRest
    <3>3. CASE pc \in {"migrate", "cutNew"}
      BY <3>3, OlderFewer, KeptAtRest, Numbers DEF IInv, Sound
    <3>4. CASE pc = "stat"
      BY <3>4, KeptAtRest DEF IInv, Sound
    <3>5. CASE pc \in {"remove", "link"}
      BY <3>5 DEF IInv, Sound, AtRest
    <3>6. pc \notin {"writeOld", "writeNew"}
      BY <1>3, Numbers DEF Written, IInv
    <3> QED
      BY <1>1, <3>1, <3>2, <3>3, <3>4, <3>5, <3>6 DEF IInv, Typed, TypeOK, PCs
  <2> QED
    BY <1>2, <1>3, <2>1 DEF CutShort
<1>4. ASSUME NEW f \in 0..Newest, NEW v \in 0..Newest, Written = f, v <= f,
             link = f \/ CurrentKept(at), at <= f, Older(at), Older(v), Kept(buf, v)
      PROVE  Sound'
  <2>1. PICK part \in Parts(buf) : files' = [files EXCEPT ![f] = part]
    BY <1>4, Numbers DEF CutShort, IInv
  <2>2. /\ files'[f] = part
        /\ \A x \in (0..Newest) \cup {Plain} : x # f => files'[x] = files[x]
    BY <2>1, Numbers DEF IInv
  <2>3. part # None /\ part.version \in {v, 0}
    BY <1>4, PartVersion DEF Kept
  <2>4. CASE link = f
    <3>1. torn' /\ link' # None /\ Current' = part
      BY <1>1, <1>4, <2>2, <2>4, Numbers DEF CutShort, Current, IInv
    <3>2. Older(part.version)'
      <4>1. part.version \in 0..Newest /\ part.version <= v /\ part.version <= f
        BY <1>4, <2>3, Numbers DEF IInv
      <4>2. \A x \in 0..(part.version - 1) : x \in 0..(v - 1) /\ x # f /\ x \in 0..Newest
        BY <1>4, <4>1, Numbers DEF IInv
      <4> QED
        BY <1>1, <1>4, <2>2, <4>2 DEF Older, Kept
    <3>3. CurrentKept(part.version)'
      BY <1>1, <1>4, <2>3, <2>4, <3>1, Numbers DEF CurrentKept, Kept, IInv
    <3> QED
      BY <1>1, <3>1, <3>2, <3>3 DEF Sound, AtRest, Stopped
  <2>5. CASE link # f
    <3>1. CurrentKept(at)'
      <4>1. UNCHANGED at
        BY DEF CutShort
      <4> QED
        BY <1>1, <1>4, <2>2, <2>5, <4>1, Numbers DEF CurrentKept, Kept, Current, IInv
    <3>2. Older(at)'
      <4>1. UNCHANGED at
        BY DEF CutShort
      <4> QED
        BY <1>1, <1>4, <2>2, <4>1, Numbers DEF Older, Kept, IInv
    <3>3. AtRest'
      BY <3>1, <3>2 DEF AtRest, CurrentKept, Kept
    <3> QED
      BY <1>1, <3>3 DEF Sound, Stopped
  <2> QED
    BY <2>4, <2>5
<1>5. CASE pc = "writeOld"
  <2>1. Written = at /\ Passed /\ Older(at) /\ Kept(buf, at) /\ (link = at \/ CurrentKept(at))
    BY <1>5 DEF Written, IInv, Sound
  <2> QED
    BY <1>4, <2>1, Numbers DEF IInv
<1>6. CASE pc = "writeNew"
  <2>1. /\ Written = to /\ Passed /\ Older(at + 1) /\ Kept(buf, at + 1)
        /\ link = to \/ CurrentKept(at)
    BY <1>6 DEF Written, IInv, Sound
  <2>2. Older(at) /\ at + 1 \in 0..Newest /\ at + 1 <= to /\ at <= to
    BY <2>1, OlderFewer, Numbers DEF Passed, IInv
  <2> QED
    BY <1>4, <2>1, <2>2, Numbers DEF IInv
<1> QED
  BY <1>3, <1>5, <1>6 DEF Written

LEMMA EditSound ==
  ASSUME IInv, NEW k \in Keys, NEW x \in Values, Edit(k, x)
  PROVE  Sound'
<1>1. PICK v \in 0..Newest : v = Current.version
  BY CurrentTyped DEF IInv, Typed, Edit, Versions
<1>2. /\ CurrentKept(v) /\ Older(v) /\ link # None
      /\ Current \in Content
  BY <1>1, CurrentTyped DEF IInv, Typed, Sound, Edit, AtRest, Current
<1>3. Current' = [Current EXCEPT !.set[k] = x, !.parses = "Boost"] /\ edits' > 0
  <2>1. edits' > 0
    BY DEF Edit, IInv, Typed, TypeOK
  <2>2. Current' = files'[link] /\ Current = files[link] /\ link \in DOMAIN files
    BY <1>2, Numbers DEF Edit, Current, IInv
  <2>3. files' = [files EXCEPT ![link] = [@ EXCEPT !.set[k] = x, !.parses = "Boost"]]
    BY DEF Edit
  <2> QED
    BY <2>1, <2>2, <2>3
<1>4. Current' # None /\ Current'.version = v
  <2>1. Current' \in Content
    <3> DEFINE c == [Current EXCEPT !.set[k] = x]
    <3>1. c \in Content /\ c.version = Current.version
      BY <1>2 DEF Content
    <3>2. Current' = [c EXCEPT !.parses = "Boost"]
      BY <1>3
    <3> HIDE DEF c
    <3> QED
      BY <3>1, <3>2 DEF Content, Parses
  <2> QED
    BY <1>1, <1>2, <1>3, <2>1 DEF Content
<1>5. Parsed(Current') = [Parsed(Current) EXCEPT ![k] = x]
  BY <1>2, <1>3 DEF Parsed, Content
<1>6. /\ was'[v] = [was[v] EXCEPT ![k] = x]
      /\ \A y \in (0..Newest) \ {v} : was'[y] = was[y]
      /\ link' = link
      /\ \A y \in (0..Newest) \ {link} : files'[y] = files[y]
  BY <1>1, <1>2, Numbers DEF Edit, IInv
<1>7. CurrentKept(v)'
  BY <1>2, <1>3, <1>4, <1>5, <1>6 DEF CurrentKept, Kept, Edit
<1>8. Older(v)'
  BY <1>2, <1>3, <1>6, Numbers DEF Older, Kept, CurrentKept, IInv, Edit
<1> QED
  BY <1>4, <1>7, <1>8 DEF Sound, Stopped, AtRest, Edit

LEMMA SpoilSound ==
  ASSUME IInv, NEW parses \in Parses, Spoil(parses)
  PROVE  Sound'
<1>1. PICK v \in 0..Newest : v = Current.version
  BY CurrentTyped DEF IInv, Typed, Spoil, Versions
<1>2. /\ CurrentKept(v) /\ Older(v) /\ link # None
      /\ Current \in Content
  BY <1>1, CurrentTyped DEF IInv, Typed, Sound, Spoil, AtRest, Current
<1>3. Current' = [Current EXCEPT !.parses = parses] /\ edits' > 0
  BY <1>2, Numbers DEF Spoil, Current, IInv, Typed, TypeOK
<1>4. /\ Current' # None /\ Current'.version = v
      /\ Parsed(Current') = Parsed(Current)
  BY <1>1, <1>2, <1>3 DEF Content, Parsed
<1>5. /\ UNCHANGED <<link, was, torn>>
      /\ \A y \in (0..Newest) \ {link} : files'[y] = files[y]
  BY <1>2, Numbers DEF Spoil, IInv
<1>6. CurrentKept(v)'
  BY <1>2, <1>3, <1>4, <1>5 DEF CurrentKept, Kept
<1>7. Older(v)'
  BY <1>2, <1>3, <1>5, Numbers DEF Older, Kept, CurrentKept, IInv
<1> QED
  BY <1>4, <1>6, <1>7 DEF Sound, Stopped, AtRest, Spoil

LEMMA StutterSound ==
  ASSUME Sound, UNCHANGED vars
  PROVE  Sound'
BY DEF Sound, AtRest, Passed, CurrentKept, Older, Kept, Current, vars, disk, counts

LEMMA InitInv == Init => IInv
BY InitTyped, InitSound DEF IInv

LEMMA StepInv == IInv /\ [Next]_vars => IInv'
<1> SUFFICES ASSUME IInv, [Next]_vars PROVE Sound'
  BY StepTyped DEF IInv
<1> QED
  BY StutterSound, StartSound, ReadVersionSound, ReadOldSound, CutOldSound,
     WriteOldSound, MigrateSound, CutNewSound, WriteNewSound, StatOlderSound, RemoveLinkSound,
     MakeSymlinkSound, CutShortSound, EditSound, SpoilSound
  DEF Next, Step, Crash, IOError, IInv

LEMMA InvSettingsKept == IInv => SettingsKept
<1> SUFFICES ASSUME IInv, ~torn, Current # None,
                    ~(pc = "writeOld" /\ link = at), ~(pc = "writeNew" /\ link = to)
             PROVE  Parsed(Current) = was[Current.version]
  BY DEF SettingsKept
<1>1. AtRest \/ \E v \in {at} : CurrentKept(v)
  <2>1. pc # "link"
    BY DEF IInv, Sound, Current
  <2> QED
    BY <2>1 DEF IInv, Sound, Typed, TypeOK, PCs, AtRest
<1>2. PICK v : CurrentKept(v)
  BY <1>1 DEF AtRest, Current
<1> QED
  BY <1>2 DEF CurrentKept, Kept

\* The settings of every version survive upgrades, downgrades, edits, I/O errors and crashes,
\* until a fault cuts the file that config.toml is: for any settings, values and versions.
THEOREM SettingsAlwaysKept == Spec => []SettingsKept
BY InitInv, StepInv, InvSettingsKept, PTL DEF Spec

-----------------------------------------------------------------------------
(* Outcomes. *)

\* While a migration runs config.toml is gone only between its removal and the new link.
LEMMA CurrentGone ==
  ASSUME IInv, Current = None
  PROVE  link = None
<1>1. ASSUME NEW v, CurrentKept(v) PROVE FALSE
  BY <1>1, KeptVersion
<1>2. CASE pc = "writeOld" /\ link = at
  BY <1>2, CutTyped DEF IInv, Sound, Current
<1>3. CASE pc = "writeNew" /\ link = to
  BY <1>3, CutTyped DEF IInv, Sound, Current
<1> QED
  BY <1>1, <1>2, <1>3 DEF IInv, Sound, AtRest, Typed, TypeOK, PCs

\* How a migration ends: OutcomeExplained, but for the reason why config.toml is gone.
Ends ==
  /\ pc = "done" => Current # None /\ Current.version = to
  /\ pc = "failed" /\ Current # None =>
       \/ (torn \/ edits > 0) /\ Current.parses = "nothing"
       \/ Current.version > to /\ files[to] = None
       \/ /\ Current.version < to
          /\ Clash \/ ((torn \/ edits > 0) /\ Current.parses = "VersionCfg")

LEMMA EndsExplained == IInv /\ Ends => OutcomeExplained
BY CurrentGone DEF Ends, OutcomeExplained, IInv, Typed, Upgrading

\* config.toml parses, but for the user's mistakes and the writes that were cut.
LEMMA KeptParses ==
  ASSUME IInv, NEW v, CurrentKept(v), Current.parses # "Boost"
  PROVE  torn \/ edits > 0
BY DEF CurrentKept, Kept

LEMMA ReadVersionEnds ==
  ASSUME IInv, ReadVersion
  PROVE  Ends'
<1>1. CASE Current # None /\ Current.parses = "nothing"
  <2>1. pc' = "failed" /\ UNCHANGED <<files, link, torn, edits>>
    BY <1>1 DEF ReadVersion, Fail, disk, counts
  <2>2. torn \/ edits > 0
    BY <1>1, KeptParses DEF IInv, Sound, AtRest, ReadVersion, Current
  <2> QED
    BY <1>1, <2>1, <2>2 DEF Ends, Current
<1>2. CASE ~(Current # None /\ Current.parses = "nothing")
  <2>1. /\ pc' = IF VersionOf(Current) < to THEN "read"
                 ELSE IF VersionOf(Current) > to THEN "stat" ELSE "done"
        /\ to # 0 /\ UNCHANGED <<files, link, to>>
    BY <1>2 DEF ReadVersion, IInv, Typed, Upgrading, disk
  <2>2. CASE pc' = "done"
    <3>1. VersionOf(Current) \in 0..Newest
      BY CurrentTyped DEF IInv, Typed, Versions
    <3>2. VersionOf(Current) = to
      BY <2>1, <2>2, <3>1, Numbers DEF IInv
    <3>3. Current # None /\ Current.version = to
      BY <2>1, <3>2 DEF VersionOf
    <3> QED
      BY <2>1, <2>2, <3>3 DEF Ends, Current
  <2>3. CASE pc' # "done"
    BY <2>1, <2>3 DEF Ends
  <2> QED
    BY <2>2, <2>3
<1> QED
  BY <1>1, <1>2

LEMMA ReadOldEnds ==
  ASSUME IInv, ReadOld
  PROVE  Ends'
<1>1. CASE Current = None
  BY <1>1 DEF ReadOld, Fail, Ends, Current, disk
<1>2. CASE Current # None
  BY <1>2 DEF ReadOld, Ends
<1> QED
  BY <1>1, <1>2

\* ConfigUpdate refuses what parses differently from the settings: a line that is taken for a
\* default of another setting.
LEMMA UpdateRefuses ==
  ASSUME NEW s \in [Keys -> Values], NEW v \in Versions, ConfigUpdate(s, v) = None
  PROVE  \E k \in Keys : s[k] # Default[k] /\
           \E j \in Keys \ {k} : Name[j] = Name[k] /\ s[k] = Default[j]
<1>1. Commented(s, v) \in Content
  BY DEF Commented, Content, Parses
<1>2. Parsed(Commented(s, v)) # s
  BY <1>1 DEF ConfigUpdate
<1>3. PICK k \in Keys : Parsed(Commented(s, v))[k] # s[k]
  BY <1>1, <1>2, ParsedTyped
<1>4. Parsed(Commented(s, v))[k] =
        IF <<Name[k], s[k]>> \in DefaultLines THEN Default[k] ELSE s[k]
  BY DEF Parsed, Commented
<1>5. <<Name[k], s[k]>> \in DefaultLines /\ s[k] # Default[k]
  BY <1>3, <1>4
<1>6. PICK j \in Keys : <<Name[k], s[k]>> = <<Name[j], Default[j]>>
  BY <1>5 DEF DefaultLines
<1> QED
  BY <1>5, <1>6

LEMMA MigrateEnds ==
  ASSUME IInv, Migrate
  PROVE  Ends'
<1>1. CurrentKept(at) /\ at < to
  BY DEF IInv, Sound, Migrate, Passed
<1>2. Current.version < to
  BY <1>1, KeptVersion
<1>3. CASE Current.parses # "Boost"
  <2>1. pc' = "failed" /\ UNCHANGED <<files, link, to, torn, edits>>
    BY <1>3 DEF Migrate, Fail, disk, counts
  <2>2. torn \/ edits > 0
    BY <1>1, <1>3, KeptParses
  <2>3. Current.parses \in {"VersionCfg", "nothing"}
    BY <1>3, MigrateTyped DEF IInv, Content, Parses
  <2> QED
    BY <1>2, <2>1, <2>2, <2>3 DEF Ends, Current
<1>4. CASE Current.parses = "Boost" /\ ConfigUpdate(Parsed(Current), at + 1) = None
  <2>1. pc' = "failed" /\ UNCHANGED <<files, link, to>>
    BY <1>4 DEF Migrate, Fail, disk
  <2>2. Clash
    BY <1>4, MigrateTyped, UpdateRefuses DEF Clash, IInv
  <2> QED
    BY <1>2, <2>1, <2>2 DEF Ends, Clash, Current, Parsed
<1>5. CASE Current.parses = "Boost" /\ ConfigUpdate(Parsed(Current), at + 1) # None
  BY <1>5 DEF Migrate, Ends
<1> QED
  BY <1>3, <1>4, <1>5

LEMMA StatOlderEnds ==
  ASSUME IInv, StatOlder
  PROVE  Ends'
<1>1. CurrentKept(at) /\ to < at
  BY DEF IInv, Sound, StatOlder
<1>2. CASE files[to] = None
  <2>1. pc' = "failed" /\ UNCHANGED <<files, link, to>>
    BY <1>2 DEF StatOlder, Fail, disk
  <2>2. Current.version > to
    BY <1>1, KeptVersion
  <2> QED
    BY <1>2, <2>1, <2>2 DEF Ends, Current
<1>3. CASE files[to] # None
  BY <1>3 DEF StatOlder, Ends
<1> QED
  BY <1>2, <1>3

\* The last link is to a file of the version of the binary: an upgrade has made it so, and a
\* downgrade has found it among the older files.
LEMMA MakeSymlinkEnds ==
  ASSUME IInv, MakeSymlink
  PROVE  Ends'
<1>1. \/ Passed /\ Kept(files[to], at + 1)
      \/ to < at /\ Kept(files[to], to)
  BY DEF IInv, Sound, MakeSymlink
<1>2. link' = to /\ UNCHANGED <<files, to>> /\ Current' = files[to]
  BY Numbers DEF MakeSymlink, Current, IInv
<1>3. CASE at + 1 < to
  BY <1>3 DEF MakeSymlink, Ends
<1>4. CASE ~(at + 1 < to)
  <2>1. pc' = "done"
    BY <1>4 DEF MakeSymlink
  <2>2. Kept(files[to], to)
    BY <1>1, <1>4, Numbers DEF Passed, IInv
  <2> QED
    BY <1>2, <2>1, <2>2 DEF Ends, Kept
<1> QED
  BY <1>3, <1>4

LEMMA StepEnds ==
  ASSUME IInv, Ends, [Next]_vars
  PROVE  Ends'
<1>1. CASE UNCHANGED vars
  BY <1>1 DEF Ends, Clash, Current, Parsed, vars, disk, counts
<1>2. CASE \/ CutOld \/ WriteOld \/ CutNew \/ WriteNew \/ RemoveLink \/ Crash
           \/ IOError \/ (\E parses \in Parses : Spoil(parses))
           \/ \E v \in Versions \ {0} : Start(v)
           \/ \E k \in Keys, v \in Values : Edit(k, v)
  <2>1. pc' # "done" /\ pc' # "failed"
    BY <1>2 DEF CutOld, WriteOld, CutNew, WriteNew, CutFile, WriteFile, RemoveLink, Crash,
                IOError, CutShort, Start, Edit, Spoil
  <2> QED
    BY <2>1 DEF Ends
<1>3. CASE ReadVersion \/ ReadOld \/ Migrate \/ StatOlder \/ MakeSymlink
  BY <1>3, ReadVersionEnds, ReadOldEnds, MigrateEnds, StatOlderEnds,
     MakeSymlinkEnds
<1> QED
  BY <1>1, <1>2, <1>3 DEF Next, Step

\* Whatever versions are started in turn, wherever a crash or an I/O error comes and whatever the
\* user edits or spoils, a migration (configMigrate) that ends well leaves config.toml of the
\* version of the binary, and without an I/O error it fails for no other reasons than the named.
THEOREM OutcomeAlwaysExplained == Spec => []OutcomeExplained
<1>1. Init => Ends
  BY DEF Init, Ends
<1> QED
  BY <1>1, InitInv, StepInv, StepEnds, EndsExplained, PTL DEF Spec

=============================================================================
