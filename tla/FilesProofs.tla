---------------------------- MODULE FilesProofs ----------------------------
(***************************************************************************)
(* The safety of StagedFile, SocketPath, WatchPlan and WatchBackoff: for any *)
(* number of threads, files and ancestors, of daemons and sockets; for every *)
(* forest, list of roots and limit; for every schedule of failures.        *)
(***************************************************************************)
EXTENDS StagedFile, SocketPath, WatchPlan, WatchBackoff,
        FiniteSetTheorems, SequenceTheorems, WellFoundedInduction, TLAPS

-----------------------------------------------------------------------------
(* Sets of naturals *)

\* The order of the naturals, as a relation.
Less == {ss \in Nat \X Nat : ss[1] < ss[2]}
\* Every set of naturals has a least member.
LEMMA LeastElement ==
  ASSUME NEW S \in SUBSET Nat, S # {}
  PROVE  \E x \in S : \A y \in S : x <= y
<1>1. IsWellFoundedOn(Less, Nat)
  BY NatLessThanWellFounded DEF OpToRel, Less
<1>2. PICK x \in S : \A y \in S : ~ (<<y, x>> \in Less)
  BY <1>1, WFMin
<1>3. ASSUME NEW y \in S PROVE x <= y
  <2>1. x \in Nat /\ y \in Nat
    OBVIOUS
  <2>2. <<y, x>> \in Nat \X Nat
    BY <2>1
  <2>3. ~ (<<y, x>>[1] < <<y, x>>[2])
    BY <1>2, <2>2 DEF Less
  <2>4. QED
    BY <2>1, <2>3
<1>4. QED
  BY <1>2, <1>3

\* A set of naturals has a minimum,
LEMMA MinFacts ==
  ASSUME NEW S \in SUBSET Nat, S # {}
  PROVE  Min(S) \in S /\ \A y \in S : Min(S) <= y
BY LeastElement DEF Min

\* and a maximum if it has a bound.
LEMMA MaxFacts ==
  ASSUME NEW S \in SUBSET Nat, S # {}, NEW n \in Nat, \A y \in S : y <= n
  PROVE  Max(S) \in S /\ \A y \in S : y <= Max(S)
<1> DEFINE Above == {b \in Nat : \A y \in S : y <= b}
<1>1. PICK b \in Above : \A c \in Above : b <= c
  <2>1. Above \in SUBSET Nat /\ n \in Above
    OBVIOUS
  <2> HIDE DEF Above
  <2>2. QED
    BY <2>1, LeastElement
<1>2. b \in S
  <2>1. SUFFICES ASSUME b \notin S PROVE FALSE
    OBVIOUS
  <2>2. PICK y \in S : TRUE
    OBVIOUS
  <2>3. b \in Nat /\ b # 0
    BY <1>1, <2>1, <2>2
  <2>4. b - 1 \in Nat /\ \A z \in S : z <= b - 1
    BY <1>1, <2>1, <2>3
  <2>5. QED
    BY <1>1, <2>3, <2>4
<1>3. b \in S /\ \A y \in S : b >= y
  BY <1>1, <1>2
<1>4. Max(S) \in S /\ \A y \in S : Max(S) >= y
  BY <1>3 DEF Max
<1>5. QED
  BY <1>4

-----------------------------------------------------------------------------
(* Staged files: the inductive invariant *)

\* A thread that has a temporary.
Building == {"writing", "buffered", "flushed", "staged", "renaming"}
WriterPCs == {"idle", "making", "syncing", "renamed"} \cup Building
\* Files that have been at the destination; their ranks tell in which order.
Ranked == {f \in Files : rank[f] > 0}
\* The types of the state, in parts that the actions change separately.
WriterRecords ==
  [pc : WriterPCs,
   found : SUBSET (1 .. Depth), todo : SUBSET (1 .. Depth),
   temp : {0} \cup Temps, file : {0} \cup Files]
ProcessRecords ==
  [next : Nat, made : 0 .. MaxFiles, kills : Nat, losses : Nat, strange : 0 .. Strangers,
   leaked : SUBSET Temps, barrier : Nat]
EntryTypes ==
  dir \in [Names -> 0 .. MaxFiles] /\ disk \in [Names -> SUBSET (0 .. MaxFiles)]
FileTypes ==
  /\ data \in [Files -> Nat] /\ hard \in [Files -> Nat]
  /\ rank \in [Files -> Nat] /\ links \subseteq Files
PlaceTypes == present \in 0 .. Depth /\ linked \subseteq 1 .. Depth
WriterTypes == writer \in [Writers -> WriterRecords]
ReaderTypes ==
  reader \in [pc : {"idle", "opened", "checked"}, file : 0 .. MaxFiles, got : {0, Chunks}]
StagedTypes ==
  EntryTypes /\ FileTypes /\ PlaceTypes /\ WriterTypes /\ ReaderTypes /\ process \in ProcessRecords
\* Only strangers append, and not more often than they may.
SizesBounded ==
  \A f \in Files : data[f] <= Chunks + process.strange /\ hard[f] <= Chunks + process.strange
\* What is in the directory may be what the power leaves.
NowPossible == \A n \in Names : dir[n] \in disk[n]
\* A temporary that is there is of a thread, or has been left behind.
TempsOwned == \A n \in Temps : dir[n] # 0 => n \in Owned \cup process.leaked
\* Ranks are no more than the files that have one, which have been made.
RanksCounted ==
  \A f \in Files : rank[f] <= Cardinality(Ranked) /\ (rank[f] > 0 => f <= process.made)
\* A thread that has a temporary has made its ancestors durable, and its file was
\* never at the destination; staged, it is whole, in memory and on the disk.  What
\* is renamed is there, or something later.
WriterOK(w) ==
  LET s == writer[w]
  IN  /\ s.temp # 0 <=> s.pc \in Building
      /\ s.found \subseteq s.todo \cup linked
      /\ s.pc \in Building => /\ s.todo = {}
                              /\ s.file \in 1 .. process.made /\ rank[s.file] = 0
      /\ s.pc = "flushed" => data[s.file] = Chunks
      /\ s.pc \in {"staged", "renaming"} => data[s.file] >= Chunks /\ hard[s.file] >= Chunks
      /\ s.pc = "renamed" => /\ s.file # 0 /\ dir[Dest] # 0
                             /\ rank[s.file] <= rank[dir[Dest]]
\* No two threads write one file.
WritersApart ==
  \A v, w \in Writers : v # w /\ writer[v].temp # 0 /\ writer[w].temp # 0
                          => writer[v].file # writer[w].file
\* Whatever the power leaves at the destination is whole.
DestOK ==
  \A f \in disk[Dest] \ {0} : rank[f] > 0 /\ data[f] >= Chunks /\ hard[f] >= Chunks
\* What a reader has opened was whole, and does not shrink.
ReaderOK ==
  reader.pc # "idle" => reader.file # 0 /\ rank[reader.file] > 0 /\ data[reader.file] >= Chunks
\* The inductive invariant.
StagedIInv ==
  /\ StagedTypes /\ SizesBounded /\ NowPossible /\ TempsOwned /\ RanksCounted
  /\ \A w \in Writers : WriterOK(w)
  /\ WritersApart /\ DestOK /\ ReaderOK /\ CommitOutlivesPower

\* Ranked files are finitely many.
LEMMA CardinalityRanked ==
  ASSUME StagedTypes
  PROVE  IsFiniteSet(Ranked) /\ Cardinality(Ranked) \in Nat /\ Cardinality(Ranked) <= MaxFiles
<1>1. MaxFiles \in Nat
  BY FileConstants
<1>2. IsFiniteSet(Files) /\ Cardinality(Files) = MaxFiles
  BY <1>1, FS_Interval DEF Files
<1>3. Ranked \subseteq Files
  BY DEF Ranked
<1>4. IsFiniteSet(Ranked) /\ Cardinality(Ranked) <= Cardinality(Files)
  BY <1>2, <1>3, FS_Subset
<1>5. QED
  BY <1>2, <1>4, FS_CardinalityType

\* The next rank is above every other, and by one at the most above their number.
LEMMA NextRankFacts ==
  ASSUME StagedTypes, RanksCounted
  PROVE  /\ NextRank \in Nat \ {0} /\ NextRank <= Cardinality(Ranked) + 1
         /\ \A f \in Files : rank[f] < NextRank
<1> DEFINE S == {rank[f] : f \in Files} \cup {0}
<1>1. S \in SUBSET Nat /\ S # {}
  BY DEF StagedTypes, FileTypes, EntryTypes, PlaceTypes, WriterTypes, ReaderTypes
<1>2. Cardinality(Ranked) \in Nat /\ \A y \in S : y <= Cardinality(Ranked)
  BY CardinalityRanked DEF RanksCounted
<1>3. \A f \in Files : rank[f] \in S
  OBVIOUS
<1>4. NextRank = 1 + Max(S)
  BY DEF NextRank
<1> HIDE DEF S
<1>5. Max(S) \in S /\ \A y \in S : y <= Max(S)
  BY <1>1, <1>2, MaxFacts
<1>6. Max(S) \in Nat /\ Max(S) <= Cardinality(Ranked)
  BY <1>1, <1>2, <1>5
<1>7. \A f \in Files : rank[f] \in Nat /\ rank[f] <= Max(S)
  BY <1>3, <1>5, <1>1
<1>8. QED
  BY <1>2, <1>4, <1>6, <1>7

\* A file that comes to the destination gets a rank.
LEMMA RankUp ==
  ASSUME StagedTypes, RanksCounted, NEW f \in Files, rank[f] = 0,
         rank' = [rank EXCEPT ![f] = NextRank],
         f <= process'.made, process.made <= process'.made, process.made \in Nat,
         process'.made \in Nat
  PROVE  RanksCounted' /\ rank' \in [Files -> Nat]
<1>1. /\ NextRank \in Nat \ {0} /\ NextRank <= Cardinality(Ranked) + 1
      /\ \A g \in Files : rank[g] < NextRank
  BY NextRankFacts
<1>2. rank' \in [Files -> Nat]
  BY <1>1 DEF StagedTypes, FileTypes, EntryTypes, PlaceTypes, WriterTypes, ReaderTypes
<1>3. Ranked' = Ranked \cup {f}
  BY <1>1 DEF StagedTypes, FileTypes, EntryTypes, PlaceTypes, WriterTypes, ReaderTypes, Ranked
<1>4. IsFiniteSet(Ranked) /\ Cardinality(Ranked) \in Nat
  BY CardinalityRanked
<1>5. f \notin Ranked
  BY DEF Ranked
<1>6. Cardinality(Ranked') = Cardinality(Ranked) + 1
  BY <1>3, <1>4, <1>5, FS_AddElement
<1>7. ASSUME NEW g \in Files
      PROVE  rank'[g] <= Cardinality(Ranked') /\ (rank'[g] > 0 => g <= process'.made)
  <2>1. rank[g] \in Nat /\ rank[g] <= Cardinality(Ranked) /\ (rank[g] > 0 => g <= process.made)
    BY DEF RanksCounted, StagedTypes, FileTypes, EntryTypes, PlaceTypes, WriterTypes, ReaderTypes
  <2>2. CASE g = f
    BY <2>2, <1>1, <1>4, <1>6
    DEF StagedTypes, FileTypes, EntryTypes, PlaceTypes, WriterTypes, ReaderTypes
  <2>3. CASE g # f
    <3>1. rank'[g] = rank[g]
      BY <2>3 DEF StagedTypes, FileTypes, EntryTypes, PlaceTypes, WriterTypes, ReaderTypes
    <3>2. g \in Nat
      BY FileConstants DEF Files
    <3>3. QED
      BY <3>1, <3>2, <2>1, <1>4, <1>6
  <2>4. QED
    BY <2>2, <2>3
<1>8. QED
  BY <1>2, <1>7 DEF RanksCounted

\* Nothing has been made.
LEMMA InitStaged == FileInit => StagedIInv
<1> SUFFICES ASSUME FileInit PROVE StagedIInv
  OBVIOUS
<1> USE FileConstants DEF FileInit
<1>1. StagedTypes
  BY DEF StagedTypes, FileTypes, EntryTypes, PlaceTypes, WriterTypes, ReaderTypes, WriterRecords,
      WriterPCs, ProcessRecords, Building, Idle, Names, Temps, Dest, Files
<1>2. SizesBounded /\ NowPossible /\ TempsOwned
  BY DEF SizesBounded, NowPossible, TempsOwned, Names, Temps, Dest, Files
<1>3. RanksCounted
  <2>1. Cardinality(Ranked) \in Nat
    BY <1>1, CardinalityRanked
  <2>2. QED
    BY <2>1 DEF RanksCounted, Files
<1>4. ASSUME NEW w \in Writers PROVE WriterOK(w)
  BY DEF WriterOK, Idle, Building
<1>5. WritersApart
  BY DEF WritersApart, Idle
<1>6. DestOK /\ ReaderOK /\ CommitOutlivesPower
  BY DEF DestOK, ReaderOK, CommitOutlivesPower, Names, Dest
<1>7. QED
  BY <1>1, <1>2, <1>3, <1>4, <1>5, <1>6 DEF StagedIInv

\* A thread is not disturbed unless its file is, or what it has renamed gets lost.
LEMMA WriterStays ==
  ASSUME StagedTypes, NEW v \in Writers, WriterOK(v),
         writer'[v] = writer[v], linked \subseteq linked',
         process'.made \in Nat, process.made <= process'.made,
         writer[v].pc \in Building =>
           LET f == writer[v].file
           IN  data'[f] = data[f] /\ hard'[f] = hard[f] /\ rank'[f] = rank[f],
         writer[v].pc = "renamed" => /\ dir'[Dest] # 0
                                     /\ rank'[writer[v].file] <= rank'[dir'[Dest]]
  PROVE  WriterOK(v)'
<1> DEFINE s == writer[v]
<1>0. s \in WriterRecords /\ process.made \in Nat
  BY DEF StagedTypes, FileTypes, EntryTypes, PlaceTypes, WriterTypes, ReaderTypes, ProcessRecords
<1>1. /\ s.temp # 0 <=> s.pc \in Building
      /\ s.found \subseteq s.todo \cup linked'
  BY DEF WriterOK
<1>2. s.pc \in Building => /\ s.todo = {}
                           /\ s.file \in 1 .. process'.made /\ rank'[s.file] = 0
  BY <1>0 DEF WriterOK
<1>3. s.pc = "flushed" => data'[s.file] = Chunks
  BY DEF WriterOK, Building
<1>4. s.pc \in {"staged", "renaming"} => data'[s.file] >= Chunks /\ hard'[s.file] >= Chunks
  BY DEF WriterOK, Building
<1>5. s.pc = "renamed" => /\ s.file # 0 /\ dir'[Dest] # 0
                          /\ rank'[s.file] <= rank'[dir'[Dest]]
  BY DEF WriterOK
<1>6. QED
  BY <1>1, <1>2, <1>3, <1>4, <1>5 DEF WriterOK

\* A thread goes on to another place of the code,
LEMMA WriterMoves ==
  ASSUME WriterTypes, NEW w \in Writers, NEW to \in WriterPCs,
         writer' = [writer EXCEPT ![w].pc = to]
  PROVE  /\ WriterTypes' /\ \A v \in Writers : v # w => writer'[v] = writer[v]
         /\ writer'[w].pc = to /\ writer'[w].found = writer[w].found
         /\ writer'[w].todo = writer[w].todo /\ writer'[w].temp = writer[w].temp
         /\ writer'[w].file = writer[w].file
<1>1. writer[w] \in WriterRecords
  BY DEF WriterTypes
<1>2. [writer[w] EXCEPT !.pc = to] \in WriterRecords
  BY <1>1 DEF WriterRecords
<1>3. writer'[w] = [writer[w] EXCEPT !.pc = to]
      /\ \A v \in Writers : v # w => writer'[v] = writer[v]
  BY DEF WriterTypes
<1>4. WriterTypes'
  BY <1>2, <1>3 DEF WriterTypes
<1>5. QED
  BY <1>1, <1>3, <1>4 DEF WriterRecords

\* or to another state altogether.
LEMMA WriterBecomes ==
  ASSUME WriterTypes, NEW w \in Writers, NEW r \in WriterRecords, writer' = [writer EXCEPT ![w] = r]
  PROVE  /\ WriterTypes' /\ \A v \in Writers : v # w => writer'[v] = writer[v]
         /\ writer'[w] = r
BY DEF WriterTypes

\* The state of a thread that writes nothing.
LEMMA IdleType == Idle \in WriterRecords /\ Idle.pc = "idle" /\ Idle.temp = 0 /\ Idle.found = {}
BY DEF Idle, WriterRecords, WriterPCs

\* Entries change at once, and the disk may have either.
LEMMA EnterFacts ==
  ASSUME EntryTypes, NEW e, DOMAIN e \subseteq Names,
         \A n \in DOMAIN e : e[n] \in 0 .. MaxFiles, Enter(e)
  PROVE  /\ EntryTypes' /\ NowPossible'
         /\ \A n \in Names : /\ dir'[n] = IF n \in DOMAIN e THEN e[n] ELSE dir[n]
                             /\ disk'[n] = disk[n] \cup {dir'[n]}
<1>1. DOMAIN dir = Names
  BY DEF EntryTypes
<1>2. \A n \in Names : dir'[n] = IF n \in DOMAIN e THEN e[n] ELSE dir[n]
  BY <1>1 DEF Enter, Overlaid
<1>3. dir' \in [Names -> 0 .. MaxFiles]
  <2>1. dir' = [n \in Names |-> IF n \in DOMAIN e THEN e[n] ELSE dir[n]]
    BY <1>1 DEF Enter, Overlaid
  <2>2. QED
    BY <2>1 DEF EntryTypes
<1>4. \A n \in Names : disk'[n] = disk[n] \cup {dir'[n]}
  BY DEF Enter
<1>5. disk' \in [Names -> SUBSET (0 .. MaxFiles)]
  <2>1. disk' = [n \in Names |-> disk[n] \cup {dir'[n]}]
    BY DEF Enter
  <2>2. \A n \in Names : disk[n] \cup {dir'[n]} \in SUBSET (0 .. MaxFiles)
    BY <1>3 DEF EntryTypes
  <2>3. QED
    BY <2>1, <2>2
<1>6. QED
  BY <1>2, <1>3, <1>4, <1>5 DEF EntryTypes, NowPossible

\* Temporaries change hands only where a thread takes or gives up one.
LEMMA OwnedKept ==
  ASSUME \A v \in Writers : writer'[v].temp = writer[v].temp
  PROVE  Owned' = Owned
BY DEF Owned

\* The destination is no temporary.
LEMMA NamesFacts == Dest \in Names /\ Temps \subseteq Names /\ Dest \notin Temps
BY FileConstants DEF Names, Dest, Temps

\* A step that touches no file keeps what is said of them.
LEMMA QuietFiles ==
  ASSUME StagedIInv, UNCHANGED <<dir, disk, data, hard, rank, links, process>>
  PROVE  /\ EntryTypes' /\ FileTypes' /\ process' \in ProcessRecords
         /\ SizesBounded' /\ NowPossible' /\ RanksCounted' /\ DestOK' /\ CommitOutlivesPower'
<1>0. StagedIInv
  OBVIOUS
<1>1. EntryTypes' /\ FileTypes' /\ process' \in ProcessRecords
  BY DEF StagedIInv, StagedTypes, EntryTypes, FileTypes
<1>2. SizesBounded' /\ NowPossible'
  BY DEF StagedIInv, SizesBounded, NowPossible
<1>3. RanksCounted'
  BY DEF StagedIInv, RanksCounted, Ranked
<1>4. DestOK' /\ CommitOutlivesPower'
  BY DEF StagedIInv, DestOK, CommitOutlivesPower
<1>5. QED
  BY <1>1, <1>2, <1>3, <1>4

\* One thread works on its own file; the others are not disturbed.
LEMMA OthersStay ==
  ASSUME StagedIInv, NEW w \in Writers, \A v \in Writers : v # w => writer'[v] = writer[v],
         dir'[Dest] = dir[Dest], rank' = rank, linked \subseteq linked',
         process'.made \in Nat, process.made <= process'.made,
         writer[w].pc \in Building =>
           \A f \in Files : f # writer[w].file => data'[f] = data[f] /\ hard'[f] = hard[f],
         writer[w].pc \notin Building => UNCHANGED <<data, hard>>
  PROVE  \A v \in Writers : v # w => WriterOK(v)'
<1> SUFFICES ASSUME NEW v \in Writers, v # w PROVE WriterOK(v)'
  OBVIOUS
<1>1. StagedTypes /\ WriterOK(v) /\ WriterOK(w) /\ writer'[v] = writer[v]
  BY DEF StagedIInv
<1>2. ASSUME writer[v].pc \in Building
      PROVE  /\ data'[writer[v].file] = data[writer[v].file]
             /\ hard'[writer[v].file] = hard[writer[v].file]
             /\ rank'[writer[v].file] = rank[writer[v].file]
  <2>1. writer[v].temp # 0 /\ writer[v].file # 0 /\ writer[v].file \in {0} \cup Files
    BY <1>1, <1>2 DEF WriterOK, StagedTypes, WriterTypes, WriterRecords
  <2>2. CASE writer[w].pc \in Building
    BY <1>1, <2>1, <2>2 DEF StagedIInv, WritersApart, WriterOK
  <2>3. CASE writer[w].pc \notin Building
    BY <2>3
  <2>4. QED
    BY <2>2, <2>3
<1>3. writer[v].pc = "renamed" => dir'[Dest] # 0 /\ rank'[writer[v].file] <= rank'[dir'[Dest]]
  BY <1>1 DEF WriterOK
<1>4. QED
  BY <1>1, <1>2, <1>3, WriterStays

\* Files are shared no more than before, if nobody takes one.
LEMMA ApartStays ==
  ASSUME WritersApart,
         \A v \in Writers : writer'[v].temp # 0 =>
           writer[v].temp # 0 /\ writer'[v].file = writer[v].file
  PROVE  WritersApart'
BY DEF WritersApart

\* A thread that looks has nothing yet.
LEMMA FileLookStaged == ASSUME StagedIInv, NEW w \in Writers, FileLook(w) PROVE StagedIInv'
<1>0. /\ EntryTypes /\ FileTypes /\ PlaceTypes /\ WriterTypes /\ ReaderTypes
      /\ process \in ProcessRecords /\ (\A v \in Writers : WriterOK(v))
  BY DEF StagedIInv, StagedTypes
<1>1. /\ EntryTypes' /\ FileTypes' /\ process' \in ProcessRecords
      /\ SizesBounded' /\ NowPossible' /\ RanksCounted' /\ DestOK' /\ CommitOutlivesPower'
  BY QuietFiles DEF FileLook
<1>2. PlaceTypes' /\ ReaderTypes'
  BY <1>0 DEF PlaceTypes, ReaderTypes, FileLook
<1> DEFINE missing == present + 1 .. Depth
           r == [Idle EXCEPT !.pc = "making", !.found = missing, !.todo = missing]
<1>3. missing \in SUBSET (1 .. Depth)
  BY <1>0, FileConstants DEF PlaceTypes
<1>4. /\ r \in WriterRecords /\ r.pc = "making" /\ r.found = missing /\ r.todo = missing
      /\ r.temp = 0
  BY <1>3 DEF WriterRecords, WriterPCs, Idle
<1>5. writer' = [writer EXCEPT ![w] = r] /\ writer[w].pc = "idle"
  BY DEF FileLook
<1> HIDE DEF r, missing
<1>6. WriterTypes' /\ (\A v \in Writers : v # w => writer'[v] = writer[v]) /\ writer'[w] = r
  BY <1>0, <1>4, <1>5, WriterBecomes
<1>7. writer[w].temp = 0
  BY <1>0, <1>5 DEF WriterOK, Building
<1>8. TempsOwned'
  <2>1. Owned' = Owned
    BY <1>4, <1>6, <1>7, OwnedKept
  <2>2. QED
    BY <2>1 DEF StagedIInv, TempsOwned, FileLook
<1>9. \A v \in Writers : WriterOK(v)'
  <2>1. WriterOK(w)'
    BY <1>4, <1>6 DEF WriterOK, Building
  <2>2. process.made \in Nat
    BY <1>0 DEF ProcessRecords
  <2>3. \A v \in Writers : v # w => WriterOK(v)'
    BY <1>6, <2>2, OthersStay DEF FileLook
  <2>4. QED
    BY <2>1, <2>3
<1>10. WritersApart'
  BY <1>4, <1>6, ApartStays DEF StagedIInv
<1>11. ReaderOK'
  BY DEF StagedIInv, ReaderOK, FileLook
<1>12. QED
  BY <1>1, <1>2, <1>6, <1>8, <1>9, <1>10, <1>11 DEF StagedIInv, StagedTypes

\* A thread that only moves on, its temporary and its file its own as before.
LEMMA PcMoved ==
  ASSUME StagedIInv, NEW w \in Writers, NEW to \in WriterPCs,
         writer' = [writer EXCEPT ![w].pc = to]
  PROVE  WriterTypes' /\ WritersApart' /\ Owned' = Owned
<1>1. WriterTypes
  BY DEF StagedIInv, StagedTypes
<1>2. /\ WriterTypes' /\ \A v \in Writers : v # w => writer'[v] = writer[v]
      /\ writer'[w].temp = writer[w].temp /\ writer'[w].file = writer[w].file
  BY <1>1, WriterMoves
<1>3. Owned' = Owned
  BY <1>2, OwnedKept
<1>4. WritersApart'
  <2>1. \A v \in Writers : writer'[v].temp # 0 =>
           writer[v].temp # 0 /\ writer'[v].file = writer[v].file
    BY <1>2
  <2>2. QED
    BY <2>1, ApartStays DEF StagedIInv
<1>5. QED
  BY <1>2, <1>3, <1>4

\* Ancestors that are made are not yet durable, and not yet relied upon.
LEMMA MakeDirectoryStaged ==
  ASSUME StagedIInv, NEW w \in Writers, MakeDirectory(w)
  PROVE StagedIInv'
<1>0. /\ EntryTypes /\ FileTypes /\ PlaceTypes /\ WriterTypes /\ ReaderTypes
      /\ process \in ProcessRecords /\ (\A v \in Writers : WriterOK(v))
  BY DEF StagedIInv, StagedTypes
<1>1. /\ EntryTypes' /\ FileTypes' /\ process' \in ProcessRecords
      /\ SizesBounded' /\ NowPossible' /\ RanksCounted' /\ DestOK' /\ CommitOutlivesPower'
  BY QuietFiles DEF MakeDirectory
<1>2. PlaceTypes' /\ ReaderTypes' /\ ReaderOK'
  <2>1. present' \in 0 .. Depth
    BY <1>0, FileConstants DEF PlaceTypes, MakeDirectory
  <2>2. QED
    BY <1>0, <2>1 DEF PlaceTypes, ReaderTypes, ReaderOK, StagedIInv, MakeDirectory
<1>3. /\ WriterTypes' /\ WritersApart' /\ Owned' = Owned
      /\ \A v \in Writers : WriterOK(v)'
  <2>1. CASE UNCHANGED writer
    <3>1. \A v \in Writers : WriterOK(v)'
      BY <1>0, <2>1 DEF WriterOK, MakeDirectory
    <3>2. QED
      BY <1>0, <2>1, <3>1 DEF WriterTypes, WritersApart, Owned, StagedIInv
  <2>2. CASE FileMoves(w, "making", "syncing")
    <3>1. "syncing" \in WriterPCs /\ writer[w].pc = "making"
          /\ writer' = [writer EXCEPT ![w].pc = "syncing"]
      BY <2>2 DEF WriterPCs, FileMoves
    <3>2. WriterTypes' /\ WritersApart' /\ Owned' = Owned
      BY <3>1, PcMoved
    <3>3. /\ \A v \in Writers : v # w => writer'[v] = writer[v]
          /\ writer'[w].pc = "syncing" /\ writer'[w].found = writer[w].found
          /\ writer'[w].todo = writer[w].todo /\ writer'[w].temp = writer[w].temp
      BY <1>0, <3>1, WriterMoves
    <3>4. WriterOK(w)'
      BY <1>0, <3>1, <3>3 DEF WriterOK, Building, MakeDirectory
    <3>5. process.made \in Nat
      BY <1>0 DEF ProcessRecords
    <3>6. \A v \in Writers : v # w => WriterOK(v)'
      BY <3>3, <3>5, OthersStay DEF MakeDirectory
    <3>7. QED
      BY <3>2, <3>4, <3>6
  <2>3. QED
    BY <2>1, <2>2 DEF MakeDirectory
<1>4. TempsOwned'
  BY <1>3 DEF StagedIInv, TempsOwned, MakeDirectory
<1>5. QED
  BY <1>1, <1>2, <1>3, <1>4 DEF StagedIInv, StagedTypes

\* Only a link at the destination, seen in time, stops a commit.
LEMMA CommitStaged == ASSUME StagedIInv, NEW w \in Writers, Commit(w) PROVE StagedIInv'
<1>0. /\ EntryTypes /\ FileTypes /\ PlaceTypes /\ WriterTypes /\ ReaderTypes
      /\ process \in ProcessRecords /\ (\A v \in Writers : WriterOK(v))
  BY DEF StagedIInv, StagedTypes
<1>1. /\ EntryTypes' /\ FileTypes' /\ process' \in ProcessRecords
      /\ SizesBounded' /\ NowPossible' /\ RanksCounted' /\ DestOK' /\ CommitOutlivesPower'
  BY QuietFiles DEF Commit
<1>2. PlaceTypes' /\ ReaderTypes' /\ ReaderOK'
  BY <1>0 DEF PlaceTypes, ReaderTypes, ReaderOK, StagedIInv, Commit
<1>3. "renaming" \in WriterPCs /\ writer[w].pc = "staged"
      /\ writer' = [writer EXCEPT ![w].pc = "renaming"]
  BY DEF WriterPCs, Building, FileMoves, Commit
<1>4. WriterTypes' /\ WritersApart' /\ Owned' = Owned
  BY <1>3, PcMoved
<1>5. /\ \A v \in Writers : v # w => writer'[v] = writer[v]
      /\ writer'[w].pc = "renaming" /\ writer'[w].found = writer[w].found
      /\ writer'[w].todo = writer[w].todo /\ writer'[w].temp = writer[w].temp
      /\ writer'[w].file = writer[w].file
  BY <1>0, <1>3, WriterMoves
<1>6. WriterOK(w)'
  BY <1>0, <1>3, <1>5 DEF WriterOK, Building, Commit
<1>7. process.made \in Nat
  BY <1>0 DEF ProcessRecords
<1>8. \A v \in Writers : v # w => WriterOK(v)'
  BY <1>5, <1>7, OthersStay DEF Commit
<1>9. TempsOwned'
  BY <1>4 DEF StagedIInv, TempsOwned, Commit
<1>10. QED
  BY <1>1, <1>2, <1>4, <1>6, <1>8, <1>9 DEF StagedIInv, StagedTypes

\* An ancestor is crossed off once it is durable; syncing the innermost settles
\* what is at the destination.
LEMMA SyncAncestorStaged == ASSUME StagedIInv, NEW w \in Writers, SyncAncestor(w) PROVE StagedIInv'
<1>0. /\ EntryTypes /\ FileTypes /\ PlaceTypes /\ WriterTypes /\ ReaderTypes
      /\ process \in ProcessRecords /\ (\A v \in Writers : WriterOK(v))
  BY DEF StagedIInv, StagedTypes
<1> DEFINE d == Min(writer[w].todo)
           r == [writer[w] EXCEPT !.todo = writer[w].todo \ {d}]
<1>1. /\ writer[w] \in WriterRecords /\ writer[w].todo \in SUBSET (1 .. Depth)
      /\ writer[w].found \in SUBSET (1 .. Depth) /\ writer[w].todo # {}
      /\ writer[w].pc = "syncing"
  BY <1>0 DEF WriterTypes, WriterRecords, SyncAncestor
<1>2. d \in 1 .. Depth /\ d \in writer[w].todo
  <2>1. writer[w].todo \in SUBSET Nat
    BY <1>1, FileConstants
  <2>2. QED
    BY <1>1, <2>1, MinFacts
<1>3. /\ r \in WriterRecords /\ r.todo = writer[w].todo \ {d} /\ r.found = writer[w].found
      /\ r.pc = "syncing" /\ r.temp = writer[w].temp /\ r.file = writer[w].file
  BY <1>1 DEF WriterRecords
<1>4. /\ writer' = [writer EXCEPT ![w] = r] /\ linked' = linked \cup SyncAround(d)
      /\ disk' = (IF d = Depth THEN Durable ELSE disk)
      /\ UNCHANGED <<dir, data, hard, rank, links, present, reader, process>>
  BY DEF SyncAncestor
<1> HIDE DEF d, r
<1>5. WriterTypes' /\ (\A v \in Writers : v # w => writer'[v] = writer[v]) /\ writer'[w] = r
  BY <1>0, <1>3, <1>4, WriterBecomes
<1>6. SyncAround(d) \subseteq 1 .. Depth /\ d \in SyncAround(d)
  BY <1>2, FileConstants DEF SyncAround
<1>7. /\ FileTypes' /\ PlaceTypes' /\ ReaderTypes' /\ process' \in ProcessRecords
  BY <1>0, <1>4, <1>6 DEF FileTypes, PlaceTypes, ReaderTypes
<1>8. /\ EntryTypes' /\ NowPossible'
      /\ \A n \in Names : disk'[n] \subseteq disk[n]
  <2>1. CASE d = Depth
    <3>1. disk' = [n \in Names |-> {dir[n]}]
      BY <1>4, <2>1 DEF Durable
    <3>2. \A n \in Names : dir[n] \in 0 .. MaxFiles /\ dir[n] \in disk[n]
      BY <1>0 DEF EntryTypes, StagedIInv, NowPossible
    <3>3. QED
      BY <1>0, <1>4, <3>1, <3>2 DEF EntryTypes, NowPossible
  <2>2. CASE d # Depth
    BY <1>0, <1>4, <2>2 DEF EntryTypes, NowPossible, StagedIInv
  <2>3. QED
    BY <2>1, <2>2
<1>9. SizesBounded' /\ RanksCounted' /\ ReaderOK'
  <2>1. SizesBounded'
    BY <1>4 DEF SizesBounded, StagedIInv
  <2>2. RanksCounted'
    BY <1>4 DEF RanksCounted, Ranked, StagedIInv
  <2>3. ReaderOK'
    BY <1>4 DEF ReaderOK, StagedIInv
  <2>4. QED
    BY <2>1, <2>2, <2>3
<1>10. DestOK' /\ CommitOutlivesPower'
  <2>1. disk'[Dest] \subseteq disk[Dest]
    BY <1>8, NamesFacts
  <2>2. DestOK'
    BY <1>4, <2>1 DEF DestOK, StagedIInv
  <2>3. CommitOutlivesPower'
    BY <1>4, <2>1 DEF CommitOutlivesPower, StagedIInv
  <2>4. QED
    BY <2>2, <2>3
<1>11. Owned' = Owned /\ WritersApart'
  <2>1. \A v \in Writers : writer'[v].temp = writer[v].temp /\ writer'[v].file = writer[v].file
    BY <1>3, <1>5
  <2>2. QED
    BY <2>1, OwnedKept, ApartStays DEF StagedIInv
<1>12. TempsOwned'
  BY <1>4, <1>11 DEF TempsOwned, StagedIInv
<1>13. WriterOK(w)'
  <2>1. writer[w].found \subseteq writer[w].todo \cup linked /\ writer[w].temp = 0
    BY <1>0, <1>1 DEF WriterOK, Building
  <2>2. r.found \subseteq r.todo \cup linked'
    BY <2>1, <1>3, <1>4, <1>6
  <2>3. QED
    BY <2>1, <2>2, <1>3, <1>5 DEF WriterOK, Building
<1>14. \A v \in Writers : v # w => WriterOK(v)'
  <2>1. process.made \in Nat
    BY <1>0 DEF ProcessRecords
  <2>2. QED
    BY <1>4, <1>5, <2>1, OthersStay
<1>15. QED
  BY <1>5, <1>7, <1>8, <1>9, <1>10, <1>11, <1>12, <1>13, <1>14 DEF StagedIInv, StagedTypes

\* What a thread does to its own file, that nobody reads yet, is nobody's else.
LEMMA OwnFileChanges ==
  ASSUME StagedIInv, NEW w \in Writers, writer[w].pc \in Building,
         \A f \in Files : f # writer[w].file => data'[f] = data[f] /\ hard'[f] = hard[f],
         UNCHANGED <<dir, disk, rank, reader, process>>
  PROVE  NowPossible' /\ RanksCounted' /\ DestOK' /\ CommitOutlivesPower' /\ ReaderOK'
<1>1. /\ writer[w].file \in Files /\ rank[writer[w].file] = 0
  BY DEF StagedIInv, StagedTypes, WriterTypes, WriterRecords, WriterOK
<1>2. NowPossible' /\ CommitOutlivesPower'
  BY DEF StagedIInv, NowPossible, CommitOutlivesPower
<1>3. RanksCounted'
  BY DEF StagedIInv, RanksCounted, Ranked
<1>4. DestOK'
  <2>1. ASSUME NEW f \in disk[Dest] \ {0}
        PROVE  rank[f] > 0 /\ data'[f] >= Chunks /\ hard'[f] >= Chunks
    <3>1. rank[f] > 0 /\ data[f] >= Chunks /\ hard[f] >= Chunks
      BY <2>1 DEF StagedIInv, DestOK
    <3>2. f \in Files
      BY <2>1, NamesFacts, FileConstants DEF StagedIInv, StagedTypes, EntryTypes, Files
    <3>3. f # writer[w].file
      BY <1>1, <3>1
    <3>4. QED
      BY <3>1, <3>2, <3>3
  <2>2. QED
    BY <2>1 DEF DestOK
<1>5. ReaderOK'
  <2>1. ASSUME reader.pc # "idle"
        PROVE  reader.file # 0 /\ rank[reader.file] > 0 /\ data'[reader.file] >= Chunks
    <3>1. reader.file # 0 /\ rank[reader.file] > 0 /\ data[reader.file] >= Chunks
      BY <2>1 DEF StagedIInv, ReaderOK
    <3>2. reader.file \in Files
      BY <3>1, FileConstants DEF StagedIInv, StagedTypes, ReaderTypes, Files
    <3>3. QED
      BY <1>1, <3>1, <3>2
  <2>2. QED
    BY <2>1 DEF ReaderOK
<1>6. QED
  BY <1>2, <1>3, <1>4, <1>5

\* All but the last chunk is written,
LEMMA WriteStaged == ASSUME StagedIInv, NEW w \in Writers, Write(w) PROVE StagedIInv'
<1>0. /\ EntryTypes /\ FileTypes /\ PlaceTypes /\ WriterTypes /\ ReaderTypes
      /\ process \in ProcessRecords /\ (\A v \in Writers : WriterOK(v))
  BY DEF StagedIInv, StagedTypes
<1> DEFINE f == writer[w].file
<1>1. /\ "buffered" \in WriterPCs /\ writer[w].pc = "writing" /\ writer[w].pc \in Building
      /\ writer' = [writer EXCEPT ![w].pc = "buffered"]
  BY DEF WriterPCs, Building, FileMoves, Write
<1>2. f \in Files
  BY <1>0, <1>1 DEF WriterTypes, WriterRecords, WriterOK
<1>3. data' = [data EXCEPT ![f] = Chunks - 1] /\ Chunks - 1 \in Nat
  BY FileConstants DEF Write
<1>4. UNCHANGED <<dir, disk, hard, rank, links, present, linked, reader, process>>
  BY DEF Write
<1> HIDE DEF f
<1>5. data' \in [Files -> Nat] /\ \A g \in Files : g # f => data'[g] = data[g]
  BY <1>0, <1>2, <1>3 DEF FileTypes
<1>6. /\ EntryTypes' /\ FileTypes' /\ PlaceTypes' /\ ReaderTypes' /\ process' \in ProcessRecords
  BY <1>0, <1>4, <1>5 DEF EntryTypes, FileTypes, PlaceTypes, ReaderTypes
<1>7. WriterTypes' /\ WritersApart' /\ Owned' = Owned
  BY <1>1, PcMoved
<1>8. NowPossible' /\ RanksCounted' /\ DestOK' /\ CommitOutlivesPower' /\ ReaderOK'
  BY <1>1, <1>4, <1>5, OwnFileChanges DEF f
<1>9. SizesBounded'
  <2>1. process.strange \in Nat /\ Chunks \in Nat
    BY <1>0, FileConstants DEF ProcessRecords
  <2>2. data'[f] = Chunks - 1
    BY <1>0, <1>2, <1>3 DEF FileTypes
  <2>3. data'[f] <= Chunks + process.strange
    BY <2>1, <2>2
  <2>4. QED
    BY <1>4, <1>5, <2>3 DEF StagedIInv, SizesBounded
<1>10. TempsOwned'
  BY <1>4, <1>7 DEF StagedIInv, TempsOwned
<1>11. /\ \A v \in Writers : v # w => writer'[v] = writer[v]
       /\ writer'[w].pc = "buffered" /\ writer'[w].found = writer[w].found
       /\ writer'[w].todo = writer[w].todo /\ writer'[w].temp = writer[w].temp
       /\ writer'[w].file = writer[w].file
  BY <1>0, <1>1, WriterMoves
<1>12. WriterOK(w)'
  BY <1>0, <1>1, <1>4, <1>11 DEF WriterOK, Building
<1>13. \A v \in Writers : v # w => WriterOK(v)'
  <2>1. process.made \in Nat
    BY <1>0 DEF ProcessRecords
  <2>2. QED
    BY <1>1, <1>4, <1>5, <1>11, <2>1, OthersStay DEF f
<1>14. QED
  BY <1>6, <1>7, <1>8, <1>9, <1>10, <1>12, <1>13 DEF StagedIInv, StagedTypes

\* then the last,
LEMMA FlushStaged == ASSUME StagedIInv, NEW w \in Writers, Flush(w) PROVE StagedIInv'
<1>0. /\ EntryTypes /\ FileTypes /\ PlaceTypes /\ WriterTypes /\ ReaderTypes
      /\ process \in ProcessRecords /\ (\A v \in Writers : WriterOK(v))
  BY DEF StagedIInv, StagedTypes
<1> DEFINE f == writer[w].file
<1>1. /\ "flushed" \in WriterPCs /\ writer[w].pc = "buffered" /\ writer[w].pc \in Building
      /\ writer' = [writer EXCEPT ![w].pc = "flushed"]
  BY DEF WriterPCs, Building, FileMoves, Flush
<1>2. f \in Files
  BY <1>0, <1>1 DEF WriterTypes, WriterRecords, WriterOK
<1>3. data' = [data EXCEPT ![f] = Chunks] /\ Chunks \in Nat
  BY FileConstants DEF Flush
<1>4. UNCHANGED <<dir, disk, hard, rank, links, present, linked, reader, process>>
  BY DEF Flush
<1> HIDE DEF f
<1>5. /\ data' \in [Files -> Nat] /\ data'[f] = Chunks
      /\ \A g \in Files : g # f => data'[g] = data[g]
  BY <1>0, <1>2, <1>3 DEF FileTypes
<1>6. /\ EntryTypes' /\ FileTypes' /\ PlaceTypes' /\ ReaderTypes' /\ process' \in ProcessRecords
  BY <1>0, <1>4, <1>5 DEF EntryTypes, FileTypes, PlaceTypes, ReaderTypes
<1>7. WriterTypes' /\ WritersApart' /\ Owned' = Owned
  BY <1>1, PcMoved
<1>8. NowPossible' /\ RanksCounted' /\ DestOK' /\ CommitOutlivesPower' /\ ReaderOK'
  BY <1>1, <1>4, <1>5, OwnFileChanges DEF f
<1>9. SizesBounded'
  <2>1. process.strange \in Nat /\ Chunks \in Nat
    BY <1>0, FileConstants DEF ProcessRecords
  <2>2. data'[f] <= Chunks + process.strange
    BY <2>1, <1>5
  <2>3. QED
    BY <1>4, <1>5, <2>2 DEF StagedIInv, SizesBounded
<1>10. TempsOwned'
  BY <1>4, <1>7 DEF StagedIInv, TempsOwned
<1>11. /\ \A v \in Writers : v # w => writer'[v] = writer[v]
       /\ writer'[w].pc = "flushed" /\ writer'[w].found = writer[w].found
       /\ writer'[w].todo = writer[w].todo /\ writer'[w].temp = writer[w].temp
       /\ writer'[w].file = writer[w].file
  BY <1>0, <1>1, WriterMoves
<1>12. WriterOK(w)'
  BY <1>0, <1>1, <1>4, <1>5, <1>11 DEF WriterOK, Building, f
<1>13. \A v \in Writers : v # w => WriterOK(v)'
  <2>1. process.made \in Nat
    BY <1>0 DEF ProcessRecords
  <2>2. QED
    BY <1>1, <1>4, <1>5, <1>11, <2>1, OthersStay DEF f
<1>14. QED
  BY <1>6, <1>7, <1>8, <1>9, <1>10, <1>12, <1>13 DEF StagedIInv, StagedTypes

\* then all of it is durable.
LEMMA SyncStaged == ASSUME StagedIInv, NEW w \in Writers, Sync(w) PROVE StagedIInv'
<1>0. /\ EntryTypes /\ FileTypes /\ PlaceTypes /\ WriterTypes /\ ReaderTypes
      /\ process \in ProcessRecords /\ (\A v \in Writers : WriterOK(v))
  BY DEF StagedIInv, StagedTypes
<1> DEFINE f == writer[w].file
<1>1. /\ "staged" \in WriterPCs /\ writer[w].pc = "flushed" /\ writer[w].pc \in Building
      /\ writer' = [writer EXCEPT ![w].pc = "staged"]
  BY DEF WriterPCs, Building, FileMoves, Sync
<1>2. f \in Files /\ data[f] = Chunks
  BY <1>0, <1>1 DEF WriterTypes, WriterRecords, WriterOK
<1>3. hard' = [hard EXCEPT ![f] = Chunks] /\ Chunks \in Nat
  BY <1>2, FileConstants DEF Sync
<1>4. UNCHANGED <<dir, disk, data, rank, links, present, linked, reader, process>>
  BY DEF Sync
<1> HIDE DEF f
<1>5. /\ hard' \in [Files -> Nat] /\ hard'[f] = Chunks
      /\ \A g \in Files : g # f => hard'[g] = hard[g]
  BY <1>0, <1>2, <1>3 DEF FileTypes
<1>6. /\ EntryTypes' /\ FileTypes' /\ PlaceTypes' /\ ReaderTypes' /\ process' \in ProcessRecords
  BY <1>0, <1>4, <1>5 DEF EntryTypes, FileTypes, PlaceTypes, ReaderTypes
<1>7. WriterTypes' /\ WritersApart' /\ Owned' = Owned
  BY <1>1, PcMoved
<1>8. NowPossible' /\ RanksCounted' /\ DestOK' /\ CommitOutlivesPower' /\ ReaderOK'
  BY <1>1, <1>4, <1>5, OwnFileChanges DEF f
<1>9. SizesBounded'
  <2>1. process.strange \in Nat /\ Chunks \in Nat
    BY <1>0, FileConstants DEF ProcessRecords
  <2>2. hard'[f] <= Chunks + process.strange
    BY <2>1, <1>5
  <2>3. QED
    BY <1>4, <1>5, <2>2 DEF StagedIInv, SizesBounded
<1>10. TempsOwned'
  BY <1>4, <1>7 DEF StagedIInv, TempsOwned
<1>11. /\ \A v \in Writers : v # w => writer'[v] = writer[v]
       /\ writer'[w].pc = "staged" /\ writer'[w].found = writer[w].found
       /\ writer'[w].todo = writer[w].todo /\ writer'[w].temp = writer[w].temp
       /\ writer'[w].file = writer[w].file
  BY <1>0, <1>1, WriterMoves
<1>12. WriterOK(w)'
  BY <1>0, <1>1, <1>2, <1>3, <1>4, <1>5, <1>11 DEF WriterOK, Building, f
<1>13. \A v \in Writers : v # w => WriterOK(v)'
  <2>1. process.made \in Nat
    BY <1>0 DEF ProcessRecords
  <2>2. QED
    BY <1>1, <1>4, <1>5, <1>11, <2>1, OthersStay DEF f
<1>14. QED
  BY <1>6, <1>7, <1>8, <1>9, <1>10, <1>12, <1>13 DEF StagedIInv, StagedTypes

\* A new file is nobody's yet, has no rank, and its name was free.
LEMMA OpenStaged == ASSUME StagedIInv, NEW w \in Writers, Open(w) PROVE StagedIInv'
<1>0. /\ EntryTypes /\ FileTypes /\ PlaceTypes /\ WriterTypes /\ ReaderTypes
      /\ process \in ProcessRecords /\ (\A v \in Writers : WriterOK(v))
  BY DEF StagedIInv, StagedTypes
<1> DEFINE n == process.next
           f == process.made + 1
<1>1. /\ process.made < MaxFiles /\ n \in Temps /\ writer[w].pc = "syncing"
      /\ writer[w].todo = {}
      /\ UNCHANGED <<data, hard, rank, links, present, linked, reader>>
  BY DEF Open, Create
<1>2. /\ process.made \in 0 .. MaxFiles /\ n \in Nat /\ f \in Files /\ f \in Nat
      /\ f \in 1 .. MaxFiles /\ process.strange \in Nat
  BY <1>0, <1>1, FileConstants DEF ProcessRecords, Files
<1>3. FileTypes' /\ PlaceTypes' /\ ReaderTypes' /\ ReaderOK'
  BY <1>0, <1>1 DEF FileTypes, PlaceTypes, ReaderTypes, ReaderOK, StagedIInv
<1>4. CASE dir[n] # 0
  <2>1. process' = [process EXCEPT !.next = n + 1] /\ UNCHANGED <<dir, disk, writer>>
    BY <1>4 DEF Open, Create
  <2>2. /\ process' \in ProcessRecords /\ process'.made = process.made
        /\ process'.strange = process.strange /\ process'.leaked = process.leaked
        /\ process'.barrier = process.barrier
    BY <1>0, <1>2, <2>1 DEF ProcessRecords
  <2>3. EntryTypes' /\ WriterTypes' /\ NowPossible' /\ WritersApart'
    BY <1>0, <2>1 DEF EntryTypes, WriterTypes, NowPossible, WritersApart, StagedIInv
  <2>4. SizesBounded'
    BY <1>1, <2>2 DEF SizesBounded, StagedIInv
  <2>5. TempsOwned'
    BY <2>1, <2>2 DEF TempsOwned, Owned, StagedIInv
  <2>6. RanksCounted'
    BY <1>1, <2>2 DEF RanksCounted, Ranked, StagedIInv
  <2>7. \A v \in Writers : WriterOK(v)'
    BY <1>0, <1>1, <2>1, <2>2 DEF WriterOK
  <2>8. DestOK' /\ CommitOutlivesPower'
    BY <1>1, <2>1, <2>2 DEF DestOK, CommitOutlivesPower, StagedIInv
  <2>9. QED
    BY <1>3, <2>2, <2>3, <2>4, <2>5, <2>6, <2>7, <2>8 DEF StagedIInv, StagedTypes
<1>5. CASE dir[n] = 0
  <2> DEFINE e == [x \in {n} |-> f]
             r == [writer[w] EXCEPT !.temp = n, !.file = f, !.pc = "writing"]
  <2>1. /\ process' = [process EXCEPT !.next = n + 1, !.made = f] /\ Enter(e)
        /\ writer' = [writer EXCEPT ![w] = r]
    BY <1>5 DEF Open, Create
  <2>2. /\ process' \in ProcessRecords /\ process'.made = f
        /\ process'.strange = process.strange /\ process'.leaked = process.leaked
        /\ process'.barrier = process.barrier
    <3>1. n + 1 \in Nat /\ f \in 0 .. MaxFiles
      BY <1>2, FileConstants
    <3> HIDE DEF n, f
    <3>2. [process EXCEPT !.next = n + 1, !.made = f] \in ProcessRecords
      BY <1>0, <3>1 DEF ProcessRecords
    <3>3. QED
      BY <1>0, <2>1, <3>2 DEF ProcessRecords
  <2>3. DOMAIN e = {n} /\ e[n] = f /\ n \in Names /\ n # Dest /\ n # 0
    BY <1>1, NamesFacts, FileConstants DEF Temps, Dest
  <2>4. /\ writer[w] \in WriterRecords /\ writer[w].temp = 0
        /\ writer[w].found \subseteq linked
    BY <1>0, <1>1 DEF WriterTypes, WriterOK, Building
  <2>5. /\ r \in WriterRecords /\ r.temp = n /\ r.file = f /\ r.pc = "writing"
        /\ r.found = writer[w].found /\ r.todo = {}
    BY <1>1, <1>2, <2>4 DEF WriterRecords, WriterPCs, Building
  <2> HIDE DEF e, r, n, f
  <2>6. /\ EntryTypes' /\ NowPossible'
        /\ \A x \in Names : /\ dir'[x] = IF x = n THEN f ELSE dir[x]
                            /\ disk'[x] = disk[x] \cup {dir'[x]}
    <3>1. DOMAIN e \subseteq Names /\ \A x \in DOMAIN e : e[x] \in 0 .. MaxFiles
      BY <1>2, <2>3
    <3>2. /\ EntryTypes' /\ NowPossible'
          /\ \A x \in Names : /\ dir'[x] = IF x \in DOMAIN e THEN e[x] ELSE dir[x]
                              /\ disk'[x] = disk[x] \cup {dir'[x]}
      BY <1>0, <2>1, <3>1, EnterFacts
    <3>3. QED
      BY <2>3, <3>2
  <2>7. WriterTypes' /\ (\A v \in Writers : v # w => writer'[v] = writer[v]) /\ writer'[w] = r
    BY <1>0, <2>1, <2>5, WriterBecomes
  <2>8. dir'[Dest] = dir[Dest] /\ disk'[Dest] = disk[Dest]
    <3>1. dir'[Dest] = dir[Dest]
      BY <2>3, <2>6, NamesFacts
    <3>2. disk'[Dest] = disk[Dest] \cup {dir[Dest]} /\ dir[Dest] \in disk[Dest]
      BY <3>1, <2>6, NamesFacts DEF StagedIInv, NowPossible
    <3>3. QED
      BY <3>1, <3>2
  <2>9. SizesBounded'
    BY <1>1, <2>2 DEF SizesBounded, StagedIInv
  <2>10. TempsOwned'
    <3>1. Owned \subseteq Owned' /\ n \in Owned'
      BY <2>3, <2>4, <2>5, <2>7 DEF Owned
    <3>2. ASSUME NEW x \in Temps, dir'[x] # 0 PROVE x \in Owned' \cup process'.leaked
      <4>1. x \in Names
        BY NamesFacts
      <4>2. CASE x = n
        BY <4>2, <3>1
      <4>3. CASE x # n
        BY <4>1, <4>3, <2>2, <2>6, <3>1, <3>2 DEF StagedIInv, TempsOwned
      <4>4. QED
        BY <4>2, <4>3
    <3>3. QED
      BY <3>2 DEF TempsOwned
  <2>11. RanksCounted'
    <3>1. ASSUME NEW g \in Files PROVE rank[g] > 0 => g <= f
      <4>1. rank[g] > 0 => g <= process.made
        BY DEF RanksCounted, StagedIInv
      <4>2. g \in Nat
        BY FileConstants DEF Files
      <4>3. QED
        BY <4>1, <4>2, <1>2 DEF f
    <3>2. Ranked' = Ranked
      BY <1>1 DEF Ranked
    <3>3. QED
      BY <1>1, <2>2, <3>1, <3>2 DEF RanksCounted, StagedIInv
  <2>12. rank[f] = 0
    <3>1. ~(rank[f] > 0)
      BY <1>2 DEF RanksCounted, StagedIInv, f
    <3>2. QED
      BY <1>0, <1>2, <3>1 DEF FileTypes
  <2>13. WriterOK(w)'
    BY <1>1, <1>2, <2>2, <2>3, <2>4, <2>5, <2>7, <2>12 DEF WriterOK, Building
  <2>14. \A v \in Writers : v # w => WriterOK(v)'
    <3>1. f \in Nat /\ process.made <= f
      BY <1>2 DEF f
    <3>2. QED
      BY <1>1, <2>2, <2>7, <2>8, <3>1, OthersStay DEF Building
  <2>15. WritersApart'
    <3>1. ASSUME NEW v \in Writers, writer[v].temp # 0 PROVE writer[v].file # f
      <4>1. writer[v].file \in 1 .. process.made
        BY <1>0, <3>1 DEF WriterOK
      <4>2. QED
        BY <4>1, <1>2 DEF f
    <3>2. ASSUME NEW u \in Writers, NEW v \in Writers, u # v,
                 writer'[u].temp # 0, writer'[v].temp # 0
          PROVE  writer'[u].file # writer'[v].file
      <4>1. CASE u = w
        BY <4>1, <3>1, <3>2, <2>5, <2>7
      <4>2. CASE v = w
        BY <4>2, <3>1, <3>2, <2>5, <2>7
      <4>3. CASE u # w /\ v # w
        BY <4>3, <3>2, <2>7 DEF StagedIInv, WritersApart
      <4>4. QED
        BY <4>1, <4>2, <4>3
    <3>3. QED
      BY <3>2 DEF WritersApart
  <2>16. DestOK' /\ CommitOutlivesPower'
    BY <1>1, <2>2, <2>8 DEF DestOK, CommitOutlivesPower, StagedIInv
  <2>17. QED
    BY <1>3, <2>2, <2>6, <2>7, <2>9, <2>10, <2>11, <2>13, <2>14, <2>15, <2>16
    DEF StagedIInv, StagedTypes
<1>6. QED
  BY <1>4, <1>5

\* What a rename or somebody else's link puts at the destination is later than
\* all that was there, and whole.
LEMMA Replaced ==
  ASSUME StagedIInv, NEW f \in Files, rank[f] = 0, rank' = [rank EXCEPT ![f] = NextRank],
         dir'[Dest] = f, disk'[Dest] = disk[Dest] \cup {f},
         data'[f] >= Chunks, hard'[f] >= Chunks,
         \A g \in Files : g # f => data'[g] = data[g] /\ hard'[g] = hard[g],
         f <= process'.made, process.made <= process'.made, process'.made \in Nat,
         process'.barrier = process.barrier, reader' = reader
  PROVE  /\ RanksCounted' /\ rank' \in [Files -> Nat] /\ DestOK' /\ CommitOutlivesPower'
         /\ ReaderOK' /\ \A g \in Files : rank'[g] <= rank'[f] /\ (g # f => rank'[g] = rank[g])
<1>0. StagedTypes /\ RanksCounted /\ process.made \in Nat /\ rank \in [Files -> Nat]
      /\ process.barrier \in Nat
  BY DEF StagedIInv, StagedTypes, FileTypes, ProcessRecords
<1>1. RanksCounted' /\ rank' \in [Files -> Nat]
  BY <1>0, RankUp
<1>2. NextRank \in Nat \ {0} /\ \A g \in Files : rank[g] < NextRank
  BY <1>0, NextRankFacts
<1>3. rank'[f] = NextRank /\ \A g \in Files : g # f => rank'[g] = rank[g]
  BY <1>0
<1>4. \A g \in Files : rank'[g] <= rank'[f]
  BY <1>0, <1>2, <1>3
<1>5. DestOK'
  <2>1. ASSUME NEW g \in disk[Dest] \cup {f}, g # 0
        PROVE  rank'[g] > 0 /\ data'[g] >= Chunks /\ hard'[g] >= Chunks
    <3>1. CASE g = f
      BY <3>1, <1>2, <1>3
    <3>2. CASE g # f
      <4>1. rank[g] > 0 /\ data[g] >= Chunks /\ hard[g] >= Chunks
        BY <2>1, <3>2 DEF StagedIInv, DestOK
      <4>2. g \in Files
        BY <2>1, NamesFacts, FileConstants DEF StagedIInv, StagedTypes, EntryTypes, Files
      <4>3. QED
        BY <1>3, <3>2, <4>1, <4>2
    <3>3. QED
      BY <3>1, <3>2
  <2>2. QED
    BY <2>1 DEF DestOK
<1>6. CommitOutlivesPower'
  <2>1. ASSUME process.barrier > 0, NEW g \in disk[Dest] \cup {f}
        PROVE  g # 0 /\ process.barrier <= rank'[g]
    <3>1. \A h \in disk[Dest] : h # 0 /\ process.barrier <= rank[h]
      BY <2>1 DEF StagedIInv, CommitOutlivesPower
    <3>2. \A h \in disk[Dest] : h # 0 => h \in Files
      BY NamesFacts, FileConstants DEF StagedIInv, StagedTypes, EntryTypes, Files
    <3>3. CASE g = f
      <4>1. dir[Dest] \in disk[Dest] /\ dir[Dest] \in Files /\ process.barrier <= rank[dir[Dest]]
        BY <3>1, <3>2, NamesFacts DEF StagedIInv, NowPossible
      <4>2. f # 0
        BY DEF Files
      <4>3. QED
        BY <3>3, <4>1, <4>2, <1>0, <1>2, <1>3
    <3>4. CASE g # f
      BY <3>1, <3>2, <3>4, <1>3
    <3>5. QED
      BY <3>3, <3>4
  <2>2. QED
    BY <2>1 DEF CommitOutlivesPower
<1>7. ReaderOK'
  <2>1. ASSUME reader.pc # "idle"
        PROVE  reader.file # 0 /\ rank'[reader.file] > 0 /\ data'[reader.file] >= Chunks
    <3>1. reader.file # 0 /\ rank[reader.file] > 0 /\ data[reader.file] >= Chunks
      BY <2>1 DEF StagedIInv, ReaderOK
    <3>2. reader.file \in Files
      BY <3>1, FileConstants DEF StagedIInv, StagedTypes, ReaderTypes, Files
    <3>3. QED
      BY <1>3, <3>1, <3>2
  <2>2. QED
    BY <2>1 DEF ReaderOK
<1>8. QED
  BY <1>1, <1>3, <1>4, <1>5, <1>6, <1>7

\* A staged file replaces what is at the destination, and gives up its temporary.
LEMMA RenameStaged == ASSUME StagedIInv, NEW w \in Writers, Rename(w) PROVE StagedIInv'
<1>0. /\ EntryTypes /\ FileTypes /\ PlaceTypes /\ WriterTypes /\ ReaderTypes
      /\ process \in ProcessRecords /\ (\A v \in Writers : WriterOK(v)) /\ StagedTypes
  BY DEF StagedIInv, StagedTypes
<1> DEFINE f == writer[w].file
           n == writer[w].temp
           e == [x \in {Dest, n} |-> IF x = Dest THEN f ELSE 0]
           r == [writer[w] EXCEPT !.pc = "renamed", !.temp = 0]
<1>1. /\ writer[w].pc = "renaming" /\ writer[w].pc \in Building /\ Enter(e)
      /\ rank' = [rank EXCEPT ![f] = NextRank] /\ writer' = [writer EXCEPT ![w] = r]
      /\ UNCHANGED <<data, hard, links, present, linked, reader, process>>
  BY DEF Rename, Building
<1>2. /\ f \in Files /\ rank[f] = 0 /\ n \in Temps /\ f <= process.made
      /\ data[f] >= Chunks /\ hard[f] >= Chunks /\ writer[w].found \subseteq linked
      /\ writer[w].todo = {} /\ process.made \in Nat
  BY <1>0, <1>1 DEF WriterTypes, WriterRecords, WriterOK, ProcessRecords
<1>3. /\ r \in WriterRecords /\ r.pc = "renamed" /\ r.temp = 0 /\ r.file = f
      /\ r.found = writer[w].found /\ r.todo = {}
  BY <1>0, <1>2 DEF WriterTypes, WriterRecords, WriterPCs
<1>4. /\ DOMAIN e \subseteq Names /\ \A x \in DOMAIN e : e[x] \in 0 .. MaxFiles
  <2>1. {Dest, n} \subseteq Names /\ {f, 0} \subseteq 0 .. MaxFiles
    BY <1>2, NamesFacts, FileConstants DEF Files
  <2>2. QED
    BY <2>1
<1>5. Dest \in DOMAIN e /\ e[Dest] = f /\ n \in DOMAIN e /\ e[n] = 0 /\ DOMAIN e = {Dest, n}
  BY <1>2, NamesFacts
<1> HIDE DEF e, r, f, n
<1>6. /\ EntryTypes' /\ NowPossible'
      /\ \A x \in Names : /\ dir'[x] = IF x \in DOMAIN e THEN e[x] ELSE dir[x]
                          /\ disk'[x] = disk[x] \cup {dir'[x]}
  BY <1>0, <1>1, <1>4, EnterFacts
<1>7. dir'[Dest] = f /\ dir'[n] = 0 /\ disk'[Dest] = disk[Dest] \cup {f}
  BY <1>2, <1>5, <1>6, NamesFacts
<1>8. /\ RanksCounted' /\ rank' \in [Files -> Nat] /\ DestOK' /\ CommitOutlivesPower' /\ ReaderOK'
      /\ \A g \in Files : rank'[g] <= rank'[f] /\ (g # f => rank'[g] = rank[g])
  <2>1. /\ data'[f] >= Chunks /\ hard'[f] >= Chunks
        /\ \A g \in Files : g # f => data'[g] = data[g] /\ hard'[g] = hard[g]
    BY <1>1, <1>2
  <2>2. /\ f <= process'.made /\ process.made <= process'.made /\ process'.made \in Nat
        /\ process'.barrier = process.barrier /\ reader' = reader
    BY <1>1, <1>2
  <2>3. f \in Files /\ rank[f] = 0 /\ rank' = [rank EXCEPT ![f] = NextRank]
    BY <1>1, <1>2
  <2>4. QED
    BY <1>7, <2>1, <2>2, <2>3, Replaced
<1>9. WriterTypes' /\ (\A v \in Writers : v # w => writer'[v] = writer[v]) /\ writer'[w] = r
  BY <1>0, <1>1, <1>3, WriterBecomes
<1>10. FileTypes' /\ PlaceTypes' /\ ReaderTypes' /\ SizesBounded'
  BY <1>0, <1>1, <1>8 DEF FileTypes, PlaceTypes, ReaderTypes, SizesBounded, StagedIInv
<1>11. TempsOwned'
  <2>1. ASSUME NEW x \in Owned, x # n PROVE x \in Owned'
    <3>1. PICK v \in Writers : writer[v].temp = x /\ x # 0
      BY <2>1 DEF Owned
    <3>2. v # w
      BY <2>1, <3>1 DEF n
    <3>3. QED
      BY <3>1, <3>2, <1>9 DEF Owned
  <2>2. ASSUME NEW x \in Temps, dir'[x] # 0 PROVE x \in Owned' \cup process.leaked
    <3>1. x # n /\ x # Dest /\ x \in Names
      BY <1>7, <2>2, NamesFacts
    <3>2. dir[x] # 0
      BY <1>5, <1>6, <2>2, <3>1
    <3>3. QED
      BY <2>1, <3>1, <3>2 DEF StagedIInv, TempsOwned
  <2>3. QED
    BY <1>1, <2>2 DEF TempsOwned
<1>12. WriterOK(w)'
  <2>1. f # 0
    BY <1>2 DEF Files
  <2>2. rank'[f] <= rank'[dir'[Dest]]
    BY <1>2, <1>7, <1>8
  <2>3. QED
    BY <1>1, <1>2, <1>3, <1>7, <1>9, <2>1, <2>2 DEF WriterOK, Building
<1>13. ASSUME NEW v \in Writers, v # w PROVE WriterOK(v)'
  <2>1. writer'[v] = writer[v] /\ WriterOK(v) /\ writer[v].file \in {0} \cup Files
    BY <1>0, <1>9, <1>13 DEF WriterTypes, WriterRecords
  <2>2. ASSUME writer[v].pc \in Building
        PROVE  rank'[writer[v].file] = rank[writer[v].file]
    <3>1. writer[v].temp # 0 /\ writer[w].temp # 0 /\ writer[v].file # 0
      BY <1>0, <1>1, <2>1, <2>2 DEF WriterOK
    <3>2. writer[v].file # f
      BY <1>13, <3>1 DEF f, StagedIInv, WritersApart
    <3>3. QED
      BY <1>8, <2>1, <3>1, <3>2
  <2>3. ASSUME writer[v].pc = "renamed"
        PROVE  dir'[Dest] # 0 /\ rank'[writer[v].file] <= rank'[dir'[Dest]]
    <3>1. writer[v].file \in Files /\ f # 0
      BY <2>1, <2>3, <1>2 DEF WriterOK, Files
    <3>2. QED
      BY <1>7, <1>8, <3>1
  <2>4. QED
    BY <1>0, <1>1, <1>2, <2>1, <2>2, <2>3, WriterStays
<1>14. WritersApart'
  <2>1. \A v \in Writers : writer'[v].temp # 0 =>
           writer[v].temp # 0 /\ writer'[v].file = writer[v].file
    BY <1>3, <1>9
  <2>2. QED
    BY <2>1, ApartStays DEF StagedIInv
<1>15. process' \in ProcessRecords
  BY <1>0, <1>1
<1>16. QED
  BY <1>6, <1>8, <1>9, <1>10, <1>11, <1>12, <1>13, <1>14, <1>15 DEF StagedIInv, StagedTypes

\* The maximum of two naturals is one of them, and no less than the other.
LEMMA MaxOfTwo ==
  ASSUME NEW a \in Nat, NEW b \in Nat
  PROVE  Max({a, b}) = IF a <= b THEN b ELSE a
<1>1. {a, b} \in SUBSET Nat /\ {a, b} # {} /\ a + b \in Nat /\ \A y \in {a, b} : y <= a + b
  OBVIOUS
<1>2. Max({a, b}) \in {a, b} /\ \A y \in {a, b} : y <= Max({a, b})
  BY <1>1, MaxFacts
<1>3. QED
  BY <1>2

\* Once the directory is synced, only what is at the destination now, which is no
\* earlier than what was renamed, survives.
LEMMA SyncParentStaged == ASSUME StagedIInv, NEW w \in Writers, SyncParent(w) PROVE StagedIInv'
<1>0. /\ EntryTypes /\ FileTypes /\ PlaceTypes /\ WriterTypes /\ ReaderTypes
      /\ process \in ProcessRecords /\ (\A v \in Writers : WriterOK(v)) /\ StagedTypes
  BY DEF StagedIInv, StagedTypes
<1> DEFINE b == Max({process.barrier, rank[writer[w].file]})
<1>1. /\ writer[w].pc = "renamed" /\ writer' = [writer EXCEPT ![w] = Idle] /\ disk' = Durable
      /\ process' = [process EXCEPT !.barrier = b]
      /\ UNCHANGED <<dir, data, hard, rank, links, present, linked, reader>>
  BY DEF SyncParent
<1>2. /\ writer[w].file \in Files /\ dir[Dest] \in Files
      /\ rank[writer[w].file] <= rank[dir[Dest]]
      /\ rank[writer[w].file] \in Nat /\ rank[dir[Dest]] \in Nat /\ process.barrier \in Nat
  <2>1. writer[w].file \in Files
    BY <1>0, <1>1 DEF WriterOK, WriterTypes, WriterRecords
  <2>2. dir[Dest] \in Files
    BY <1>0, <1>1, NamesFacts, FileConstants DEF WriterOK, EntryTypes, Files
  <2>3. QED
    BY <1>0, <1>1, <2>1, <2>2 DEF WriterOK, FileTypes, ProcessRecords
<1>3. b = (IF process.barrier <= rank[writer[w].file] THEN rank[writer[w].file]
           ELSE process.barrier)
  BY <1>2, MaxOfTwo
<1>4. b \in Nat
  BY <1>2, <1>3
<1>5. b > 0 => b <= rank[dir[Dest]]
  <2>1. process.barrier > 0 => process.barrier <= rank[dir[Dest]]
    BY NamesFacts DEF StagedIInv, CommitOutlivesPower, NowPossible
  <2>2. QED
    BY <1>2, <1>3, <2>1
<1> HIDE DEF b
<1>6. /\ process' \in ProcessRecords /\ process'.made = process.made
      /\ process'.strange = process.strange /\ process'.leaked = process.leaked
      /\ process'.barrier = b
  BY <1>0, <1>1, <1>4 DEF ProcessRecords
<1>7. Idle \in WriterRecords /\ Idle.pc = "idle" /\ Idle.temp = 0 /\ Idle.found = {}
  BY IdleType
<1>8. WriterTypes' /\ (\A v \in Writers : v # w => writer'[v] = writer[v]) /\ writer'[w] = Idle
  BY <1>0, <1>1, <1>7, WriterBecomes
<1>9. disk' = [n \in Names |-> {dir[n]}] /\ \A n \in Names : dir[n] \in 0 .. MaxFiles
  BY <1>0, <1>1 DEF Durable, EntryTypes
<1>10. /\ EntryTypes' /\ NowPossible' /\ FileTypes' /\ PlaceTypes' /\ ReaderTypes'
  BY <1>0, <1>1, <1>9 DEF EntryTypes, NowPossible, FileTypes, PlaceTypes, ReaderTypes
<1>11. SizesBounded' /\ ReaderOK'
  BY <1>1, <1>6 DEF SizesBounded, ReaderOK, StagedIInv
<1>12. RanksCounted'
  BY <1>1, <1>6 DEF RanksCounted, Ranked, StagedIInv
<1>13. TempsOwned' /\ WritersApart'
  <2>0. writer[w].temp = 0
    BY <1>0, <1>1 DEF WriterOK, Building
  <2>1. \A v \in Writers : writer'[v].temp = writer[v].temp
    BY <2>0, <1>7, <1>8
  <2>2. Owned' = Owned
    BY <2>1, OwnedKept
  <2>3. TempsOwned'
    BY <1>1, <1>6, <2>2 DEF TempsOwned, StagedIInv
  <2>4. \A v \in Writers : writer'[v].temp # 0 =>
           writer[v].temp # 0 /\ writer'[v].file = writer[v].file
    BY <1>7, <1>8
  <2>5. QED
    BY <2>3, <2>4, ApartStays DEF StagedIInv
<1>14. DestOK' /\ CommitOutlivesPower'
  <2>1. disk'[Dest] = {dir[Dest]} /\ dir[Dest] \in disk[Dest] /\ dir[Dest] # 0
    BY <1>2, <1>9, NamesFacts DEF StagedIInv, NowPossible, Files
  <2>2. DestOK'
    BY <1>1, <2>1 DEF DestOK, StagedIInv
  <2>3. CommitOutlivesPower'
    BY <1>1, <1>5, <1>6, <2>1 DEF CommitOutlivesPower
  <2>4. QED
    BY <2>2, <2>3
<1>15. WriterOK(w)'
  BY <1>7, <1>8 DEF WriterOK, Building
<1>16. \A v \in Writers : v # w => WriterOK(v)'
  <2>1. process.made \in Nat
    BY <1>0 DEF ProcessRecords
  <2>2. writer[w].pc \notin Building
    BY <1>1 DEF Building
  <2>3. QED
    BY <1>1, <1>6, <1>8, <2>1, <2>2, OthersStay
<1>17. QED
  BY <1>6, <1>8, <1>10, <1>11, <1>12, <1>13, <1>14, <1>15, <1>16 DEF StagedIInv, StagedTypes

\* A thread that fails removes its temporary or leaves it behind.
LEMMA FileFailsStaged == ASSUME StagedIInv, NEW w \in Writers, FileFails(w) PROVE StagedIInv'
<1>0. /\ EntryTypes /\ FileTypes /\ PlaceTypes /\ WriterTypes /\ ReaderTypes
      /\ process \in ProcessRecords /\ (\A v \in Writers : WriterOK(v)) /\ StagedTypes
  BY DEF StagedIInv, StagedTypes
<1> DEFINE n == writer[w].temp
           own == {n} \ {0}
           e == [x \in own |-> 0]
<1>1. /\ writer' = [writer EXCEPT ![w] = Idle]
      /\ UNCHANGED <<data, hard, rank, links, present, linked, reader>>
      /\ \/ Enter(e) /\ UNCHANGED process
         \/ /\ process.strange < Strangers /\ UNCHANGED <<dir, disk>>
            /\ process' = [process EXCEPT !.leaked = process.leaked \cup own,
                                          !.strange = process.strange + 1]
  BY DEF FileFails
<1>2. n \in {0} \cup Temps /\ own \in SUBSET Temps
  BY <1>0 DEF WriterTypes, WriterRecords
<1>3. Idle \in WriterRecords /\ Idle.pc = "idle" /\ Idle.temp = 0 /\ Idle.found = {}
  BY IdleType
<1>4. WriterTypes' /\ (\A v \in Writers : v # w => writer'[v] = writer[v]) /\ writer'[w] = Idle
  BY <1>0, <1>1, <1>3, WriterBecomes
<1>5. \A x \in Owned : x \notin own => x \in Owned'
  <2>1. ASSUME NEW x \in Owned, x \notin own PROVE x \in Owned'
    <3>1. PICK v \in Writers : writer[v].temp = x /\ x # 0
      BY <2>1 DEF Owned
    <3>2. v # w
      BY <2>1, <3>1
    <3>3. QED
      BY <3>1, <3>2, <1>4 DEF Owned
  <2>2. QED
    BY <2>1
<1>6. DOMAIN e = own /\ \A x \in own : e[x] = 0
  OBVIOUS
<1> HIDE DEF e, own, n
<1>7. FileTypes' /\ PlaceTypes' /\ ReaderTypes' /\ ReaderOK'
  BY <1>0, <1>1 DEF FileTypes, PlaceTypes, ReaderTypes, ReaderOK, StagedIInv
<1>8. WritersApart'
  <2>1. \A v \in Writers : writer'[v].temp # 0 =>
           writer[v].temp # 0 /\ writer'[v].file = writer[v].file
    BY <1>3, <1>4
  <2>2. QED
    BY <2>1, ApartStays DEF StagedIInv
<1>9. /\ EntryTypes' /\ NowPossible' /\ TempsOwned' /\ dir'[Dest] = dir[Dest]
      /\ disk'[Dest] = disk[Dest]
  <2>1. CASE Enter(e) /\ UNCHANGED process
    <3>1. DOMAIN e \subseteq Names /\ \A x \in DOMAIN e : e[x] \in 0 .. MaxFiles
      BY <1>2, <1>6, NamesFacts, FileConstants
    <3>2. /\ EntryTypes' /\ NowPossible'
          /\ \A x \in Names : /\ dir'[x] = IF x \in DOMAIN e THEN e[x] ELSE dir[x]
                              /\ disk'[x] = disk[x] \cup {dir'[x]}
      BY <1>0, <2>1, <3>1, EnterFacts
    <3>3. dir'[Dest] = dir[Dest]
      BY <1>2, <1>6, <3>2, NamesFacts
    <3>4. disk'[Dest] = disk[Dest]
      <4>1. disk'[Dest] = disk[Dest] \cup {dir[Dest]} /\ dir[Dest] \in disk[Dest]
        BY <3>2, <3>3, NamesFacts DEF StagedIInv, NowPossible
      <4>2. QED
        BY <4>1
    <3>5. ASSUME NEW x \in Temps, dir'[x] # 0 PROVE x \in Owned' \cup process.leaked
      <4>1. x \in Names
        BY NamesFacts
      <4>2. x \notin own /\ dir[x] # 0
        BY <1>6, <3>2, <3>5, <4>1
      <4>3. QED
        BY <1>5, <4>2 DEF StagedIInv, TempsOwned
    <3>6. QED
      BY <2>1, <3>2, <3>3, <3>4, <3>5 DEF TempsOwned
  <2>2. CASE UNCHANGED <<dir, disk>>
               /\ process' = [process EXCEPT !.leaked = process.leaked \cup own,
                                                              !.strange = process.strange + 1]
    <3>1. process'.leaked = process.leaked \cup own
      BY <1>0, <2>2 DEF ProcessRecords
    <3>2. TempsOwned'
      BY <1>5, <2>2, <3>1 DEF StagedIInv, TempsOwned
    <3>3. QED
      BY <1>0, <2>2, <3>2 DEF EntryTypes, NowPossible, StagedIInv
  <2>3. QED
    BY <1>1, <2>1, <2>2
<1>10. /\ process' \in ProcessRecords /\ process'.made = process.made
       /\ process.strange <= process'.strange /\ process'.barrier = process.barrier
  <2>1. process.strange \in Nat
    BY <1>0, FileConstants DEF ProcessRecords
  <2>2. CASE UNCHANGED process
    BY <1>0, <2>1, <2>2
  <2>3. CASE /\ process.strange < Strangers
             /\ process' = [process EXCEPT !.leaked = process.leaked \cup own,
                                           !.strange = process.strange + 1]
    <3>1. process.strange + 1 \in 0 .. Strangers /\ process.leaked \cup own \in SUBSET Temps
      BY <1>0, <1>2, <2>1, <2>3, FileConstants DEF ProcessRecords
    <3> DEFINE l == process.leaked \cup own
               t == process.strange + 1
    <3>2. process' = [process EXCEPT !.leaked = l, !.strange = t]
      BY <2>3
    <3>3. process.strange <= t
      BY <2>1
    <3>4. l \in SUBSET Temps /\ t \in 0 .. Strangers
      BY <3>1
    <3> HIDE DEF l, t
    <3>5. QED
      BY <1>0, <3>2, <3>3, <3>4 DEF ProcessRecords
  <2>4. QED
    BY <1>1, <2>2, <2>3
<1>11. SizesBounded'
  <2>1. /\ process.strange \in Nat /\ process'.strange \in Nat /\ Chunks \in Nat
        /\ data \in [Files -> Nat] /\ hard \in [Files -> Nat]
    BY <1>0, <1>10, FileConstants DEF ProcessRecords, FileTypes
  <2>2. ASSUME NEW f \in Files
        PROVE  data[f] <= Chunks + process'.strange /\ hard[f] <= Chunks + process'.strange
    <3>1. data[f] <= Chunks + process.strange /\ hard[f] <= Chunks + process.strange
      BY DEF SizesBounded, StagedIInv
    <3>2. data[f] \in Nat /\ hard[f] \in Nat
      BY <2>1
    <3>3. QED
      BY <1>10, <2>1, <3>1, <3>2
  <2>3. QED
    BY <1>1, <2>2 DEF SizesBounded
<1>12. RanksCounted'
  BY <1>1, <1>10 DEF RanksCounted, Ranked, StagedIInv
<1>13. DestOK' /\ CommitOutlivesPower'
  BY <1>1, <1>9, <1>10 DEF DestOK, CommitOutlivesPower, StagedIInv
<1>14. WriterOK(w)'
  BY <1>3, <1>4 DEF WriterOK, Building
<1>15. \A v \in Writers : v # w => WriterOK(v)'
  <2>1. process.made \in Nat
    BY <1>0 DEF ProcessRecords
  <2>2. QED
    BY <1>1, <1>4, <1>9, <1>10, <2>1, OthersStay
<1>16. QED
  BY <1>4, <1>7, <1>8, <1>9, <1>10, <1>11, <1>12, <1>13, <1>14, <1>15 DEF StagedIInv, StagedTypes

\* The reader changes nothing but what it holds.
LEMMA ReaderSteps ==
  ASSUME StagedIInv,
         UNCHANGED <<dir, disk, data, hard, rank, links, present, linked, writer, process>>,
         ReaderTypes', ReaderOK'
  PROVE  StagedIInv'
<1>0. StagedIInv
  OBVIOUS
<1>1. /\ EntryTypes' /\ FileTypes' /\ process' \in ProcessRecords
      /\ SizesBounded' /\ NowPossible' /\ RanksCounted' /\ DestOK' /\ CommitOutlivesPower'
  BY QuietFiles
<1>2. PlaceTypes' /\ WriterTypes' /\ WritersApart' /\ TempsOwned'
  BY DEF StagedIInv, StagedTypes, PlaceTypes, WriterTypes, WritersApart, TempsOwned, Owned
<1>3. ASSUME NEW v \in Writers PROVE WriterOK(v)'
  BY DEF StagedIInv, WriterOK
<1>4. QED
  BY <1>1, <1>2, <1>3 DEF StagedIInv, StagedTypes

\* What is opened is at the destination, and whole.
LEMMA OpenReadStaged == ASSUME StagedIInv, OpenRead PROVE StagedIInv'
<1>1. dir[Dest] # 0 /\ dir[Dest] \in 0 .. MaxFiles /\ dir[Dest] \in disk[Dest]
  BY NamesFacts DEF OpenRead, Whole, StagedIInv, StagedTypes, EntryTypes, NowPossible
<1>2. rank[dir[Dest]] > 0 /\ data[dir[Dest]] >= Chunks
  BY <1>1 DEF StagedIInv, DestOK
<1>3. reader' = [pc |-> "opened", file |-> dir[Dest], got |-> 0]
  BY DEF OpenRead
<1>4. ReaderTypes' /\ ReaderOK'
  BY <1>1, <1>2, <1>3 DEF ReaderTypes, ReaderOK, OpenRead
<1>5. QED
  BY <1>4, ReaderSteps DEF OpenRead

\* A file that has grown is refused,
LEMMA CheckLengthStaged == ASSUME StagedIInv, CheckLength PROVE StagedIInv'
<1>1. ReaderTypes /\ ReaderOK
  BY DEF StagedIInv, StagedTypes
<1>2. /\ ReaderTypes' /\ reader'.pc \in {"idle", "checked"} /\ reader'.file = reader.file
  BY <1>1 DEF ReaderTypes, CheckLength
<1>3. ReaderOK'
  BY <1>1, <1>2 DEF ReaderOK, CheckLength
<1>4. QED
  BY <1>2, <1>3, ReaderSteps DEF CheckLength

\* and one that grows afterwards too.
LEMMA ReadBoundedStaged == ASSUME StagedIInv, ReadBounded PROVE StagedIInv'
<1>1. ReaderTypes /\ ReaderOK /\ FileTypes
  BY DEF StagedIInv, StagedTypes
<1>2. reader.file \in Files /\ data[reader.file] >= Chunks /\ data[reader.file] \in Nat
  BY <1>1, FileConstants DEF ReaderOK, ReaderTypes, FileTypes, Files, ReadBounded
<1> DEFINE got == IF data[reader.file] > Chunks THEN 0 ELSE data[reader.file]
<1>3. got \in {0, Chunks}
  BY <1>2, FileConstants
<1>4. reader' = [reader EXCEPT !.pc = "idle", !.got = got]
  BY DEF ReadBounded
<1> HIDE DEF got
<1>5. ReaderTypes' /\ reader'.pc = "idle"
  BY <1>1, <1>3, <1>4 DEF ReaderTypes
<1>6. QED
  BY <1>5, ReaderSteps DEF ReadBounded, ReaderOK

\* A stranger's append takes nothing away.
LEMMA GrowStaged == ASSUME StagedIInv, Grow PROVE StagedIInv'
<1>0. /\ EntryTypes /\ FileTypes /\ PlaceTypes /\ WriterTypes /\ ReaderTypes
      /\ process \in ProcessRecords /\ (\A v \in Writers : WriterOK(v)) /\ StagedTypes
  BY DEF StagedIInv, StagedTypes
<1> DEFINE d == dir[Dest]
           t == process.strange + 1
<1>1. /\ process.strange < Strangers /\ process' = [process EXCEPT !.strange = t] /\ d # 0
      /\ data' = [data EXCEPT ![d] = data[d] + 1]
      /\ UNCHANGED <<dir, disk, hard, rank, links, present, linked, writer, reader>>
  BY DEF Grow, Whole
<1>2. d \in Files /\ d \in disk[Dest] /\ rank[d] > 0 /\ data[d] \in Nat
  <2>1. d \in Files /\ d \in disk[Dest]
    BY <1>0, <1>1, NamesFacts, FileConstants DEF EntryTypes, StagedIInv, NowPossible, Files
  <2>2. QED
    BY <1>0, <1>1, <2>1 DEF FileTypes, StagedIInv, DestOK
<1>3. t \in 0 .. Strangers /\ process.strange \in Nat /\ Chunks \in Nat /\ t = process.strange + 1
  BY <1>0, <1>1, FileConstants DEF ProcessRecords
<1> HIDE DEF d, t
<1>4. /\ process' \in ProcessRecords /\ process'.made = process.made /\ process'.strange = t
      /\ process'.leaked = process.leaked /\ process'.barrier = process.barrier
  BY <1>0, <1>1, <1>3 DEF ProcessRecords
<1>5. /\ data' \in [Files -> Nat] /\ data'[d] = data[d] + 1
      /\ \A g \in Files : g # d => data'[g] = data[g]
  BY <1>0, <1>1, <1>2 DEF FileTypes
<1>6. \A g \in Files : data[g] \in Nat /\ hard[g] \in Nat /\ data[g] <= data'[g]
  BY <1>0, <1>2, <1>5 DEF FileTypes
<1>7. EntryTypes' /\ FileTypes' /\ PlaceTypes' /\ WriterTypes' /\ ReaderTypes'
  BY <1>0, <1>1, <1>5 DEF EntryTypes, FileTypes, PlaceTypes, WriterTypes, ReaderTypes
<1>8. SizesBounded'
  <2>1. ASSUME NEW g \in Files
        PROVE  data'[g] <= Chunks + t /\ hard[g] <= Chunks + t
    <3>1. data[g] <= Chunks + process.strange /\ hard[g] <= Chunks + process.strange
      BY DEF SizesBounded, StagedIInv
    <3>2. data'[g] = data[g] \/ data'[g] = data[g] + 1
      BY <1>5
    <3>3. QED
      BY <1>3, <1>6, <3>1, <3>2
  <2>2. QED
    BY <1>1, <1>4, <2>1 DEF SizesBounded
<1>9. NowPossible' /\ WritersApart' /\ CommitOutlivesPower'
  BY <1>1, <1>4 DEF NowPossible, WritersApart, CommitOutlivesPower, StagedIInv
<1>10. TempsOwned'
  BY <1>1, <1>4 DEF TempsOwned, Owned, StagedIInv
<1>11. RanksCounted'
  BY <1>1, <1>4 DEF RanksCounted, Ranked, StagedIInv
<1>12. DestOK'
  <2>1. ASSUME NEW g \in disk[Dest] \ {0}
        PROVE  rank[g] > 0 /\ data'[g] >= Chunks /\ hard[g] >= Chunks
    <3>1. rank[g] > 0 /\ data[g] >= Chunks /\ hard[g] >= Chunks
      BY <2>1 DEF DestOK, StagedIInv
    <3>2. g \in Files
      BY <1>0, NamesFacts, FileConstants DEF EntryTypes, Files
    <3>3. data[g] \in Nat /\ data'[g] \in Nat /\ data[g] <= data'[g]
      BY <1>5, <1>6, <3>2
    <3>4. QED
      BY <1>3, <3>1, <3>3
  <2>2. QED
    BY <1>1, <2>1 DEF DestOK
<1>13. ReaderOK'
  <2>1. ASSUME reader.pc # "idle"
        PROVE  reader.file # 0 /\ rank[reader.file] > 0 /\ data'[reader.file] >= Chunks
    <3>1. reader.file # 0 /\ rank[reader.file] > 0 /\ data[reader.file] >= Chunks
      BY <2>1 DEF StagedIInv, ReaderOK
    <3>2. reader.file \in Files
      BY <1>0, <3>1, FileConstants DEF ReaderTypes, Files
    <3>3. data[reader.file] \in Nat /\ data'[reader.file] \in Nat
          /\ data[reader.file] <= data'[reader.file]
      BY <1>5, <1>6, <3>2
    <3>4. QED
      BY <1>3, <3>1, <3>3
  <2>2. QED
    BY <1>1, <2>1 DEF ReaderOK
<1>14. ASSUME NEW v \in Writers PROVE WriterOK(v)'
  <2>1. /\ writer'[v] = writer[v] /\ linked \subseteq linked' /\ process.made <= process'.made
        /\ process'.made \in Nat /\ WriterOK(v)
    BY <1>0, <1>1, <1>4 DEF ProcessRecords
  <2>2. ASSUME writer[v].pc \in Building
        PROVE  LET f == writer[v].file
               IN  data'[f] = data[f] /\ hard'[f] = hard[f] /\ rank'[f] = rank[f]
    <3>1. rank[writer[v].file] = 0 /\ writer[v].file \in {0} \cup Files /\ writer[v].file # 0
      BY <1>0, <2>1, <2>2 DEF WriterOK, WriterTypes, WriterRecords
    <3>2. writer[v].file # d
      BY <1>2, <3>1
    <3>3. QED
      BY <1>1, <1>5, <3>1, <3>2
  <2>3. writer[v].pc = "renamed" => dir'[Dest] # 0 /\ rank'[writer[v].file] <= rank'[dir'[Dest]]
    BY <1>1, <2>1 DEF WriterOK
  <2>4. QED
    BY <1>0, <2>1, <2>2, <2>3, WriterStays
<1>15. QED
  BY <1>4, <1>7, <1>8, <1>9, <1>10, <1>11, <1>12, <1>13, <1>14 DEF StagedIInv, StagedTypes

\* A stranger's link leads to a whole file, and replaces what is there.
LEMMA PutLinkStaged == ASSUME StagedIInv, PutLink PROVE StagedIInv'
<1>0. /\ EntryTypes /\ FileTypes /\ PlaceTypes /\ WriterTypes /\ ReaderTypes
      /\ process \in ProcessRecords /\ (\A v \in Writers : WriterOK(v)) /\ StagedTypes
  BY DEF StagedIInv, StagedTypes
<1> DEFINE f == process.made + 1
           t == process.strange + 1
           e == [n \in {Dest} |-> f]
<1>1. /\ process.strange < Strangers /\ process.made < MaxFiles
      /\ process' = [process EXCEPT !.strange = t, !.made = f] /\ Enter(e)
      /\ data' = [data EXCEPT ![f] = Chunks] /\ hard' = [hard EXCEPT ![f] = Chunks]
      /\ rank' = [rank EXCEPT ![f] = NextRank] /\ links' = links \cup {f}
      /\ UNCHANGED <<present, linked, writer, reader>>
  BY DEF PutLink
<1>2. /\ t \in 0 .. Strangers /\ f \in 0 .. MaxFiles /\ f \in Files /\ f \in Nat
      /\ process.made \in Nat /\ process.made < f /\ process.strange \in Nat /\ t \in Nat
      /\ process.strange <= t /\ Chunks \in Nat
  BY <1>0, <1>1, FileConstants DEF ProcessRecords, Files
<1>3. DOMAIN e = {Dest} /\ e[Dest] = f
  OBVIOUS
<1> HIDE DEF f, t, e
<1>4. /\ process' \in ProcessRecords /\ process'.made = f /\ process'.strange = t
      /\ process'.leaked = process.leaked /\ process'.barrier = process.barrier
  BY <1>0, <1>1, <1>2 DEF ProcessRecords
<1>5. /\ EntryTypes' /\ NowPossible'
      /\ \A x \in Names : /\ dir'[x] = IF x \in DOMAIN e THEN e[x] ELSE dir[x]
                          /\ disk'[x] = disk[x] \cup {dir'[x]}
  <2>1. DOMAIN e \subseteq Names /\ \A x \in DOMAIN e : e[x] \in 0 .. MaxFiles
    BY <1>2, <1>3, NamesFacts
  <2>2. QED
    BY <1>0, <1>1, <2>1, EnterFacts
<1>6. dir'[Dest] = f /\ disk'[Dest] = disk[Dest] \cup {f}
  BY <1>3, <1>5, NamesFacts
<1>7. rank[f] = 0
  <2>1. ~(rank[f] > 0)
    BY <1>2 DEF StagedIInv, RanksCounted
  <2>2. QED
    BY <1>0, <1>2, <2>1 DEF FileTypes
<1>8. /\ data' \in [Files -> Nat] /\ data'[f] = Chunks /\ hard' \in [Files -> Nat]
      /\ hard'[f] = Chunks
      /\ \A g \in Files : g # f => data'[g] = data[g] /\ hard'[g] = hard[g]
  BY <1>0, <1>1, <1>2 DEF FileTypes
<1>9. /\ RanksCounted' /\ rank' \in [Files -> Nat] /\ DestOK' /\ CommitOutlivesPower' /\ ReaderOK'
      /\ \A g \in Files : rank'[g] <= rank'[f] /\ (g # f => rank'[g] = rank[g])
  <2>1. data'[f] >= Chunks /\ hard'[f] >= Chunks
    BY <1>2, <1>8
  <2>2. f <= process'.made /\ process.made <= process'.made /\ process'.made \in Nat
    BY <1>2, <1>4
  <2>3. QED
    BY <1>1, <1>2, <1>4, <1>6, <1>7, <1>8, <2>1, <2>2, Replaced
<1>10. FileTypes' /\ PlaceTypes' /\ WriterTypes' /\ ReaderTypes' /\ WritersApart'
  BY <1>0, <1>1, <1>2, <1>8, <1>9
  DEF FileTypes, PlaceTypes, WriterTypes, ReaderTypes, WritersApart, StagedIInv
<1>11. SizesBounded'
  <2>1. ASSUME NEW g \in Files
        PROVE  data'[g] <= Chunks + t /\ hard'[g] <= Chunks + t
    <3>1. data[g] <= Chunks + process.strange /\ hard[g] <= Chunks + process.strange
      BY DEF SizesBounded, StagedIInv
    <3>2. data[g] \in Nat /\ hard[g] \in Nat
      BY <1>0 DEF FileTypes
    <3>3. CASE g = f
      BY <1>2, <1>8, <3>3
    <3>4. CASE g # f
      BY <1>2, <1>8, <3>1, <3>2, <3>4
    <3>5. QED
      BY <3>3, <3>4
  <2>2. QED
    BY <1>4, <2>1 DEF SizesBounded
<1>12. TempsOwned'
  <2>1. \A x \in Temps : dir'[x] = dir[x]
    BY <1>3, <1>5, NamesFacts
  <2>2. Owned' = Owned
    BY <1>1 DEF Owned
  <2>3. QED
    BY <1>4, <2>1, <2>2 DEF TempsOwned, StagedIInv
<1>13. ASSUME NEW v \in Writers PROVE WriterOK(v)'
  <2>1. /\ writer'[v] = writer[v] /\ linked \subseteq linked' /\ process.made <= process'.made
        /\ process'.made \in Nat /\ WriterOK(v) /\ writer[v].file \in {0} \cup Files
    BY <1>0, <1>1, <1>2, <1>4 DEF WriterTypes, WriterRecords
  <2>2. ASSUME writer[v].pc \in Building
        PROVE  LET g == writer[v].file
               IN  data'[g] = data[g] /\ hard'[g] = hard[g] /\ rank'[g] = rank[g]
    <3>1. writer[v].file \in 1 .. process.made
      BY <2>1, <2>2 DEF WriterOK
    <3>2. writer[v].file # f /\ writer[v].file \in Files
      BY <1>2, <2>1, <3>1
    <3>3. QED
      BY <1>8, <1>9, <3>2
  <2>3. ASSUME writer[v].pc = "renamed"
        PROVE  dir'[Dest] # 0 /\ rank'[writer[v].file] <= rank'[dir'[Dest]]
    <3>1. writer[v].file \in Files /\ f # 0
      BY <2>1, <2>3, <1>2 DEF WriterOK, Files
    <3>2. QED
      BY <1>6, <1>9, <3>1
  <2>4. QED
    BY <1>0, <2>1, <2>2, <2>3, WriterStays
<1>14. QED
  BY <1>4, <1>5, <1>9, <1>10, <1>11, <1>12, <1>13 DEF StagedIInv, StagedTypes

\* A process that starts again owns nothing.
LEMMA StartedAgain ==
  ASSUME writer' = [w \in Writers |-> Idle],
         reader' = [pc |-> "idle", file |-> 0, got |-> 0]
  PROVE  /\ WriterTypes' /\ ReaderTypes' /\ WritersApart' /\ ReaderOK' /\ Owned' = {}
         /\ \A v \in Writers : WriterOK(v)'
<1>1. Idle \in WriterRecords /\ Idle.pc = "idle" /\ Idle.temp = 0 /\ Idle.found = {}
  BY IdleType
<1>2. \A v \in Writers : writer'[v] = Idle
  OBVIOUS
<1>3. WriterTypes' /\ WritersApart' /\ Owned' = {}
  BY <1>1, <1>2 DEF WriterTypes, WritersApart, Owned
<1>4. ReaderTypes' /\ ReaderOK'
  BY FileConstants DEF ReaderTypes, ReaderOK
<1>5. \A v \in Writers : WriterOK(v)'
  BY <1>1, <1>2 DEF WriterOK, Building
<1>6. QED
  BY <1>3, <1>4, <1>5

\* A kill leaves temporaries behind, and changes no file.
LEMMA KillStaged == ASSUME StagedIInv, Kill PROVE StagedIInv'
<1>0. /\ EntryTypes /\ FileTypes /\ PlaceTypes /\ WriterTypes /\ ReaderTypes
      /\ process \in ProcessRecords
  BY DEF StagedIInv, StagedTypes
<1>1. /\ WriterTypes' /\ ReaderTypes' /\ WritersApart' /\ ReaderOK' /\ Owned' = {}
      /\ \A v \in Writers : WriterOK(v)'
  BY StartedAgain DEF Kill
<1> DEFINE l == process.leaked \cup Owned
           k == process.kills + 1
<1>2. l \in SUBSET Temps /\ k \in Nat /\ 1 \in Nat
  BY <1>0 DEF ProcessRecords, Owned, WriterTypes, WriterRecords
<1>3. /\ process' = [process EXCEPT !.kills = k, !.next = 1, !.leaked = l]
      /\ UNCHANGED <<dir, disk, data, hard, rank, links, present, linked>>
  BY DEF Kill
<1> HIDE DEF k
<1>4. /\ process' \in ProcessRecords /\ process'.made = process.made
      /\ process'.strange = process.strange /\ process'.barrier = process.barrier
      /\ process'.leaked = process.leaked \cup Owned
  BY <1>0, <1>2, <1>3 DEF ProcessRecords
<1>5. EntryTypes' /\ FileTypes' /\ PlaceTypes' /\ NowPossible' /\ SizesBounded'
  BY <1>0, <1>3, <1>4 DEF EntryTypes, FileTypes, PlaceTypes, NowPossible, SizesBounded, StagedIInv
<1>6. RanksCounted'
  BY <1>3, <1>4 DEF RanksCounted, Ranked, StagedIInv
<1>7. DestOK' /\ CommitOutlivesPower' /\ TempsOwned'
  BY <1>3, <1>4 DEF DestOK, CommitOutlivesPower, TempsOwned, StagedIInv
<1>8. QED
  BY <1>1, <1>4, <1>5, <1>6, <1>7 DEF StagedIInv, StagedTypes

\* What remains is what may have.
LEMMA RemainsFacts ==
  ASSUME NEW possible, NEW now, NEW r \in Remains(possible, now)
  PROVE  /\ r = [x \in DOMAIN now |-> r[x]]
         /\ \A x \in DOMAIN now : r[x] \in possible[x]
<1> DEFINE open == {x \in DOMAIN now : possible[x] # {now[x]}}
<1>1. PICK c \in [open -> UNION {possible[x] : x \in open}] :
        (\A x \in open : c[x] \in possible[x]) /\ r = Overlaid(c, now)
  BY DEF Remains
<1>2. DOMAIN c = open
  OBVIOUS
<1>3. r = [x \in DOMAIN now |-> IF x \in open THEN c[x] ELSE now[x]]
  BY <1>1, <1>2 DEF Overlaid
<1>4. ASSUME NEW x \in DOMAIN now PROVE r[x] \in possible[x]
  <2>1. CASE x \in open
    BY <1>1, <1>3, <2>1
  <2>2. CASE x \notin open
    BY <1>3, <2>2
  <2>3. QED
    BY <2>1, <2>2
<1>5. QED
  BY <1>3, <1>4

\* The power leaves what the disk may have, which is all the invariant speaks of.
LEMMA PowerLossStaged == ASSUME StagedIInv, PowerLoss PROVE StagedIInv'
<1>0. /\ EntryTypes /\ FileTypes /\ PlaceTypes /\ WriterTypes /\ ReaderTypes
      /\ process \in ProcessRecords
  BY DEF StagedIInv, StagedTypes
<1>1. /\ WriterTypes' /\ ReaderTypes' /\ WritersApart' /\ ReaderOK' /\ Owned' = {}
      /\ \A v \in Writers : WriterOK(v)'
  BY StartedAgain DEF PowerLoss
<1>2. PlaceTypes'
  BY <1>0, FileConstants DEF PlaceTypes, PowerLoss
<1>3. /\ dir' \in [Names -> 0 .. MaxFiles]
      /\ dir'[Dest] # 0 => dir'[Dest] \in disk[Dest]
      /\ present' = Depth => dir'[Dest] \in disk[Dest]
  <2>1. CASE present' = Depth
    <3>1. dir' \in Remains(disk, dir) /\ DOMAIN dir = Names
      BY <1>0, <2>1 DEF PowerLoss, EntryTypes
    <3>2. dir' = [x \in Names |-> dir'[x]] /\ \A x \in Names : dir'[x] \in disk[x]
      BY <3>1, RemainsFacts
    <3>3. \A x \in Names : dir'[x] \in 0 .. MaxFiles
      BY <1>0, <3>2 DEF EntryTypes
    <3>4. QED
      BY <3>2, <3>3, NamesFacts
  <2>2. CASE present' # Depth
    BY <2>2, NamesFacts, FileConstants DEF PowerLoss
  <2>3. QED
    BY <2>1, <2>2
<1>4. /\ disk' = [n \in Names |-> {dir'[n]}] /\ hard' = data' /\ UNCHANGED <<rank, links>>
      /\ writer' = [w \in Writers |-> Idle]
  BY DEF PowerLoss
<1>5. EntryTypes' /\ NowPossible' /\ disk'[Dest] = {dir'[Dest]}
  BY <1>3, <1>4, NamesFacts DEF EntryTypes, NowPossible
<1>6. ASSUME NEW f \in Files
      PROVE  /\ data'[f] \in Nat /\ data'[f] <= data[f] /\ hard[f] <= data'[f]
  <2> DEFINE possible == [g \in Files |-> hard[g] .. data[g]]
  <2>1. data' \in Remains(possible, data) /\ DOMAIN data = Files
    BY <1>0 DEF PowerLoss, FileTypes
  <2>2. possible[f] = hard[f] .. data[f]
    OBVIOUS
  <2> HIDE DEF possible
  <2>3. data'[f] \in hard[f] .. data[f]
    BY <2>1, <2>2, RemainsFacts
  <2>4. hard[f] \in Nat /\ data[f] \in Nat
    BY <1>0 DEF FileTypes
  <2>5. QED
    BY <2>3, <2>4
<1>7. data' \in [Files -> Nat]
  <2> DEFINE possible == [g \in Files |-> hard[g] .. data[g]]
  <2>1. data' \in Remains(possible, data) /\ DOMAIN data = Files
    BY <1>0 DEF PowerLoss, FileTypes
  <2> HIDE DEF possible
  <2>2. data' = [x \in Files |-> data'[x]]
    BY <2>1, RemainsFacts
  <2>3. QED
    BY <1>6, <2>2
<1>8. FileTypes'
  BY <1>0, <1>4, <1>7 DEF FileTypes
<1> DEFINE l == {n \in Temps : dir'[n] # 0}
           k == process.losses + 1
           b == IF present' = Depth THEN process.barrier ELSE 0
<1>9. l \in SUBSET Temps /\ k \in Nat /\ 1 \in Nat /\ b \in Nat
  BY <1>0 DEF ProcessRecords
<1>10. process' = [process EXCEPT !.losses = k, !.next = 1, !.leaked = l, !.barrier = b]
  BY DEF PowerLoss
<1>11. \A n \in Temps : dir'[n] # 0 => n \in l
  OBVIOUS
<1>12. b > 0 => present' = Depth /\ b = process.barrier
  OBVIOUS
<1> HIDE DEF k, l, b
<1>13. /\ process' \in ProcessRecords /\ process'.made = process.made
       /\ process'.strange = process.strange /\ process'.barrier = b
       /\ process'.leaked = l
  BY <1>0, <1>9, <1>10 DEF ProcessRecords
<1>14. SizesBounded'
  <2>1. process.strange \in Nat /\ Chunks \in Nat
    BY <1>0, FileConstants DEF ProcessRecords
  <2>2. ASSUME NEW f \in Files PROVE data'[f] <= Chunks + process.strange
    BY <1>0, <1>6, <2>1 DEF SizesBounded, FileTypes, StagedIInv
  <2>3. QED
    BY <1>4, <1>13, <2>2 DEF SizesBounded
<1>15. RanksCounted'
  BY <1>4, <1>13 DEF RanksCounted, Ranked, StagedIInv
<1>16. TempsOwned'
  BY <1>11, <1>13 DEF TempsOwned
<1>17. DestOK'
  <2>1. ASSUME dir'[Dest] # 0
        PROVE  rank[dir'[Dest]] > 0 /\ data'[dir'[Dest]] >= Chunks
    <3>1. dir'[Dest] \in disk[Dest] /\ dir'[Dest] \in Files
      BY <1>3, <2>1, NamesFacts, FileConstants DEF Files
    <3>2. rank[dir'[Dest]] > 0 /\ hard[dir'[Dest]] >= Chunks
      BY <2>1, <3>1 DEF DestOK, StagedIInv
    <3>3. hard[dir'[Dest]] \in Nat /\ Chunks \in Nat
      BY <1>0, <3>1, FileConstants DEF FileTypes
    <3>4. QED
      BY <1>6, <3>1, <3>2, <3>3
  <2>2. QED
    BY <1>4, <1>5, <2>1 DEF DestOK
<1>18. CommitOutlivesPower'
  BY <1>3, <1>4, <1>5, <1>12, <1>13 DEF CommitOutlivesPower, StagedIInv
<1>19. QED
  BY <1>1, <1>2, <1>5, <1>8, <1>13, <1>14, <1>15, <1>16, <1>17, <1>18 DEF StagedIInv, StagedTypes

\* Every step preserves the invariant.
LEMMA NextStaged == StagedIInv /\ [FileNext]_fileVars => StagedIInv'
<1> SUFFICES ASSUME StagedIInv, [FileNext]_fileVars PROVE StagedIInv'
  OBVIOUS
<1>1. CASE UNCHANGED fileVars
  <2>1. ReaderTypes' /\ ReaderOK'
    BY <1>1 DEF fileVars, ReaderTypes, ReaderOK, StagedIInv, StagedTypes
  <2>2. QED
    BY <1>1, <2>1, ReaderSteps DEF fileVars
<1>2. ASSUME NEW w \in Writers,
             \/ FileLook(w) \/ MakeDirectory(w) \/ SyncAncestor(w) \/ Open(w) \/ Write(w)
             \/ Flush(w) \/ Sync(w) \/ Commit(w) \/ Rename(w) \/ SyncParent(w) \/ FileFails(w)
      PROVE  StagedIInv'
  BY <1>2, FileLookStaged, MakeDirectoryStaged, SyncAncestorStaged, OpenStaged, WriteStaged,
     FlushStaged, SyncStaged, CommitStaged, RenameStaged, SyncParentStaged, FileFailsStaged
<1>3. CASE \/ OpenRead \/ CheckLength \/ ReadBounded \/ Grow \/ PutLink \/ Kill \/ PowerLoss
  BY <1>3, OpenReadStaged, CheckLengthStaged, ReadBoundedStaged, GrowStaged, PutLinkStaged,
     KillStaged, PowerLossStaged
<1>4. QED
  BY <1>1, <1>2, <1>3 DEF FileNext

\* The invariant says all of what is claimed.
LEMMA StagedImplies == StagedIInv => WritesOutlivePower
<1> SUFFICES ASSUME StagedIInv PROVE WritesOutlivePower
  OBVIOUS
<1>0. /\ EntryTypes /\ FileTypes /\ PlaceTypes /\ WriterTypes /\ ReaderTypes
      /\ process \in ProcessRecords /\ (\A v \in Writers : WriterOK(v)) /\ StagedTypes
  BY DEF StagedIInv, StagedTypes
<1>1. FileTypeOK
  <2>1. /\ data \in [Files -> 0 .. Chunks + Strangers]
           /\ hard \in [Files -> 0 .. Chunks + Strangers]
    <3>1. process.strange \in Nat /\ process.strange <= Strangers /\ Chunks \in Nat
          /\ Strangers \in Nat
      BY <1>0, FileConstants DEF ProcessRecords
    <3>2. ASSUME NEW f \in Files
          PROVE  data[f] \in 0 .. Chunks + Strangers /\ hard[f] \in 0 .. Chunks + Strangers
      <4>1. /\ data[f] \in Nat /\ hard[f] \in Nat
            /\ data[f] <= Chunks + process.strange /\ hard[f] <= Chunks + process.strange
        BY <1>0 DEF FileTypes, StagedIInv, SizesBounded
      <4>2. QED
        BY <3>1, <4>1
    <3>3. QED
      BY <1>0, <3>2 DEF FileTypes
  <2>2. rank \in [Files -> 0 .. MaxFiles]
    <3>1. Cardinality(Ranked) \in Nat /\ Cardinality(Ranked) <= MaxFiles /\ MaxFiles \in Nat
      BY <1>0, CardinalityRanked, FileConstants
    <3>2. \A f \in Files : rank[f] \in Nat /\ rank[f] <= Cardinality(Ranked)
      BY <1>0 DEF FileTypes, StagedIInv, RanksCounted
    <3>3. \A f \in Files : rank[f] \in 0 .. MaxFiles
      BY <3>1, <3>2
    <3>4. QED
      BY <1>0, <3>3 DEF FileTypes
  <2>3. writer \in [Writers -> [pc : {"idle", "making", "syncing", "writing", "buffered",
                                       "flushed", "staged", "renaming", "renamed"},
                                found : SUBSET (1 .. Depth), todo : SUBSET (1 .. Depth),
                                temp : {0} \cup Temps, file : {0} \cup Files]]
    BY <1>0 DEF WriterTypes, WriterRecords, WriterPCs, Building
  <2>4. {n \in Temps : dir[n] # 0} \subseteq Owned \cup process.leaked
    BY DEF StagedIInv, TempsOwned
  <2>5. QED
    BY <1>0, <2>1, <2>2, <2>3, <2>4 DEF FileTypeOK, EntryTypes, FileTypes, PlaceTypes
<1>2. DestinationWhole
  <2>1. ASSUME NEW f \in ({dir[Dest]} \cup disk[Dest]) \ {0} PROVE Chunks <= Min({data[f], hard[f]})
    <3>1. f \in disk[Dest] \ {0}
      BY NamesFacts DEF StagedIInv, NowPossible
    <3>2. f \in Files
      BY <1>0, <3>1, NamesFacts, FileConstants DEF EntryTypes, Files
    <3>3. data[f] \in Nat /\ hard[f] \in Nat /\ data[f] >= Chunks /\ hard[f] >= Chunks
          /\ Chunks \in Nat
      BY <1>0, <3>1, <3>2, FileConstants DEF FileTypes, StagedIInv, DestOK
    <3>4. {data[f], hard[f]} \in SUBSET Nat /\ {data[f], hard[f]} # {}
      BY <3>3
    <3>5. Min({data[f], hard[f]}) \in {data[f], hard[f]}
      BY <3>4, MinFacts
    <3>6. QED
      BY <3>3, <3>5
  <2>2. QED
    BY <2>1 DEF DestinationWhole
<1>3. AncestorsOutlivePower
  BY <1>0 DEF AncestorsOutlivePower, WriterOK
<1>4. CommitOutlivesPower /\ ReadsAreWhole
  BY <1>0 DEF StagedIInv, ReadsAreWhole, ReaderTypes
<1>5. QED
  BY <1>1, <1>2, <1>3, <1>4 DEF WritesOutlivePower

\* Through failures, kills and power losses, for any number of threads, ancestors
\* and chunks: readers see whole contents, the destination is absent or whole, a
\* successful commit is not undone while its directory stands, and the directories
\* it was found to lack are durable (file.rs, StagedFile and read_bounded).
THEOREM DurabilityTheorem == FileSpec => []WritesOutlivePower
<1>1. FileInit => StagedIInv
  BY InitStaged
<1>2. StagedIInv /\ [FileNext]_fileVars => StagedIInv'
  BY NextStaged
<1>3. StagedIInv => WritesOutlivePower
  BY StagedImplies
<1>4. QED
  BY <1>1, <1>2, <1>3, PTL DEF FileSpec

-----------------------------------------------------------------------------
(* The socket path: the inductive invariant *)

PathStages == {"down", "locked", "probing", "refused", "removing", "binding",
           "bound", "serving", "leaving", "unlinked", "closed"}
PathRecords == [pc : PathStages, seen : Nat, own : Nat, late : SUBSET Nat]

\* The types, with what is numbered bounded by what was made.
PathTypes ==
  /\ made \in Nat /\ path \in Nat /\ path <= made
  /\ listens \subseteq 1..made /\ foreign \subseteq 1..made
  /\ daemon \in [Daemons -> PathRecords]
  /\ \A d \in Daemons : daemon[d].seen <= made /\ daemon[d].late \subseteq foreign

\* Whoever is not down holds the lock.
Locked == \A d \in Daemons : HoldsLock(d) => lock = d

\* A listener is foreign, or of a daemon that has bound.
ListenersOwned ==
  \A i \in listens \ foreign :
    \E d \in Daemons : Listening(d) /\ daemon[d].seen = i

\* The inode that refused a connection is not listened on again.
Refused ==
  \A d \in Daemons :
    daemon[d].pc \in {"refused", "removing"} /\ daemon[d].seen = path => path \notin listens

\* What a daemon has bound is listened on, and at the path if nobody interferes.
Bound ==
  \A d \in Daemons :
    foreign = {} =>
      /\ daemon[d].pc \in {"bound", "serving", "leaving"} =>
           path = daemon[d].seen /\ path \in listens
      /\ daemon[d].pc \in {"serving", "leaving"} => daemon[d].own = path

\* What takes the place of what a daemon has looked at, before it uses the path, is
\* late for its look; an identity is of its own socket or of one that was late.
Overtaken ==
  \A d \in Daemons :
    /\ daemon[d].pc = "removing" => path \in {0, daemon[d].seen} \cup daemon[d].late
    /\ daemon[d].pc = "bound" => path \in {0, daemon[d].seen} \cup daemon[d].late
    /\ daemon[d].pc \in {"serving", "leaving"} =>
         daemon[d].own \in {daemon[d].seen} \cup daemon[d].late
    /\ daemon[d].pc = "leaving" => path \in {daemon[d].own} \cup daemon[d].late

PathIInv == PathTypes /\ Locked /\ ListenersOwned /\ Refused /\ Bound /\ Overtaken

\* At the start there are no sockets and all daemons are down.
LEMMA InitPath == PathInit => PathIInv
BY PathConstants
   DEF PathInit, PathIInv, PathTypes, PathStages, PathRecords, Locked, ListenersOwned, Refused,
       Bound, Overtaken, Listening, HoldsLock, Fresh

\* A daemon that holds the lock is alone.
LEMMA Alone ==
  ASSUME Locked, NEW d \in Daemons, NEW e \in Daemons, HoldsLock(d), HoldsLock(e)
  PROVE  d = e
BY DEF Locked

-----------------------------------------------------------------------------
(* The steps *)

\* A step of one daemon between the lock and its release that moves it to where it
\* owns no listener, and changes at most the lock.
LEMMA QuietStep ==
  ASSUME PathIInv, NEW d \in Daemons, HoldsLock(d), ~Listening(d),
         UNCHANGED <<path, made, listens, foreign>>,
         NEW next \in PathRecords,
         daemon' = [daemon EXCEPT ![d] = next],
         next.seen <= made, next.late \subseteq foreign,
         next.pc \notin {"bound", "serving", "leaving", "unlinked"},
         next.pc \in {"refused", "removing"} /\ next.seen = path => path \notin listens,
         next.pc = "removing" => path \in {0, next.seen},
         IF next.pc = "down" THEN lock' = None ELSE lock' = lock
  PROVE  PathIInv'
<1>1. PathTypes'
  BY DEF PathIInv, PathTypes
<1>2. daemon'[d] = next /\ \A e \in Daemons \ {d} : daemon'[e] = daemon[e] /\ ~HoldsLock(e)
  BY DEF PathIInv, PathTypes, Locked
<1>3. Locked'
  BY <1>2 DEF PathIInv, Locked, HoldsLock
<1>4. ListenersOwned' /\ Refused' /\ Bound' /\ Overtaken'
  BY <1>2 DEF PathIInv, ListenersOwned, Refused, Bound, Overtaken, Listening, HoldsLock
<1>5. QED
  BY <1>1, <1>3, <1>4 DEF PathIInv

LEMMA LockStep ==
  ASSUME PathIInv, NEW d \in Daemons, Lock(d)
  PROVE  PathIInv'
<1>1. \A e \in Daemons : ~HoldsLock(e)
  BY PathConstants DEF PathIInv, Locked, Lock
<1>2. PathTypes'
  BY DEF PathIInv, PathTypes, Lock, DaemonMoves, PathStages, PathRecords
<1>3. daemon'[d].pc = "locked" /\ \A e \in Daemons \ {d} : daemon'[e] = daemon[e]
  BY DEF PathIInv, PathTypes, Lock, DaemonMoves
<1>4. QED
  BY <1>1, <1>2, <1>3 DEF PathIInv, Locked, ListenersOwned, Refused, Bound, Overtaken,
                                   Listening, HoldsLock, Lock

\* Where bind looks, gives up or goes on, nothing but its place changes.
LEMMA BindingStep ==
  ASSUME PathIInv, NEW d \in Daemons,
         PathLook(d) \/ Probe(d) \/ Recheck(d) \/ Unlock(d)
  PROVE  PathIInv'
<1>1. daemon \in [Daemons -> PathRecords] /\ path \in Nat
      /\ path <= made
      /\ made \in Nat /\ daemon[d].seen <= made /\ daemon[d].late \subseteq foreign
  BY DEF PathIInv, PathTypes
<1> DEFINE At(pc) == [daemon[d] EXCEPT !.pc = pc]
<1>2. daemon[d] \in PathRecords /\ daemon[d].seen <= made /\ daemon[d].late \subseteq foreign
  BY <1>1
<1>3. ASSUME GivesUp(d), HoldsLock(d), ~Listening(d),
             UNCHANGED <<path, made, listens, foreign>>
      PROVE  PathIInv'
  <2>1. Fresh \in PathRecords /\ Fresh.seen <= made /\ Fresh.late \subseteq foreign
        /\ Fresh.pc = "down"
    BY <1>1 DEF Fresh, PathStages, PathRecords
  <2>2. QED
    BY <1>3, <2>1, QuietStep DEF GivesUp
<1>4. CASE PathLook(d)
  <2> DEFINE next == [daemon[d] EXCEPT !.seen = path,
                        !.pc = IF path = 0 THEN "binding" ELSE "probing"]
  <2>1. next \in PathRecords /\ next.seen = path /\ next.late \subseteq foreign
        /\ next.pc \in {"binding", "probing"}
    BY <1>1, <1>2 DEF PathStages, PathRecords
  <2>2. daemon' = [daemon EXCEPT ![d] = next] /\ daemon[d].pc = "locked"
        /\ UNCHANGED <<lock, path, made, listens, foreign>>
    BY <1>1, <1>4 DEF PathLook
  <2> HIDE DEF next
  <2>3. QED
    BY <1>1, <2>1, <2>2, QuietStep DEF HoldsLock, Listening
<1>5. CASE Probe(d)
  <2>1. CASE path # 0 /\ path \notin listens
    <3>1. At("refused") \in PathRecords /\ At("refused").pc = "refused"
          /\ At("refused").seen <= made /\ At("refused").late \subseteq foreign
      BY <1>2 DEF PathStages, PathRecords
    <3>2. daemon' = [daemon EXCEPT ![d] = At("refused")] /\ daemon[d].pc = "probing"
          /\ UNCHANGED <<lock, path, made, listens, foreign>>
      BY <1>1, <1>5, <2>1 DEF Probe, DaemonMoves
    <3> HIDE DEF At
    <3>3. QED
      BY <2>1, <3>1, <3>2, QuietStep DEF HoldsLock, Listening
  <2>2. CASE ~(path # 0 /\ path \notin listens)
    BY <1>3, <1>5, <2>2 DEF Probe, HoldsLock, Listening
  <2>3. QED
    BY <2>1, <2>2
<1>6. CASE Recheck(d)
  <2>1. CASE path = daemon[d].seen
    <3>1. At("removing") \in PathRecords
          /\ At("removing").pc = "removing"
          /\ At("removing").seen = daemon[d].seen /\ At("removing").seen <= made
          /\ At("removing").late \subseteq foreign
      BY <1>2 DEF PathStages, PathRecords
    <3>2. daemon' = [daemon EXCEPT ![d] = At("removing")] /\ daemon[d].pc = "refused"
          /\ UNCHANGED <<lock, path, made, listens, foreign>>
      BY <1>1, <1>6, <2>1 DEF Recheck, DaemonMoves
    <3>3. path \notin listens
      BY <2>1, <3>2 DEF PathIInv, Refused
    <3> HIDE DEF At
    <3>4. QED
      BY <2>1, <3>1, <3>2, <3>3, QuietStep DEF HoldsLock, Listening
  <2>2. CASE path # daemon[d].seen
    BY <1>3, <1>6, <2>2 DEF Recheck, HoldsLock, Listening
  <2>3. QED
    BY <2>1, <2>2
<1>7. CASE Unlock(d)
  BY <1>3, <1>7 DEF Unlock, HoldsLock, Listening
<1>8. QED
  BY <1>4, <1>5, <1>6, <1>7

\* What every step of a holder leaves alone: the other daemons, which are down.
LEMMA Others ==
  ASSUME PathIInv, NEW d \in Daemons, HoldsLock(d), NEW next,
         daemon' = [daemon EXCEPT ![d] = next]
  PROVE  /\ daemon'[d] = next /\ lock = d
         /\ \A e \in Daemons \ {d} : daemon'[e] = daemon[e] /\ daemon[e].pc = "down" /\ e # lock
BY DEF PathIInv, PathTypes, Locked, HoldsLock

\* Removing what has refused a connection takes no daemon's socket.
LEMMA RemoveStep ==
  ASSUME PathIInv, NEW d \in Daemons, Remove(d)
  PROVE  PathIInv'
<1>1. daemon[d] \in PathRecords /\ daemon[d].seen <= made /\ daemon[d].late \subseteq foreign
  BY DEF PathIInv, PathTypes
<1>2. HoldsLock(d) /\ daemon[d].pc = "removing"
  BY DEF Remove, HoldsLock
<1>3. PICK next \in PathRecords :
        /\ daemon' = [daemon EXCEPT ![d] = next]
        /\ \/ /\ next.pc = "binding" /\ next.seen = daemon[d].seen /\ next.late = daemon[d].late
              /\ lock' = lock
              /\ path' = 0
           \/ /\ next = Fresh /\ lock' = None /\ path' = path
  <2>1. CASE path # 0
    <3> DEFINE next == [daemon[d] EXCEPT !.pc = "binding"]
    <3>1. next \in PathRecords /\ next.pc = "binding"
          /\ next.seen = daemon[d].seen /\ next.late = daemon[d].late
      BY <1>1 DEF PathStages, PathRecords
    <3>2. daemon' = [daemon EXCEPT ![d] = next] /\ lock' = lock /\ path' = 0
      BY <2>1 DEF Remove, DaemonMoves, PathIInv, PathTypes
    <3> HIDE DEF next
    <3>3. QED
      BY <3>1, <3>2
  <2>2. CASE path = 0
    BY <2>2 DEF Remove, GivesUp, Fresh, PathStages, PathRecords
  <2>3. QED
    BY <2>1, <2>2
<1>4. UNCHANGED <<made, listens, foreign>> /\ next.pc \in {"binding", "down"} /\ next.seen <= made
      /\ next.late \subseteq foreign
  BY <1>1, <1>3 DEF Remove, Fresh, PathRecords, PathIInv, PathTypes
<1>5. /\ daemon'[d] = next /\ lock = d
      /\ \A e \in Daemons \ {d} : daemon'[e] = daemon[e] /\ daemon[e].pc = "down" /\ e # lock
  BY <1>2, <1>3, Others
<1>6. PathTypes'
  BY <1>3, <1>4, <1>5 DEF PathIInv, PathTypes
<1>7. Locked'
  BY <1>3, <1>5 DEF Locked, HoldsLock, Fresh
<1>8. ListenersOwned' /\ Refused' /\ Bound' /\ Overtaken'
  BY <1>2, <1>4, <1>5 DEF PathIInv, ListenersOwned, Refused, Bound, Overtaken, Listening
<1>9. QED
  BY <1>6, <1>7, <1>8 DEF PathIInv

LEMMA BindStep ==
  ASSUME PathIInv, NEW d \in Daemons, Bind(d)
  PROVE  PathIInv'
<1>1. daemon[d] \in PathRecords /\ daemon[d].pc = "binding"
      /\ HoldsLock(d) /\ daemon[d].late \subseteq foreign
  BY DEF PathIInv, PathTypes, Bind, HoldsLock
<1>2. CASE path = 0
  <2> DEFINE next == [daemon[d] EXCEPT !.pc = "bound", !.seen = made + 1]
  <2>0. made + 1 \in Nat /\ "bound" \in PathStages
    BY DEF PathStages, PathRecords, PathIInv, PathTypes
  <2>1. next \in PathRecords /\ next.pc = "bound"
        /\ next.seen = made + 1 /\ next.late \subseteq foreign
    BY <1>1, <2>0 DEF PathRecords
  <2>2. /\ daemon' = [daemon EXCEPT ![d] = next] /\ made' = made + 1 /\ path' = made + 1
        /\ listens' = listens \cup {made + 1} /\ UNCHANGED <<lock, foreign>>
    BY <1>2 DEF Bind, PathIInv, PathTypes
  <2> HIDE DEF next
  <2>3. /\ daemon'[d] = next /\ lock = d
        /\ \A e \in Daemons \ {d} : daemon'[e] = daemon[e] /\ daemon[e].pc = "down" /\ e # lock
    BY <1>1, <2>2, Others
  <2>4. PathTypes'
    BY <2>1, <2>2, <2>3 DEF PathIInv, PathTypes, PathRecords
  <2>5. Locked'
    BY <2>2, <2>3 DEF Locked, HoldsLock
  <2>6. ListenersOwned' /\ Refused' /\ Bound' /\ Overtaken'
    BY <1>1, <2>1, <2>2, <2>3 DEF PathIInv, ListenersOwned, Refused, Bound, Overtaken, Listening
  <2>7. QED
    BY <2>4, <2>5, <2>6 DEF PathIInv
<1>3. CASE path # 0
  <2>1. Fresh \in PathRecords /\ Fresh.seen <= made /\ Fresh.late \subseteq foreign
        /\ Fresh.pc = "down"
    BY DEF Fresh, PathStages, PathRecords, PathIInv, PathTypes
  <2>2. QED
    BY <1>1, <1>3, <2>1, QuietStep DEF Bind, GivesUp, Listening
<1>4. QED
  BY <1>2, <1>3

LEMMA IdentifyStep ==
  ASSUME PathIInv, NEW d \in Daemons, Identify(d)
  PROVE  PathIInv'
<1>1. daemon[d] \in PathRecords /\ daemon[d].pc = "bound"
      /\ HoldsLock(d) /\ daemon[d].seen <= made /\ daemon[d].late \subseteq foreign
  BY DEF PathIInv, PathTypes, Identify, HoldsLock
<1>2. CASE path # 0
  <2> DEFINE next == [daemon[d] EXCEPT !.pc = "serving", !.own = path]
  <2>1. next \in PathRecords /\ next.pc = "serving"
        /\ next.seen = daemon[d].seen /\ next.own = path
        /\ next.late = daemon[d].late
    BY <1>1 DEF PathStages, PathRecords, PathIInv, PathTypes
  <2>2. daemon' = [daemon EXCEPT ![d] = next] /\ UNCHANGED <<lock, listens, path, made, foreign>>
    BY <1>2 DEF Identify, PathIInv, PathTypes
  <2> HIDE DEF next
  <2>3. /\ daemon'[d] = next /\ lock = d
        /\ \A e \in Daemons \ {d} : daemon'[e] = daemon[e] /\ daemon[e].pc = "down" /\ e # lock
    BY <1>1, <2>2, Others
  <2>4. PathTypes'
    BY <1>1, <2>1, <2>2, <2>3 DEF PathIInv, PathTypes
  <2>5. Locked'
    BY <2>2, <2>3 DEF Locked, HoldsLock
  <2>6. ListenersOwned' /\ Refused' /\ Bound' /\ Overtaken'
    BY <1>1, <1>2, <2>1, <2>2, <2>3
       DEF PathIInv, ListenersOwned, Refused, Bound, Overtaken, Listening
  <2>7. QED
    BY <2>4, <2>5, <2>6 DEF PathIInv
<1>3. CASE path = 0
  <2>1. /\ daemon' = [daemon EXCEPT ![d] = Fresh] /\ lock' = None
        /\ listens' = listens \ {daemon[d].seen} /\ UNCHANGED <<path, made, foreign>>
    BY <1>3 DEF Identify, GivesUp
  <2>2. /\ daemon'[d] = Fresh /\ lock = d
        /\ \A e \in Daemons \ {d} : daemon'[e] = daemon[e] /\ daemon[e].pc = "down" /\ e # lock
    BY <1>1, <2>1, Others
  <2>3. PathTypes'
    <3>1. Fresh \in PathRecords /\ Fresh.seen <= made /\ Fresh.late \subseteq foreign
      BY DEF Fresh, PathStages, PathRecords, PathIInv, PathTypes
    <3>2. daemon' \in [Daemons -> PathRecords]
          /\ \A e \in Daemons : daemon'[e].seen <= made /\ daemon'[e].late \subseteq foreign
      BY <2>1, <2>2, <3>1 DEF PathIInv, PathTypes
    <3>3. QED
      BY <2>1, <3>2 DEF PathIInv, PathTypes
  <2>4. Locked'
    BY <2>1, <2>2 DEF Locked, HoldsLock, Fresh
  <2>5. ListenersOwned' /\ Refused' /\ Bound' /\ Overtaken'
    BY <2>1, <2>2 DEF PathIInv, ListenersOwned, Refused, Bound, Overtaken, Listening, Fresh
  <2>6. QED
    BY <2>3, <2>4, <2>5 DEF PathIInv
<1>4. QED
  BY <1>2, <1>3

\* Drop looks, unlinks if it saw its own, and closes the listener.
LEMMA LeavingStep ==
  ASSUME PathIInv, NEW d \in Daemons, DropLooks(d) \/ Unlink(d) \/ CloseListener(d)
  PROVE  PathIInv'
<1>1. daemon[d] \in PathRecords /\ daemon[d].seen <= made /\ daemon[d].late \subseteq foreign
  BY DEF PathIInv, PathTypes
<1>2. PICK pc \in {"leaving", "unlinked", "closed"} : daemon' = [daemon EXCEPT ![d].pc = pc]
  BY DEF DropLooks, Unlink, CloseListener, DaemonMoves
<1> DEFINE next == [daemon[d] EXCEPT !.pc = pc]
<1>3. next \in PathRecords /\ next.pc = pc /\ next.seen = daemon[d].seen
      /\ next.own = daemon[d].own /\ next.late = daemon[d].late
  BY <1>1, <1>2 DEF PathStages, PathRecords
<1>4. daemon' = [daemon EXCEPT ![d] = next] /\ HoldsLock(d)
  BY <1>2 DEF DropLooks, Unlink, CloseListener, DaemonMoves, HoldsLock, PathIInv, PathTypes
<1>5. UNCHANGED <<lock, made, foreign>> /\ path' \in {0, path} /\ listens' \subseteq listens
  BY DEF DropLooks, Unlink, CloseListener
<1>6. daemon'[d].pc = pc
  BY <1>2 DEF PathIInv, PathTypes, PathRecords
<1>7. \/ /\ daemon[d].pc = "serving" /\ UNCHANGED <<path, listens>>
         /\ pc = "unlinked" \/ (pc = "leaving" /\ path = daemon[d].own)
      \/ daemon[d].pc = "leaving" /\ pc = "unlinked" /\ listens' = listens
      \/ daemon[d].pc = "unlinked" /\ pc = "closed" /\ listens' = listens \ {daemon[d].seen}
  <2>1. CASE DropLooks(d)
    <3>1. pc = IF path = daemon[d].own THEN "leaving" ELSE "unlinked"
      BY <1>6, <2>1 DEF DropLooks, DaemonMoves, PathIInv, PathTypes
    <3>2. QED
      BY <2>1, <3>1 DEF DropLooks, DaemonMoves
  <2>2. CASE Unlink(d)
    BY <1>6, <2>2 DEF Unlink, DaemonMoves, PathIInv, PathTypes
  <2>3. CASE CloseListener(d)
    BY <1>6, <2>3 DEF CloseListener, DaemonMoves, PathIInv, PathTypes
  <2>4. QED
    BY <2>1, <2>2, <2>3
<1> HIDE DEF next
<1>8. /\ daemon'[d] = next /\ lock = d
      /\ \A e \in Daemons \ {d} : daemon'[e] = daemon[e] /\ daemon[e].pc = "down" /\ e # lock
  BY <1>4, Others
<1>9. PathTypes'
  <2>1. daemon' \in [Daemons -> PathRecords]
        /\ \A e \in Daemons : daemon'[e].seen <= made /\ daemon'[e].late \subseteq foreign
    BY <1>1, <1>3, <1>4, <1>8 DEF PathIInv, PathTypes
  <2>2. path' \in Nat /\ path' <= made
    BY <1>5 DEF PathIInv, PathTypes
  <2>3. QED
    BY <1>5, <2>1, <2>2 DEF PathIInv, PathTypes
<1>10. Locked'
  BY <1>5, <1>8 DEF Locked, HoldsLock
<1>11. ListenersOwned' /\ Refused' /\ Bound'
  BY <1>2, <1>3, <1>5, <1>7, <1>8 DEF PathIInv, ListenersOwned, Refused, Bound, Listening
<1>12. Overtaken'
  BY <1>2, <1>3, <1>5, <1>7, <1>8 DEF PathIInv, Overtaken
<1>13. QED
  BY <1>9, <1>10, <1>11, <1>12 DEF PathIInv

LEMMA CrashStep ==
  ASSUME PathIInv, NEW d \in Daemons, Crash(d)
  PROVE  PathIInv'
<1>1. daemon' = [daemon EXCEPT ![d] = Fresh] /\ HoldsLock(d) /\ UNCHANGED <<path, made, foreign>>
  BY DEF Crash, HoldsLock
<1>2. /\ daemon'[d] = Fresh /\ lock = d
      /\ \A e \in Daemons \ {d} : daemon'[e] = daemon[e] /\ daemon[e].pc = "down" /\ e # lock
  BY <1>1, Others
<1>3. PathTypes'
  <2>1. Fresh \in PathRecords /\ Fresh.seen <= made /\ Fresh.late \subseteq foreign
    BY DEF Fresh, PathStages, PathRecords, PathIInv, PathTypes
  <2>2. daemon' \in [Daemons -> PathRecords]
        /\ \A e \in Daemons : daemon'[e].seen <= made /\ daemon'[e].late \subseteq foreign
    BY <1>1, <1>2, <2>1 DEF PathIInv, PathTypes
  <2>3. listens' \subseteq listens
    BY DEF Crash
  <2>4. QED
    BY <1>1, <2>2, <2>3 DEF PathIInv, PathTypes
<1>4. Locked'
  BY <1>2 DEF Locked, HoldsLock, Fresh
<1>5. listens' = listens \ (IF Listening(d) THEN {daemon[d].seen} ELSE {})
  BY DEF Crash
<1>6. ListenersOwned' /\ Refused' /\ Bound' /\ Overtaken'
  BY <1>1, <1>2, <1>5 DEF PathIInv, ListenersOwned, Refused, Bound, Overtaken, Listening, Fresh
<1>7. QED
  BY <1>3, <1>4, <1>6 DEF PathIInv

\* Somebody else takes the path with an inode that nobody has looked at, or leaves.
LEMMA ForeignStep ==
  ASSUME PathIInv, Foreign \/ ForeignCloses
  PROVE  PathIInv'
<1>1. CASE Foreign
  <2>1. /\ made' = made + 1 /\ path' = made + 1 /\ listens' = listens \cup {made + 1}
        /\ foreign' = foreign \cup {made + 1} /\ lock' = lock
    BY <1>1 DEF Foreign
  <2>2. DOMAIN daemon' = Daemons
        /\ daemon' = [d \in Daemons |-> [daemon[d] EXCEPT !.late =
                                           @ \cup IF Exposed(d) THEN {made + 1} ELSE {}]]
    BY <1>1 DEF Foreign
  <2>3. ASSUME NEW d \in Daemons
        PROVE  /\ daemon'[d] \in PathRecords
               /\ daemon'[d].pc = daemon[d].pc /\ daemon'[d].seen = daemon[d].seen
               /\ daemon'[d].own = daemon[d].own
               /\ daemon[d].late \subseteq daemon'[d].late
               /\ daemon'[d].late \subseteq daemon[d].late \cup {made + 1}
               /\ daemon[d].pc \in {"removing", "bound", "leaving"} => made + 1 \in daemon'[d].late
    <3>1. daemon[d] \in PathRecords /\ made + 1 \in Nat
      BY DEF PathIInv, PathTypes
    <3>2. QED
      BY <2>2, <3>1 DEF PathRecords, Exposed
  <2>4. PathTypes'
    <3>1. daemon' \in [Daemons -> PathRecords]
      BY <2>2, <2>3
    <3>2. \A d \in Daemons : daemon'[d].seen <= made' /\ daemon'[d].late \subseteq foreign'
      <4>1. TAKE d \in Daemons
      <4>2. daemon[d].seen \in Nat /\ daemon[d].seen <= made /\ made \in Nat
            /\ daemon[d].late \subseteq foreign
        BY DEF PathIInv, PathTypes, PathRecords
      <4>3. QED
        BY <2>1, <2>3, <4>2
    <3>3. QED
      BY <2>1, <3>1, <3>2 DEF PathIInv, PathTypes
  <2>5. Locked'
    BY <2>1, <2>3 DEF PathIInv, Locked, HoldsLock
  <2>6. ListenersOwned' /\ Bound'
    BY <2>1, <2>3 DEF PathIInv, ListenersOwned, Bound, Listening
  <2>7. Refused'
    <3>1. \A d \in Daemons : daemon[d].seen # made + 1
      BY DEF PathIInv, PathTypes, PathRecords
    <3>2. QED
      BY <2>1, <2>3, <3>1 DEF Refused
  <2>8. Overtaken'
    BY <2>1, <2>3 DEF PathIInv, Overtaken
  <2>9. QED
    BY <2>4, <2>5, <2>6, <2>7, <2>8 DEF PathIInv
<1>2. CASE ForeignCloses
  <2>1. PathTypes' /\ Locked'
    BY <1>2 DEF PathIInv, PathTypes, Locked, HoldsLock, ForeignCloses
  <2>2. ListenersOwned' /\ Refused' /\ Bound' /\ Overtaken'
    BY <1>2 DEF PathIInv, PathTypes, ListenersOwned, Refused, Bound, Overtaken, Listening,
                ForeignCloses
  <2>3. QED
    BY <2>1, <2>2 DEF PathIInv
<1>3. QED
  BY <1>1, <1>2

LEMMA NextPath == PathIInv /\ [PathNext]_pathVars => PathIInv'
<1> SUFFICES ASSUME PathIInv, [PathNext]_pathVars PROVE PathIInv'
  OBVIOUS
<1>1. ASSUME NEW d \in Daemons, Step(d) \/ Crash(d) PROVE PathIInv'
  BY <1>1, LockStep, BindingStep, RemoveStep, BindStep, IdentifyStep, LeavingStep, CrashStep
     DEF Step
<1>2. CASE Foreign \/ ForeignCloses
  BY <1>2, ForeignStep
<1>3. CASE UNCHANGED pathVars
  BY <1>3 DEF pathVars, PathIInv, PathTypes, Locked, ListenersOwned, Refused, Bound, Overtaken,
              Listening, HoldsLock
<1>4. QED
  BY <1>1, <1>2, <1>3 DEF PathNext

\* A path that is taken away was no live listener's but the remover's own, or one
\* that somebody else had put there after the daemon's look.
LEMMA StepKeepsLive ==
  ASSUME PathIInv, [PathNext]_pathVars, path' = 0, path \in listens
  PROVE  \E d \in Daemons :
           \/ daemon[d].pc = "leaving" /\ path = daemon[d].seen
           \/ daemon[d].pc \in {"removing", "leaving"} /\ path \in daemon[d].late \cap foreign
<1>1. path # 0 /\ path' # path
  BY DEF PathIInv, PathTypes
<1>2. ~Foreign
  BY DEF Foreign, PathIInv, PathTypes
<1>3. ~UNCHANGED pathVars /\ ~ForeignCloses
  BY <1>1 DEF pathVars, ForeignCloses
<1>4. PICK d \in Daemons : Step(d) \/ Crash(d)
  BY <1>2, <1>3 DEF PathNext
<1>5. CASE Unlink(d)
  <2>1. daemon[d].pc = "leaving"
    BY <1>5 DEF Unlink, DaemonMoves
  <2>2. path \in {daemon[d].seen} \cup daemon[d].late
    BY <2>1 DEF PathIInv, Overtaken
  <2>3. daemon[d].late \subseteq foreign
    BY DEF PathIInv, PathTypes
  <2>4. QED
    BY <2>1, <2>2, <2>3
<1>6. CASE Remove(d)
  <2>1. daemon[d].pc = "removing"
    BY <1>6 DEF Remove
  <2>2. daemon[d].seen # path
    BY <2>1 DEF PathIInv, Refused
  <2>3. path \in daemon[d].late
    BY <1>1, <2>1, <2>2 DEF PathIInv, Overtaken
  <2>4. daemon[d].late \subseteq foreign
    BY DEF PathIInv, PathTypes
  <2>5. QED
    BY <2>1, <2>3, <2>4
<1>7. CASE Bind(d)
  BY <1>1, <1>7 DEF Bind
<1>8. CASE Lock(d) \/ PathLook(d) \/ Probe(d) \/ Recheck(d) \/ Identify(d) \/ DropLooks(d)
           \/ CloseListener(d) \/ Unlock(d) \/ Crash(d)
  BY <1>1, <1>8 DEF Lock, PathLook, Probe, Recheck, Identify, DropLooks, CloseListener, Unlock,
                    Crash
<1>9. QED
  BY <1>4, <1>5, <1>6, <1>7, <1>8 DEF Step

\* The types, with the bound on sockets and the holder of the lock.
LEMMA InitPathTypeOK == PathInit => PathTypeOK
BY PathConstants DEF PathInit, PathTypeOK, HoldsLock, Fresh

LEMMA NextPathTypeOK ==
  ASSUME PathIInv, PathTypeOK, [PathNext]_pathVars
  PROVE  PathTypeOK'
<1>1. /\ daemon \in [Daemons -> PathRecords] /\ made \in Nat /\ path \in Nat /\ path <= made
      /\ lock \in Daemons \cup {None} /\ made <= MaxInodes /\ MaxInodes \in Nat
      /\ None \notin Daemons
      /\ \A d \in Daemons : daemon[d].seen <= made /\ daemon[d].own <= made
  BY PathConstants DEF PathIInv, PathTypes, PathTypeOK
<1>2. PathIInv'
  BY NextPath
<1>3. /\ made' \in Nat /\ path' \in 0..made' /\ listens' \subseteq 1..made'
         /\ foreign' \subseteq 1..made'
      /\ \A d \in Daemons : daemon'[d].seen \in 0..made' /\ daemon'[d].late \subseteq foreign'
  BY <1>2 DEF PathIInv, PathTypes, PathRecords
<1>4. ASSUME NEW d \in Daemons, Step(d) \/ Crash(d)
      PROVE  /\ lock' \in Daemons \cup {None} /\ made' \in 0..MaxInodes
             /\ lock' # None => daemon'[lock'].pc # "down"
             /\ \A e \in Daemons : daemon'[e].own \in 0..made'
  <2>1. made' \in {made, made + 1} /\ made' <= MaxInodes /\ made <= made'
    BY <1>1, <1>4 DEF Step, Lock, PathLook, Probe, Recheck, Remove, Bind, Identify, DropLooks,
                      Unlink, CloseListener, Unlock, Crash
  <2>2. \A e \in Daemons \ {d} : daemon'[e] = daemon[e]
    BY <1>1, <1>4 DEF Step, Lock, PathLook, Probe, Recheck, Remove, Bind, Identify, DropLooks,
                      Unlink, CloseListener, Unlock, Crash, DaemonMoves, GivesUp
  <2>3. daemon'[d].own \in {0, path, daemon[d].own}
    BY <1>1, <1>4 DEF Step, Lock, PathLook, Probe, Recheck, Remove, Bind, Identify, DropLooks,
                      Unlink, CloseListener, Unlock, Crash, DaemonMoves, GivesUp, Fresh, PathRecords
  <2>4. /\ lock' \in {d, None} /\ (lock' = d => daemon'[d].pc # "down")
    <3>1. lock = d \/ Lock(d)
      BY <1>4 DEF Step, PathLook, Probe, Recheck, Remove, Bind, Identify, DropLooks, Unlink,
                  CloseListener, Unlock, Crash, DaemonMoves, PathIInv, Locked, HoldsLock
    <3>2. QED
      BY <1>1, <1>4, <3>1 DEF Step, Lock, PathLook, Probe, Recheck, Remove, Bind, Identify,
                      DropLooks, Unlink, CloseListener, Unlock, Crash, DaemonMoves, GivesUp,
                      Fresh, PathRecords
  <2>5. \A e \in Daemons : daemon[e].own \in Nat /\ daemon'[e].own <= made'
        /\ daemon'[e].own \in Nat
    BY <1>1, <2>1, <2>2, <2>3 DEF PathRecords
  <2>6. QED
    BY <1>1, <2>1, <2>4, <2>5
<1>5. CASE Foreign \/ ForeignCloses \/ UNCHANGED pathVars
  <2>1. lock' = lock /\ made' \in 0..MaxInodes /\ made <= made'
    BY <1>1, <1>5 DEF Foreign, ForeignCloses, pathVars
  <2>2. ASSUME NEW d \in Daemons
        PROVE  daemon'[d].own = daemon[d].own /\ daemon'[d].pc = daemon[d].pc
    BY <1>1, <1>5 DEF Foreign, ForeignCloses, pathVars, PathRecords
  <2>3. \A d \in Daemons : daemon'[d].own \in 0..made'
    BY <1>1, <2>1, <2>2 DEF PathRecords
  <2>4. QED
    BY <1>3, <2>1, <2>2, <2>3 DEF PathTypeOK, HoldsLock
<1>6. QED
  BY <1>3, <1>4, <1>5 DEF PathNext, PathTypeOK, HoldsLock

-----------------------------------------------------------------------------
(* The theorems *)

\* The types of SocketPath's state; the lock has a live holder.
THEOREM PathTyping == PathSpec => []PathTypeOK
BY InitPath, InitPathTypeOK, NextPath, NextPathTypeOK, PTL DEF PathSpec

\* The lock admits one daemon at a time (SocketPath::bind, and Drop's order of fields).
THEOREM OneBinderTheorem == PathSpec => []OneBinder
<1>1. PathIInv => OneBinder
  BY Alone DEF PathIInv, OneBinder
<1>2. QED
  BY InitPath, NextPath, <1>1, PTL DEF PathSpec

\* A serving daemon is reachable unless somebody replaces its path
\* (SocketPath::bind, remove_stale).
THEOREM ReachableTheorem == PathSpec => []ServingIsReachable
<1>1. PathIInv => ServingIsReachable
  BY DEF PathIInv, Bound, ServingIsReachable
<1>2. QED
  BY InitPath, NextPath, <1>1, PTL DEF PathSpec

\* No live listener is unlinked but by its own daemon, or, being somebody else's, if
\* it came between a look of the remover at the path and its use (remove_stale,
\* SocketPath::bind, Drop); for any daemons and bounds.
THEOREM LiveTheorem == PathSpec => LiveIsKept
<1> DEFINE Kept ==
      path' = 0 /\ path \in listens =>
        \E d \in Daemons :
          \/ daemon[d].pc = "leaving" /\ path = daemon[d].seen
          \/ /\ daemon[d].pc \in {"removing", "leaving"}
             /\ path \in daemon[d].late \cap foreign
<1>1. PathIInv /\ [PathNext]_pathVars => [Kept]_pathVars
  BY StepKeepsLive
<1>2. QED
  BY InitPath, NextPath, <1>1, PTL DEF PathSpec, LiveIsKept

\* One daemon has the lock and its socket is at the path, for any daemons and
\* bounds (path.rs).
THEOREM SoundTheorem == PathSpec => []PathSound
BY PathTyping, OneBinderTheorem, ReachableTheorem, PTL DEF PathSound

-----------------------------------------------------------------------------
(* The watch plan: the inductive invariant *)

\* The types of the state.
PlanTypeOK ==
  /\ budget \in Nat
  /\ roots \in Seq(Visits)
  /\ stack \in Seq(Visits)
  /\ DOMAIN paths \subseteq Paths

BudgetIInv == PlanTypeOK /\ QueueWithinBudget

\* Plans are finite, and entering a path adds at most that one.
LEMMA EnteredSize ==
  ASSUME NEW D \in SUBSET Paths, NEW p \in Paths
  PROVE  /\ Cardinality(D) \in Nat /\ Cardinality(D \cup {p}) \in Nat
         /\ Cardinality(D \cup {p}) <= Cardinality(D) + 1
<1>1. IsFiniteSet(Paths)
  BY PlanConstants, FS_Interval, 1 \in Int, N \in Int DEF Paths
<1>2. IsFiniteSet(D)
  BY <1>1, FS_Subset
<1>3. QED
  BY <1>2, FS_AddElement, FS_CardinalityType

\* A directory has finitely many subdirectories, and a listing names directories.
LEMMA ListingType ==
  ASSUME NEW p \in Paths, NEW order \in Listings(p)
  PROVE  /\ Cardinality(Directories(p)) \in Nat
         /\ [i \in DOMAIN order |-> [path |-> order[i], recursive |-> TRUE]]
              \in Seq(Visits)
         /\ Len([i \in DOMAIN order |-> [path |-> order[i], recursive |-> TRUE]])
              = Cardinality(Directories(p))
<1>1. IsFiniteSet(Paths)
  BY PlanConstants, FS_Interval, 1 \in Int, N \in Int DEF Paths
<1>2. Directories(p) \subseteq Paths
  BY DEF Directories
<1>3. Cardinality(Directories(p)) \in Nat
  BY <1>1, <1>2, FS_Subset, FS_CardinalityType
<1>4. order \in [1..Cardinality(Directories(p)) -> Directories(p)]
  BY DEF Listings
<1> DEFINE listing ==
             [i \in 1..Cardinality(Directories(p)) |-> [path |-> order[i], recursive |-> TRUE]]
<1>5. listing \in Seq(Visits)
  <2>1. \A i \in 1..Cardinality(Directories(p)) : order[i] \in Paths
    BY <1>2, <1>4
  <2>2. listing \in [1..Cardinality(Directories(p)) -> Visits]
    BY <2>1 DEF Visits
  <2>3. ASSUME NEW n \in Nat, NEW s \in [1..n -> Visits] PROVE s \in Seq(Visits)
    BY <2>3, SeqDef
  <2> HIDE DEF listing
  <2>4. QED
    BY <1>3, <2>2, <2>3
<1>6. Len(listing) = Cardinality(Directories(p))
  BY <1>3
<1>7. QED
  BY <1>3, <1>4, <1>5, <1>6

\* The start: nothing is planned or queued.
LEMMA InitPlan == PlanInit => BudgetIInv
<1> SUFFICES ASSUME PlanInit PROVE BudgetIInv
  OBVIOUS
<1>1. requested \in Seq(Visits)
  <2>1. PICK n \in 1..MaxRoots : requested \in [1..n -> Visits]
    BY DEF PlanInit, Roots
  <2>2. QED
    BY <2>1, PlanConstants, SeqDef
<1>2. DOMAIN paths = {}
  BY DEF PlanInit
<1>3. PlanTypeOK
  BY <1>1, <1>2, PlanConstants DEF PlanInit, PlanTypeOK
<1>4. Cardinality(DOMAIN paths) = 0
  BY <1>2, FS_EmptySet
<1>5. QED
  BY <1>3, <1>4 DEF PlanInit, BudgetIInv, PlanTypeOK, QueueWithinBudget

-----------------------------------------------------------------------------
(* The steps *)

\* A visit keeps the budget if the plan and the rest of the queue had room for
\* one more, or the queue was empty.
LEMMA VisitBudget ==
  ASSUME PlanTypeOK, NEW p \in Paths, NEW recursive \in BOOLEAN,
         NEW rest \in Seq(Visits),
         rest = <<>> \/ Cardinality(DOMAIN paths) + Len(rest) + 1 <= budget,
         Visit(p, recursive, rest)
  PROVE  /\ stack' \in Seq(Visits)
         /\ DOMAIN paths' \subseteq Paths /\ UNCHANGED budget
         /\ QueueWithinBudget'
<1> DEFINE size == Cardinality(DOMAIN paths \cup {p})
           queued == Cardinality(Directories(p))
<1>1. paths' = Entered(p, recursive) /\ DOMAIN Entered(p, recursive) = DOMAIN paths \cup {p}
  BY DEF Visit, Entered
<1>2. /\ Cardinality(DOMAIN paths) \in Nat /\ size \in Nat
      /\ size <= Cardinality(DOMAIN paths) + 1
  BY EnteredSize DEF PlanTypeOK
<1>3. UNCHANGED budget /\ budget \in Nat
  BY DEF Visit, call, PlanTypeOK
<1>4. DOMAIN paths' \subseteq Paths
  BY <1>1 DEF PlanTypeOK
<1>5. Len(rest) \in Nat
  OBVIOUS
<1>6. CASE TooMany(size, Len(rest), 0)
  BY <1>1, <1>3, <1>4, <1>6 DEF Visit, QueueWithinBudget
<1>7. CASE ~TooMany(size, Len(rest), 0)
  <2>1. size <= budget
    BY <1>2, <1>3, <1>7 DEF TooMany
  <2>2. size + Len(rest) <= budget
    BY <1>2, <1>3, <1>5, <2>1
  <2>3. CASE stack' = rest
    BY <1>1, <1>3, <1>4, <2>2, <2>3 DEF QueueWithinBudget
  <2>4. CASE stack' # rest
    <3>1. /\ ~TooMany(size, Len(rest), queued)
          /\ \E order \in Listings(p) :
               stack' = rest \o [i \in DOMAIN order |-> [path |-> order[i], recursive |-> TRUE]]
      BY <1>1, <1>7, <2>4 DEF Visit
    <3>2. PICK order \in Listings(p) :
            stack' = rest \o [i \in DOMAIN order |-> [path |-> order[i], recursive |-> TRUE]]
      BY <3>1
    <3> DEFINE more == [i \in DOMAIN order |-> [path |-> order[i], recursive |-> TRUE]]
    <3>3. /\ queued \in Nat /\ Len(more) = queued
          /\ more \in Seq(Visits)
      BY ListingType
    <3>4. stack' \in Seq(Visits) /\ Len(stack') = Len(rest) + queued
      <4> HIDE DEF more
      <4>1. stack' = rest \o more
        BY <3>2 DEF more
      <4>2. QED
        BY <3>3, <4>1, ConcatProperties
    <3>5. size + Len(rest) + queued <= budget
      BY <1>2, <1>3, <1>5, <2>2, <3>1, <3>3 DEF TooMany
    <3>6. QED
      BY <1>1, <1>2, <1>3, <1>4, <1>5, <3>3, <3>4, <3>5 DEF QueueWithinBudget
  <2>5. QED
    BY <2>3, <2>4
<1>8. QED
  BY <1>6, <1>7

LEMMA NextPlan == BudgetIInv /\ [PlanNext]_planVars => BudgetIInv'
<1> SUFFICES ASSUME BudgetIInv, [PlanNext]_planVars PROVE BudgetIInv'
  OBVIOUS
<1>0. PlanTypeOK /\ QueueWithinBudget
  BY DEF BudgetIInv
<1>1. CASE Pop
  <2> DEFINE rest == SubSeq(stack, 1, Len(stack) - 1)
             top == stack[Len(stack)]
  <2>1. Len(stack) \in Nat /\ Len(stack) > 0
    BY <1>0, <1>1, LenProperties DEF Pop, PlanTypeOK
  <2>2. top \in Visits
    BY <1>0, <2>1, ElementOfSeq DEF PlanTypeOK
  <2>3. rest \in Seq(Visits) /\ Len(rest) = Len(stack) - 1
    <3>1. \A i \in 1..(Len(stack) - 1) : stack[i] \in Visits
      BY <1>0, <2>1, ElementOfSeq DEF PlanTypeOK
    <3>2. 1 \in Int /\ Len(stack) - 1 \in Int
      BY <2>1
    <3> DEFINE last == Len(stack) - 1
    <3>3. rest = SubSeq(stack, 1, last)
      OBVIOUS
    <3> HIDE DEF rest, last
    <3>4. rest \in Seq(Visits) /\ Len(rest) = IF 1 <= last THEN last - 1 + 1 ELSE 0
      <4>1. \A i \in 1..last : stack[i] \in Visits
        BY <3>1 DEF last
      <4>2. last \in Int
        BY <3>2 DEF last
      <4>3. QED
        BY <3>3, <4>1, <4>2, 1 \in Int, SubSeqProperties
    <3>5. last \in Nat /\ last = Len(stack) - 1
      BY <2>1 DEF last
    <3>6. CASE 1 <= last
      BY <3>4, <3>5, <3>6
    <3>7. CASE last = 0
      BY <3>4, <3>5, <3>7
    <3>8. QED
      BY <3>5, <3>6, <3>7
  <2>4. Cardinality(DOMAIN paths) + Len(stack) <= budget
    BY <1>0, <1>1 DEF Pop, QueueWithinBudget
  <2>5. Cardinality(DOMAIN paths) \in Nat
    BY <1>0, <2>2, EnteredSize DEF PlanTypeOK, Visits
  <2>6. Cardinality(DOMAIN paths) + Len(rest) + 1 <= budget
    BY <2>1, <2>3, <2>4, <2>5
  <2>7. Visit(top.path, top.recursive, rest) /\ UNCHANGED roots
    BY <1>1 DEF Pop
  <2>8. top.path \in Paths /\ top.recursive \in BOOLEAN
    BY <2>2 DEF Visits
  <2> HIDE DEF rest, top
  <2>9. QED
    BY <1>0, <2>3, <2>6, <2>7, <2>8, VisitBudget DEF BudgetIInv, PlanTypeOK
<1>2. CASE TakeRoot
  <2>1. Head(roots) \in Visits /\ roots' = Tail(roots) /\ roots # <<>>
    BY <1>0, <1>2, HeadTailProperties DEF TakeRoot, PlanTypeOK
  <2>2. roots' \in Seq(Visits)
    BY <1>0, <2>1, HeadTailProperties DEF PlanTypeOK
  <2>3. Visit(Head(roots).path, Head(roots).recursive, <<>>)
    BY <1>2 DEF TakeRoot
  <2>4. Head(roots).path \in Paths /\ Head(roots).recursive \in BOOLEAN
    BY <2>1 DEF Visits
  <2>5. <<>> \in Seq(Visits)
    OBVIOUS
  <2>6. QED
    BY <1>0, <2>2, <2>3, <2>4, <2>5, VisitBudget DEF BudgetIInv, PlanTypeOK
<1>3. CASE PlanEnds
  BY <1>0, <1>3 DEF PlanEnds, BudgetIInv, PlanTypeOK, QueueWithinBudget, tree, call
<1>4. CASE UNCHANGED planVars
  BY <1>0, <1>4 DEF planVars, BudgetIInv, PlanTypeOK, QueueWithinBudget, tree, call
<1>5. QED
  BY <1>1, <1>2, <1>3, <1>4 DEF PlanNext

-----------------------------------------------------------------------------
(* The theorem *)

\* Plan and queue together stay within the limit, however large the directories
\* are (bounded_watch_paths, check_watch_budget).
THEOREM BudgetTheorem == PlanSpec => []QueueWithinBudget
<1>1. BudgetIInv => QueueWithinBudget
  BY DEF BudgetIInv
<1>2. QED
  BY InitPlan, NextPlan, <1>1, PTL DEF PlanSpec

-----------------------------------------------------------------------------
(* Completeness of the plan *)

\* The call: a forest, its kinds, what is asked for.
CallTypes == parent \in Parents /\ kind \in Kinds /\ requested \in Seq(Visits)

\* A set of paths that has whatever lies directly below one of it, links aside.
Closed(S) == \A q \in Paths : parent[q] \in S /\ IsDirectory(q) => q \in S

\* The least closed set with the recursive roots: what lies inside them.
Reached == {p \in Paths : \A S \in SUBSET Paths : Recursive \subseteq S /\ Closed(S) => p \in S}

\* The paths of the plan, and those of them that were expanded.
Planned == DOMAIN paths
Opened == {q \in Paths : Expanded(q)}

\* The members of a sequence, and their paths.
Listed(s) == {s[i] : i \in DOMAIN s}
Queued(s) == {v.path : v \in Listed(s)}

\* A directory right below one that was expanded.
Below(q) == parent[q] \in Opened /\ IsDirectory(q)

\* No two of a queue have the same path.
Apart(s) == \A i, j \in DOMAIN s : s[i].path = s[j].path => i = j

\* A root that another one reaches.
Entwined == \E p \in Named : parent[p] \in Reached /\ IsDirectory(p)

Going == result \in {"running", "planned"}

\* What is planned is wanted, and is a root or lies below what was expanded.
PlannedWanted ==
  /\ Planned \subseteq Named \cup Reached /\ Opened \subseteq Reached /\ Opened \subseteq Planned
  /\ \A q \in Planned : q \in Named \/ Below(q)

\* What is queued lies below what was expanded.
QueuedWanted(s) == \A v \in Listed(s) : v.recursive /\ Below(v.path)

\* A root was visited, or is ahead.
RootsVisited ==
  /\ Listed(roots) \subseteq Listed(requested)
  /\ Going => \A v \in Listed(requested) :
        v \in Listed(roots) \/ (v.path \in Planned /\ (v.recursive => v.path \in Opened))

\* What lies below an expanded directory was expanded, or is queued.
NothingForgotten ==
  Going => \A q \in Opened :
    kind[q] # "closed" /\ Directories(q) \subseteq Opened \cup Queued(stack)

\* Unless roots overlap, a path is queued once, and is not planned before.
QueuedOnce == ~Entwined => Apart(stack) /\ Queued(stack) \cap Planned = {}

\* How it ends.
Reasons ==
  /\ result = "planned" => stack = <<>> /\ roots = <<>> /\ Cardinality(Planned) <= budget
  /\ result = "overBudget" => Cardinality(Named \cup Reached) > budget \/ Entwined
  /\ result = "unreadable" => \E p \in Reached : kind[p] = "closed"

\* The inductive invariant: the budget's, and all of the above.
PlanIInv ==
  /\ BudgetIInv /\ CallTypes /\ PlannedWanted /\ QueuedWanted(stack) /\ RootsVisited
  /\ NothingForgotten /\ QueuedOnce /\ Reasons

\* What the least closed set has, and nothing else.
LEMMA ReachedFacts ==
  ASSUME CallTypes
  PROVE  /\ Reached \subseteq Paths /\ Recursive \subseteq Reached /\ Named \subseteq Paths
         /\ Closed(Reached)
         /\ \A S \in SUBSET Paths : Recursive \subseteq S /\ Closed(S) => Reached \subseteq S
         /\ \A q \in Reached : q \in Recursive \/ (parent[q] \in Reached /\ IsDirectory(q))
<1>1. Recursive \subseteq Paths /\ Named \subseteq Paths
  <2>1. \A i \in DOMAIN requested : requested[i] \in Visits
    BY DEF CallTypes
  <2>2. \A i \in DOMAIN requested : requested[i].path \in Paths
    BY <2>1 DEF Visits
  <2>3. QED
    BY <2>2 DEF Recursive, Named
<1>2. Reached \subseteq Paths /\ Recursive \subseteq Reached
  BY <1>1 DEF Reached
<1>3. \A S \in SUBSET Paths : Recursive \subseteq S /\ Closed(S) => Reached \subseteq S
  BY DEF Reached
<1>4. Closed(Reached)
  <2> SUFFICES ASSUME NEW q \in Paths, parent[q] \in Reached, IsDirectory(q),
                      NEW S \in SUBSET Paths, Recursive \subseteq S, Closed(S)
               PROVE  q \in S
    BY DEF Closed, Reached
  <2>1. parent[q] \in S
    BY DEF Reached
  <2>2. QED
    BY <2>1 DEF Closed
<1>5. ASSUME NEW q \in Reached, q \notin Recursive, 
         ~(parent[q] \in Reached /\ IsDirectory(q))
  PROVE  FALSE
  <2> DEFINE S == Reached \ {q}
  <2>1. S \in SUBSET Paths /\ Recursive \subseteq S
    BY <1>2, <1>5
  <2>2. Closed(S)
    BY <1>4, <1>5 DEF Closed
  <2>3. q \in S
    BY <1>3, <2>1, <2>2
  <2>4. QED
    BY <2>3
<1>6. QED
  BY <1>1, <1>2, <1>3, <1>4, <1>5

\* A path is above those below it.
LEMMA ParentFacts ==
  ASSUME CallTypes, NEW p \in Paths
  PROVE  parent[p] \in 0..N /\ parent[p] < p /\ p \in Nat /\ 0 \notin Paths
         /\ (parent[p] # 0 <=> parent[p] \in Paths)
<1>1. N \in Nat
  BY PlanConstants
<1>2. parent \in [Paths -> 0..N] /\ parent[p] < p
  BY DEF CallTypes, Parents
<1>3. parent[p] \in 0..N
  BY <1>2
<1>4. QED
  BY <1>1, <1>2, <1>3 DEF Paths

\* Inside is defined as a function with its equation: there is one.
LEMMA InsideEquation ==
  ASSUME CallTypes, NEW p \in Paths
  PROVE  Inside[p] <=> (p \in Recursive \/ (parent[p] # 0 /\ IsDirectory(p) /\ Inside[parent[p]]))
<1> DEFINE F(g) == [q \in Paths |->
             q \in Recursive \/ (parent[q] # 0 /\ IsDirectory(q) /\ g[parent[q]])]
<1> DEFINE f == [q \in Paths |-> q \in Reached]
<1>1. f = F(f)
  <2>1. ASSUME NEW q \in Paths
        PROVE  (q \in Reached)
                 = (q \in Recursive \/ (parent[q] # 0 /\ IsDirectory(q) /\ f[parent[q]]))
    <3>1. CASE parent[q] = 0
      <4>1. parent[q] \notin Reached
        BY <3>1, ReachedFacts, ParentFacts
      <4>2. q \in Reached <=> q \in Recursive
        BY <4>1, ReachedFacts
      <4>3. QED
        BY <3>1, <4>2
    <3>2. CASE parent[q] # 0
      <4>1. parent[q] \in Paths
        BY <3>2, ParentFacts
      <4>2. f[parent[q]] = (parent[q] \in Reached)
        BY <4>1
      <4>3. q \in Reached <=> q \in Recursive \/ (parent[q] \in Reached /\ IsDirectory(q))
        BY ReachedFacts DEF Closed
      <4> HIDE DEF f
      <4>4. f[parent[q]] <=> parent[q] \in Reached
        BY <4>2
      <4>5. q \in Reached <=> (q \in Recursive \/ (parent[q] # 0 /\ IsDirectory(q) /\ f[parent[q]]))
        BY <3>2, <4>3, <4>4, Zenon
      <4>6. QED
        BY <4>5
    <3>3. QED
      BY <3>1, <3>2
  <2>2. QED
    BY <2>1, Zenon
<1>2. Inside = CHOOSE g : g = F(g)
  BY DEF Inside
<1> HIDE DEF f
<1>3. Inside = F(Inside)
  BY <1>1, <1>2
<1>4. Inside[p] = F(Inside)[p]
  BY <1>3
<1>5. QED
  BY <1>4, Zenon

\* What is inside is what is reached: the least path in one of them only has no parent that is.
LEMMA InsideIsReached ==
  ASSUME CallTypes
  PROVE  /\ Reached = {p \in Paths : Inside[p]} /\ Wanted = Named \cup Reached
         /\ Entwined <=> Overlapping
<1> DEFINE Bad == {p \in Paths : ~(p \in Reached <=> Inside[p])}
<1>1. Bad = {}
  <2> SUFFICES ASSUME Bad # {} PROVE FALSE
    OBVIOUS
  <2>1. Bad \in SUBSET Nat
    BY DEF Paths
  <2>2. PICK p \in Bad : \A y \in Bad : p <= y
    BY <2>1, LeastElement
  <2>3. p \in Paths /\ ~(p \in Reached <=> Inside[p])
    OBVIOUS
  <2>4. parent[p] \in Paths => (parent[p] \in Reached <=> Inside[parent[p]])
    <3>1. parent[p] \in Paths => ~(p <= parent[p])
      BY <2>3, ParentFacts DEF Paths
    <3>2. QED
      BY <2>2, <3>1
  <2>5. Inside[p] <=> (p \in Recursive \/ (parent[p] # 0 /\ IsDirectory(p) /\ Inside[parent[p]]))
    BY <2>3, InsideEquation
  <2>6. p \in Reached <=> (p \in Recursive \/ (parent[p] \in Reached /\ IsDirectory(p)))
    BY <2>3, ReachedFacts DEF Closed
  <2>7. (parent[p] # 0 <=> parent[p] \in Paths) /\ (parent[p] \in Reached => parent[p] \in Paths)
    BY <2>3, ParentFacts, ReachedFacts
  <2>8. QED
    BY <2>3, <2>4, <2>5, <2>6, <2>7, Zenon
<1>2. \A p \in Paths : p \in Reached <=> Inside[p]
  BY <1>1
<1>3. Reached = {p \in Paths : Inside[p]}
  BY <1>2, ReachedFacts
<1>4. Wanted = Named \cup Reached
  BY <1>3 DEF Wanted
<1>5. ASSUME NEW p \in Named
      PROVE  parent[p] \in Reached /\ IsDirectory(p)
                 <=> parent[p] # 0 /\ IsDirectory(p) /\ Inside[parent[p]]
  <2>1. p \in Paths
    BY ReachedFacts
  <2>2. (parent[p] # 0 <=> parent[p] \in Paths) /\ (parent[p] \in Reached => parent[p] \in Paths)
    BY <2>1, ParentFacts, ReachedFacts
  <2>3. QED
    BY <1>2, <2>2
<1>6. Entwined <=> Overlapping
  BY <1>5 DEF Entwined, Overlapping
<1>7. QED
  BY <1>3, <1>4, <1>6

-----------------------------------------------------------------------------
(* Queues *)

\* A queue has what is before its last, and its last.
Parted(s, rest, top) ==
  /\ top \in Visits /\ rest \in Seq(Visits)
  /\ Listed(s) = Listed(rest) \cup {top} /\ Queued(s) = Queued(rest) \cup {top.path}
  /\ Apart(s) => Apart(rest) /\ top.path \notin Queued(rest)

\* A queue without its last.
LEMMA ButLastFacts ==
  ASSUME NEW s \in Seq(Visits), s # <<>>
  PROVE  Parted(s, SubSeq(s, 1, Len(s) - 1), s[Len(s)])
<1> DEFINE rest == SubSeq(s, 1, Len(s) - 1)
<1>0. rest = SubSeq(s, 1, Len(s) - 1)
  OBVIOUS
<1> HIDE DEF rest
<1>1. Len(s) \in Nat /\ Len(s) > 0 /\ DOMAIN s = 1..Len(s) /\ \A i \in 1..Len(s) : s[i] \in Visits
  OBVIOUS
<1>2. PICK n \in Nat : Len(s) = n + 1 /\ rest = SubSeq(s, 1, n)
  <2>1. Len(s) - 1 \in Nat /\ Len(s) = (Len(s) - 1) + 1
    BY <1>1
  <2>2. QED
    BY <1>0, <2>1
<1>3. rest \in Seq(Visits) /\ Len(rest) = n /\ DOMAIN rest = 1..n /\ \A i \in 1..n : rest[i] = s[i]
  BY <1>1, <1>2
<1>4. Listed(s) = Listed(rest) \cup {s[Len(s)]}
  <2>1. \A i \in 1..Len(s) : i \in 1..n \/ i = Len(s)
    BY <1>1, <1>2
  <2>2. \A i \in 1..n : i \in 1..Len(s)
    BY <1>1, <1>2
  <2>3. Len(s) \in 1..Len(s)
    BY <1>1
  <2>4. QED
    BY <1>1, <1>3, <2>1, <2>2, <2>3 DEF Listed
<1>5. Queued(s) = Queued(rest) \cup {s[Len(s)].path}
  BY <1>4 DEF Queued
<1>6. Apart(s) => Apart(rest) /\ s[Len(s)].path \notin Queued(rest)
  <2> SUFFICES ASSUME Apart(s) PROVE Apart(rest) /\ s[Len(s)].path \notin Queued(rest)
    OBVIOUS
  <2>1. \A i \in 1..n : i \in 1..Len(s) /\ i # Len(s)
    BY <1>1, <1>2
  <2>2. Apart(rest)
    <3> SUFFICES ASSUME NEW i \in 1..n, NEW j \in 1..n, rest[i].path = rest[j].path PROVE i = j
      BY <1>3 DEF Apart
    <3>1. s[i].path = s[j].path /\ i \in DOMAIN s /\ j \in DOMAIN s
      BY <1>1, <1>3, <2>1
    <3>2. QED
      BY <3>1 DEF Apart
  <2>3. Len(s) \in DOMAIN s
    BY <1>1
  <2>4. \A i \in 1..n : rest[i].path # s[Len(s)].path
    BY <1>1, <1>3, <2>1, <2>3 DEF Apart
  <2>5. QED
    BY <1>3, <2>2, <2>4 DEF Queued, Listed
<1>7. s[Len(s)] \in Visits
  BY <1>1
<1>8. Parted(s, rest, s[Len(s)])
  BY <1>3, <1>4, <1>5, <1>6, <1>7 DEF Parted
<1>9. QED
  BY <1>0, <1>8

\* One sequence behind another.
LEMMA BehindFacts ==
  ASSUME NEW s \in Seq(Visits), NEW t \in Seq(Visits)
  PROVE  /\ Listed(s \o t) = Listed(s) \cup Listed(t) /\ Queued(s \o t) = Queued(s) \cup Queued(t)
         /\ Apart(s) /\ Apart(t) /\ Queued(s) \cap Queued(t) = {} => Apart(s \o t)
<1> DEFINE u == s \o t
           m == Len(s)
           n == Len(t)
<1>1. /\ m \in Nat /\ n \in Nat /\ DOMAIN s = 1..m /\ DOMAIN t = 1..n /\ DOMAIN u = 1..(m + n)
      /\ \A i \in 1..(m + n) : u[i] = IF i <= m THEN s[i] ELSE t[i - m]
  OBVIOUS
<1> HIDE DEF u, m, n
<1>2. \A i \in 1..(m + n) : \/ i \in 1..m /\ u[i] = s[i]
                            \/ i - m \in 1..n /\ u[i] = t[i - m]
  BY <1>1
<1>3. /\ \A i \in 1..m : i \in 1..(m + n) /\ u[i] = s[i]
      /\ \A i \in 1..n : i + m \in 1..(m + n) /\ u[i + m] = t[i]
  BY <1>1
<1>4. Listed(u) = Listed(s) \cup Listed(t)
  <2>1. Listed(u) \subseteq Listed(s) \cup Listed(t)
    BY <1>1, <1>2 DEF Listed
  <2>2. Listed(s) \subseteq Listed(u) /\ Listed(t) \subseteq Listed(u)
    BY <1>1, <1>3, SMTT(40) DEF Listed
  <2>3. QED
    BY <2>1, <2>2
<1>5. Queued(u) = Queued(s) \cup Queued(t)
  BY <1>4 DEF Queued
<1>6. ASSUME Apart(s), Apart(t), Queued(s) \cap Queued(t) = {} PROVE Apart(u)
  <2> SUFFICES ASSUME NEW i \in 1..(m + n), NEW j \in 1..(m + n), u[i].path = u[j].path PROVE i = j
    BY <1>1 DEF Apart
  <2>1. \A k \in 1..m : s[k].path \in Queued(s)
    BY <1>1 DEF Queued, Listed
  <2>2. \A k \in 1..n : t[k].path \in Queued(t)
    BY <1>1 DEF Queued, Listed
  <2>3. CASE i \in 1..m /\ u[i] = s[i] /\ j \in 1..m /\ u[j] = s[j]
    BY <1>1, <1>6, <2>3 DEF Apart
  <2>4. CASE i - m \in 1..n /\ u[i] = t[i - m] /\ j - m \in 1..n /\ u[j] = t[j - m]
    <3>1. i - m = j - m
      BY <1>1, <1>6, <2>4 DEF Apart
    <3>2. QED
      BY <1>1, <3>1
  <2>5. CASE i \in 1..m /\ u[i] = s[i] /\ j - m \in 1..n /\ u[j] = t[j - m]
    BY <1>6, <2>1, <2>2, <2>5
  <2>6. CASE i - m \in 1..n /\ u[i] = t[i - m] /\ j \in 1..m /\ u[j] = s[j]
    BY <1>6, <2>1, <2>2, <2>6
  <2>7. QED
    BY <1>2, <2>3, <2>4, <2>5, <2>6
<1>7. QED
  BY <1>4, <1>5, <1>6 DEF u

\* A queue without repetitions is as long as what it queues.
LEMMA QueueSize ==
  ASSUME NEW s \in Seq(Visits), Apart(s)
  PROVE  IsFiniteSet(Queued(s)) /\ Cardinality(Queued(s)) = Len(s)
<1> DEFINE f == [i \in 1..Len(s) |-> s[i].path]
<1>1. Len(s) \in Nat /\ DOMAIN s = 1..Len(s)
  OBVIOUS
<1>2. f \in [1..Len(s) -> Queued(s)]
  BY <1>1 DEF Queued, Listed
<1>3. \A x \in Queued(s) : \E i \in 1..Len(s) : f[i] = x
  BY <1>1 DEF Queued, Listed
<1>4. \A i, j \in 1..Len(s) : f[i] = f[j] => i = j
  BY <1>1 DEF Apart
<1>5. f \in Bijection(1..Len(s), Queued(s))
  BY <1>2, <1>3, <1>4 DEF Bijection, Injection, Surjection, IsInjective
<1>6. IsFiniteSet(1..Len(s)) /\ Cardinality(1..Len(s)) = Len(s)
  <2>1. 1 \in Int /\ Len(s) \in Int
    BY <1>1
  <2>2. QED
    BY <1>1, <2>1, FS_Interval
<1>7. ExistsBijection(1..Len(s), Queued(s))
  BY <1>5 DEF ExistsBijection
<1>8. QED
  BY <1>6, <1>7, FS_Bijection

\* A listing of a directory has each of its directories once.
LEMMA ListingCovers ==
  ASSUME NEW p \in Paths, NEW order \in Listings(p), NEW more,
         more = [i \in DOMAIN order |-> [path |-> order[i], recursive |-> TRUE]]
  PROVE  /\ more \in Seq(Visits) /\ Len(more) = Cardinality(Directories(p))
         /\ Queued(more) = Directories(p) /\ Apart(more) /\ \A v \in Listed(more) : v.recursive
<1> DEFINE n == Cardinality(Directories(p))
<1>1. n \in Nat /\ more \in Seq(Visits) /\ Len(more) = n
  BY ListingType
<1>2. order \in [1..n -> Directories(p)] /\ \A i, j \in 1..n : order[i] = order[j] => i = j
  BY DEF Listings
<1>3. IsFiniteSet(Directories(p)) /\ IsFiniteSet(1..n) /\ Cardinality(1..n) = n
  <2>1. IsFiniteSet(Paths) /\ Directories(p) \subseteq Paths
    BY PlanConstants, FS_Interval, 1 \in Int, N \in Int DEF Paths, Directories
  <2>2. 1 \in Int /\ n \in Int
    BY <1>1
  <2>3. IsFiniteSet(Directories(p))
    BY <2>1, FS_Subset
  <2> HIDE DEF n
  <2>4. QED
    BY <1>1, <2>2, <2>3, FS_Interval
<1>4. order \in Injection(1..n, Directories(p))
  BY <1>2 DEF Injection, IsInjective
<1>5. order \in Surjection(1..n, Directories(p))
  BY <1>3, <1>4, FS_Injection
<1>6. DOMAIN more = 1..n /\ \A i \in 1..n : more[i] = [path |-> order[i], recursive |-> TRUE]
  BY <1>2
<1> HIDE DEF n
<1>7. Listed(more) = {[path |-> d, recursive |-> TRUE] : d \in Directories(p)}
  <2>1. \A d \in Directories(p) : \E i \in 1..n : order[i] = d
    BY <1>5 DEF Surjection
  <2>2. QED
    BY <1>2, <1>6, <2>1 DEF Listed
<1>8. Queued(more) = Directories(p) /\ \A v \in Listed(more) : v.recursive
  <2>1. \A v \in Listed(more) : v.path \in Directories(p) /\ v.recursive
    BY <1>7
  <2>2. ASSUME NEW d \in Directories(p) PROVE \E v \in Listed(more) : v.path = d
    <3>1. [path |-> d, recursive |-> TRUE] \in Listed(more)
      BY <1>7
    <3>2. [path |-> d, recursive |-> TRUE].path = d
      OBVIOUS
    <3>3. QED
      BY <3>1, <3>2
  <2>3. QED
    BY <2>1, <2>2 DEF Queued
<1>9. Apart(more)
  BY <1>2, <1>6 DEF Apart
<1>10. QED
  BY <1>1, <1>8, <1>9 DEF n

-----------------------------------------------------------------------------
(* The steps *)

\* What entering a path changes.
LEMMA AdmitFacts ==
  ASSUME NEW p \in Paths, NEW recursive \in BOOLEAN, paths' = Entered(p, recursive)
  PROVE  /\ Planned' = Planned \cup {p}
         /\ Opened' = Opened \cup {q \in {p} : recursive}
<1>1. Planned' = Planned \cup {p}
  BY DEF Planned, Entered
<1>2. ASSUME NEW q \in Paths PROVE Expanded(q)' <=> (Expanded(q) \/ (q = p /\ recursive))
  <2>1. q \in DOMAIN paths' <=> (q \in DOMAIN paths \/ q = p)
    BY DEF Entered
  <2>2. CASE q = p
    <3>1. paths'[q] = (Expanded(p) \/ recursive) /\ q \in DOMAIN paths'
      BY <2>2 DEF Entered
    <3>2. QED
      BY <2>2, <3>1, Zenon DEF Expanded
  <2>3. CASE q # p
    <3>1. q \in DOMAIN paths' => paths'[q] = paths[q]
      BY <2>3 DEF Entered
    <3>2. QED
      BY <2>1, <2>3, <3>1, Zenon DEF Expanded
  <2>4. QED
    BY <2>2, <2>3
<1>3. Opened' = {q \in Paths : Expanded(q)'}
  BY DEF Opened
<1>4. QED
  BY <1>1, <1>2, <1>3 DEF Opened

\* What is asked for stays.
LEMMA CallKept ==
  ASSUME CallTypes, UNCHANGED <<tree, call>>
  PROVE  /\ CallTypes' /\ Named' = Named /\ Recursive' = Recursive /\ Reached' = Reached
         /\ (Entwined' <=> Entwined) /\ budget' = budget /\ kind' = kind /\ parent' = parent
         /\ requested' = requested
         /\ \A q : Directories(q)' = Directories(q) /\ (IsDirectory(q)' <=> IsDirectory(q))
<1>1. parent' = parent /\ kind' = kind /\ requested' = requested /\ budget' = budget
  BY DEF tree, call
<1>2. CallTypes' /\ Named' = Named /\ Recursive' = Recursive
  BY <1>1 DEF CallTypes, Named, Recursive
<1>3. \A q : (IsDirectory(q)' <=> IsDirectory(q))
  BY <1>1 DEF IsDirectory
<1>4. \A q : Directories(q)' = Directories(q)
  BY <1>1 DEF Directories, IsDirectory
<1>5. Reached' = Reached
  BY <1>1, <1>2 DEF Reached, Closed, IsDirectory
<1>6. Entwined' <=> Entwined
  BY <1>1, <1>2, <1>3, <1>5 DEF Entwined
<1>7. QED
  BY <1>1, <1>2, <1>3, <1>4, <1>5, <1>6

\* Where a path may be visited: it is wanted, and the rest of the queue is as it should be.
MayVisit(p, recursive, rest) ==
  /\ p \in Named \cup Reached /\ (recursive => p \in Reached) /\ (p \in Named \/ Below(p))
  /\ rest \in Seq(Visits) /\ QueuedWanted(rest)
  /\ \A q \in Opened :
        /\ kind[q] # "closed"
        /\ Directories(q) \subseteq Opened \cup Queued(rest) \cup {d \in {p} : recursive}
  /\ ~Entwined => Apart(rest) /\ Queued(rest) \cap (Planned \cup {p}) = {}

\* A visit keeps all but what says of the roots.
LEMMA VisitKeeps ==
  ASSUME CallTypes, PlanTypeOK, PlannedWanted, result = "running",
         NEW p \in Paths, NEW recursive \in BOOLEAN, NEW rest,
         MayVisit(p, recursive, rest), Visit(p, recursive, rest)
  PROVE  /\ CallTypes' /\ PlannedWanted' /\ QueuedWanted(stack)' /\ NothingForgotten' /\ QueuedOnce'
         /\ Reasons'
         /\ Planned' = Planned \cup {p} /\ Opened' = Opened \cup {q \in {p} : recursive}
<1>1. /\ CallTypes' /\ Named' = Named /\ Reached' = Reached /\ (Entwined' <=> Entwined)
      /\ budget' = budget /\ kind' = kind /\ parent' = parent
      /\ \A q : Directories(q)' = Directories(q) /\ (IsDirectory(q)' <=> IsDirectory(q))
  BY CallKept DEF Visit
<1>2. Planned' = Planned \cup {p} /\ Opened' = Opened \cup {q \in {p} : recursive}
  BY AdmitFacts DEF Visit
<1>3. \A q : Below(q) => Below(q)'
  BY <1>1, <1>2 DEF Below
<1>4. PlannedWanted'
  BY <1>1, <1>2, <1>3 DEF PlannedWanted, MayVisit
<1>5. QueuedWanted(rest)' /\ Planned' \subseteq Named \cup Reached
  BY <1>1, <1>2, <1>3, <1>4 DEF QueuedWanted, MayVisit, PlannedWanted
<1>6. IsFiniteSet(Named \cup Reached)
  <2>1. IsFiniteSet(Paths)
    BY PlanConstants, FS_Interval, 1 \in Int, N \in Int DEF Paths
  <2>2. Named \cup Reached \subseteq Paths
    BY ReachedFacts
  <2>3. QED
    BY <2>1, <2>2, FS_Subset
<1> DEFINE size == Cardinality(Planned')
           queued == Cardinality(Directories(p))
<1>7. IsFiniteSet(Planned') /\ size \in Nat /\ size <= Cardinality(Named \cup Reached)
      /\ Cardinality(Named \cup Reached) \in Nat /\ Len(rest) \in Nat /\ budget \in Nat
  BY <1>5, <1>6, FS_Subset, FS_CardinalityType DEF MayVisit, PlanTypeOK
<1>8. Cardinality(DOMAIN Entered(p, recursive)) = size
  BY DEF Visit, Planned
<1>9. QueuedOnce' \/ stack' # rest
  BY <1>1, <1>2 DEF QueuedOnce, MayVisit
<1> HIDE DEF size, queued
<1>10. CASE TooMany(size, Len(rest), 0)
  <2>1. result' = "overBudget" /\ stack' = rest
    BY <1>8, <1>10 DEF Visit
  <2>2. Cardinality(Named' \cup Reached') > budget'
    BY <1>1, <1>7, <1>10 DEF TooMany
  <2>3. QED
    BY <1>1, <1>2, <1>4, <1>5, <1>9, <2>1, <2>2 DEF NothingForgotten, Going, Reasons
<1>11. CASE ~TooMany(size, Len(rest), 0) /\ ~Descends(p, recursive)
  <2>1. result' = result /\ stack' = rest
    BY <1>8, <1>11 DEF Visit
  <2>2. Opened' = Opened
    <3>1. recursive => p \in Opened
      BY <1>11 DEF Descends, Opened
    <3>2. QED
      BY <1>2, <3>1
  <2>3. NothingForgotten'
    <3>1. \A q \in Opened : /\ kind[q] # "closed"
                            /\ Directories(q) \subseteq Opened' \cup Queued(rest)
      BY <1>2, <2>2 DEF MayVisit
    <3>2. QED
      BY <1>1, <2>1, <2>2, <3>1 DEF NothingForgotten
  <2>4. QED
    BY <1>1, <1>2, <1>4, <1>5, <1>9, <2>1, <2>3 DEF Reasons
<1>12. CASE ~TooMany(size, Len(rest), 0) /\ Descends(p, recursive) /\ kind[p] = "closed"
  <2>1. result' = "unreadable" /\ stack' = rest
    BY <1>8, <1>12 DEF Visit
  <2>2. p \in Reached' /\ kind'[p] = "closed"
    BY <1>1, <1>12 DEF Descends, MayVisit
  <2>3. QED
    BY <1>1, <1>2, <1>4, <1>5, <1>9, <2>1, <2>2 DEF NothingForgotten, Going, Reasons
<1>13. CASE ~TooMany(size, Len(rest), 0) /\ Descends(p, recursive) /\ kind[p] # "closed"
  <2>1. recursive /\ p \in Reached /\ p \notin Opened
    BY <1>13 DEF Descends, Opened, MayVisit
  <2>2. /\ Directories(p) \subseteq Paths /\ IsFiniteSet(Directories(p)) /\ queued \in Nat
        /\ \A d \in Directories(p) : parent[d] = p /\ IsDirectory(d) /\ d # p
    <3>1. \A d \in Directories(p) : d \in Paths /\ parent[d] = p /\ IsDirectory(d)
      BY DEF Directories
    <3>2. \A d \in Directories(p) : d # p
      BY <3>1, ParentFacts
    <3>3. IsFiniteSet(Paths)
      BY PlanConstants, FS_Interval, 1 \in Int, N \in Int DEF Paths
    <3>4. Directories(p) \subseteq Paths
      BY <3>1
    <3>5. IsFiniteSet(Directories(p)) /\ queued \in Nat
      BY <3>3, <3>4, FS_Subset, FS_CardinalityType DEF queued
    <3>6. QED
      BY <3>1, <3>2, <3>4, <3>5
  <2>3. Directories(p) \subseteq Reached
    BY <2>1, <2>2, ReachedFacts DEF Closed
  <2>4. ~Entwined => /\ Directories(p) \cap Planned' = {} /\ Directories(p) \cap Queued(rest) = {}
                     /\ Queued(rest) \cap Planned' = {}
    <3> SUFFICES ASSUME ~Entwined
                 PROVE  /\ Directories(p) \cap Planned' = {}
                        /\ Directories(p) \cap Queued(rest) = {}
                        /\ Queued(rest) \cap Planned' = {}
      OBVIOUS
    <3>1. \A d \in Directories(p) : ~Below(d) /\ d \notin Named
      BY <2>1, <2>2 DEF Below, Entwined
    <3>2. Directories(p) \cap Planned' = {}
      BY <1>2, <2>2, <3>1 DEF PlannedWanted
    <3>3. Directories(p) \cap Queued(rest) = {}
      BY <3>1 DEF MayVisit, QueuedWanted, Queued
    <3>4. QED
      BY <1>2, <3>2, <3>3 DEF MayVisit
  <2>5. CASE TooMany(size, Len(rest), queued)
    <3>1. result' = "overBudget" /\ stack' = rest
      BY <1>8, <1>13, <2>5 DEF Visit, queued
    <3>2. size + Len(rest) + queued > budget
      BY <1>7, <2>2, <2>5 DEF TooMany
    <3>3. ~Entwined => Cardinality(Named \cup Reached) > budget
      <4> SUFFICES ASSUME ~Entwined PROVE Cardinality(Named \cup Reached) > budget
        OBVIOUS
      <4>1. IsFiniteSet(Queued(rest)) /\ Cardinality(Queued(rest)) = Len(rest)
        BY QueueSize DEF MayVisit
      <4> DEFINE first == Planned' \cup Queued(rest)
      <4>2. IsFiniteSet(first) /\ Cardinality(first) = size + Len(rest)
        <5>1. Planned' \cap Queued(rest) = {} /\ Cardinality(Planned' \cap Queued(rest)) = 0
          BY <2>4, FS_EmptySet
        <5>2. /\ IsFiniteSet(first)
              /\ Cardinality(first) = Cardinality(Planned') + Cardinality(Queued(rest))
                                      - Cardinality(Planned' \cap Queued(rest))
          BY <1>7, <4>1, FS_Union
        <5>3. QED
          BY <1>7, <4>1, <5>1, <5>2 DEF size
      <4>3. first \cap Directories(p) = {} /\ Cardinality(first \cap Directories(p)) = 0
        BY <2>4, FS_EmptySet
      <4>4. first \cup Directories(p) \subseteq Named \cup Reached
        <5>1. Queued(rest) \subseteq Reached
          <6>a. \A v \in Listed(rest) : v \in Visits /\ Below(v.path)
            BY DEF MayVisit, QueuedWanted, Listed
          <6>1. \A v \in Listed(rest) : v.path \in Paths /\ Below(v.path)
            BY <6>a DEF Visits
          <6>2. \A q \in Paths : Below(q) => q \in Reached
            BY ReachedFacts DEF Below, Closed, PlannedWanted
          <6>3. QED
            BY <6>1, <6>2 DEF Queued
        <5>2. QED
          BY <1>5, <2>3, <5>1
      <4> HIDE DEF first
      <4>5. /\ IsFiniteSet(first \cup Directories(p))
            /\ Cardinality(first \cup Directories(p))
                 = Cardinality(first) + Cardinality(Directories(p))
                   - Cardinality(first \cap Directories(p))
        BY <2>2, <4>2, FS_Union
      <4>6. Cardinality(first \cup Directories(p)) = size + Len(rest) + queued
        BY <1>7, <2>2, <4>2, <4>3, <4>5 DEF queued
      <4>7. Cardinality(first \cup Directories(p)) <= Cardinality(Named \cup Reached)
        BY <1>6, <4>4, FS_Subset
      <4>8. QED
        BY <1>7, <2>2, <3>2, <4>6, <4>7
    <3>4. QED
      BY <1>1, <1>2, <1>4, <1>5, <1>9, <3>1, <3>3 DEF NothingForgotten, Going, Reasons
  <2>6. CASE ~TooMany(size, Len(rest), queued)
    <3>1. /\ result' = result
          /\ \E order \in Listings(p) :
               stack' = rest \o [i \in DOMAIN order |-> [path |-> order[i], recursive |-> TRUE]]
      BY <1>8, <1>13, <2>6 DEF Visit, queued
    <3>2. PICK order \in Listings(p) :
            stack' = rest \o [i \in DOMAIN order |-> [path |-> order[i], recursive |-> TRUE]]
      BY <3>1
    <3>3. PICK more : more = [i \in DOMAIN order |-> [path |-> order[i], recursive |-> TRUE]]
      OBVIOUS
    <3>4. /\ more \in Seq(Visits) /\ Queued(more) = Directories(p) /\ Apart(more)
          /\ \A v \in Listed(more) : v.recursive
      BY <3>2, <3>3, ListingCovers
    <3>5. stack' = rest \o more
      BY <3>2, <3>3
    <3>6. /\ Listed(stack') = Listed(rest) \cup Listed(more)
          /\ Queued(stack') = Queued(rest) \cup Directories(p)
          /\ Apart(rest) /\ Queued(rest) \cap Directories(p) = {} => Apart(stack')
      BY <3>4, <3>5, BehindFacts DEF MayVisit
    <3>7. QueuedWanted(stack)'
      <4>1. \A v \in Listed(more) : v.recursive /\ Below(v.path)'
        <5>1. \A v \in Listed(more) : v.path \in Directories(p)
          BY <3>4 DEF Queued
        <5>2. p \in Opened'
          BY <1>2, <2>1
        <5>3. QED
          BY <1>1, <2>2, <3>4, <5>1, <5>2 DEF Below
      <4>2. QED
        BY <1>5, <3>6, <4>1 DEF QueuedWanted
    <3>8. NothingForgotten'
      <4>1. \A q \in Opened' :
              kind[q] # "closed" /\ Directories(q) \subseteq Opened' \cup Queued(stack')
        BY <1>2, <1>13, <3>6 DEF MayVisit
      <4>2. QED
        BY <1>1, <4>1 DEF NothingForgotten
    <3>9. QueuedOnce'
      BY <1>1, <2>4, <3>6 DEF QueuedOnce, MayVisit
    <3>10. QED
      BY <1>1, <1>2, <1>4, <3>1, <3>7, <3>8, <3>9 DEF Reasons
  <2>7. QED
    BY <2>5, <2>6
<1>14. QED
  BY <1>10, <1>11, <1>12, <1>13

\* Nothing is planned, and all roots are ahead.
LEMMA InitPlanned == PlanInit => PlanIInv
<1> SUFFICES ASSUME PlanInit PROVE PlanIInv
  OBVIOUS
<1>1. BudgetIInv
  BY InitPlan
<1>2. CallTypes
  <2>1. PICK n \in 1..MaxRoots : requested \in [1..n -> Visits]
    BY DEF PlanInit, Roots
  <2>2. requested \in Seq(Visits)
    BY <2>1, PlanConstants, SeqDef
  <2>3. QED
    BY <2>2 DEF PlanInit, CallTypes
<1>3. /\ Planned = {} /\ Opened = {} /\ Queued(stack) = {} /\ Listed(stack) = {}
      /\ roots = requested
      /\ result = "running" /\ stack = <<>>
  BY DEF PlanInit, Planned, Opened, Expanded, Queued, Listed
<1>4. Apart(stack)
  BY <1>3 DEF Apart
<1>5. QED
  BY <1>1, <1>2, <1>3, <1>4
     DEF PlanIInv, PlannedWanted, QueuedWanted, RootsVisited, NothingForgotten, QueuedOnce, Reasons

\* Taking a directory off the queue expands it: its listing is queued in its place.
LEMMA PopKeeps == PlanIInv /\ BudgetIInv' /\ Pop => PlanIInv'
<1> SUFFICES ASSUME PlanIInv, BudgetIInv', Pop PROVE PlanIInv'
  OBVIOUS
<1>1. PICK rest, top : /\ rest = SubSeq(stack, 1, Len(stack) - 1) /\ top = stack[Len(stack)]
                       /\ Visit(top.path, top.recursive, rest)
  BY DEF Pop
<1>2. /\ result = "running" /\ stack # <<>> /\ roots' = roots /\ stack \in Seq(Visits)
      /\ CallTypes /\ PlanTypeOK /\ PlannedWanted /\ QueuedWanted(stack) /\ RootsVisited
      /\ NothingForgotten /\ QueuedOnce
  BY DEF Pop, PlanIInv, BudgetIInv, PlanTypeOK
<1>3. /\ top \in Visits /\ rest \in Seq(Visits)
      /\ Listed(stack) = Listed(rest) \cup {top} /\ Queued(stack) = Queued(rest) \cup {top.path}
      /\ Apart(stack) => Apart(rest) /\ top.path \notin Queued(rest)
  <2>1. rest = SubSeq(stack, 1, Len(stack) - 1)
    BY <1>1
  <2>2. top = stack[Len(stack)]
    BY <1>1
  <2>3. stack \in Seq(Visits) /\ stack # <<>>
    BY <1>2
  <2>4. Parted(stack, rest, top)
    BY <2>1, <2>2, <2>3, ButLastFacts
  <2>5. QED
    BY <2>4 DEF Parted
<1>4. top.path \in Paths /\ top.recursive \in BOOLEAN
  BY <1>3 DEF Visits
<1>5. top.recursive /\ Below(top.path) /\ QueuedWanted(rest)
  BY <1>2, <1>3 DEF QueuedWanted
<1>6. top.path \in Reached
  BY <1>2, <1>4, <1>5, ReachedFacts DEF Below, Closed, PlannedWanted
<1>7. MayVisit(top.path, top.recursive, rest)
  BY <1>2, <1>3, <1>5, <1>6 DEF MayVisit, NothingForgotten, Going, QueuedOnce
<1>8. /\ CallTypes' /\ PlannedWanted' /\ QueuedWanted(stack)' /\ NothingForgotten' /\ QueuedOnce'
      /\ Reasons' /\ Planned \subseteq Planned' /\ Opened \subseteq Opened'
  BY <1>1, <1>2, <1>4, <1>7, VisitKeeps
<1>9. RootsVisited'
  <2>1. requested' = requested
    BY <1>1 DEF Visit, call
  <2>2. QED
    BY <1>2, <1>8, <2>1 DEF RootsVisited, Going
<1>10. QED
  BY <1>8, <1>9 DEF PlanIInv

\* A root is taken when the queue is empty, so whatever it adds is behind nothing else.
LEMMA TakeRootKeeps == PlanIInv /\ BudgetIInv' /\ TakeRoot => PlanIInv'
<1> SUFFICES ASSUME PlanIInv, BudgetIInv', TakeRoot PROVE PlanIInv'
  OBVIOUS
<1>1. PICK root : root = Head(roots) /\ Visit(root.path, root.recursive, <<>>)
  BY DEF TakeRoot
<1>2. /\ result = "running" /\ stack = <<>> /\ roots # <<>> /\ roots' = Tail(roots)
      /\ roots \in Seq(Visits)
      /\ CallTypes /\ PlanTypeOK /\ PlannedWanted /\ RootsVisited /\ NothingForgotten
  BY DEF TakeRoot, PlanIInv, BudgetIInv, PlanTypeOK
<1>3. root \in Visits /\ Listed(roots) = Listed(roots') \cup {root}
  <2>1. root = roots[1] /\ Len(roots) \in Nat /\ 1 \in DOMAIN roots /\ root \in Visits
    BY <1>1, <1>2
  <2>2. /\ \A i \in DOMAIN roots' : i + 1 \in DOMAIN roots /\ roots'[i] = roots[i + 1]
        /\ \A i \in DOMAIN roots : i = 1 \/ (i - 1 \in DOMAIN roots' /\ roots'[i - 1] = roots[i])
    BY <1>2
  <2>3. QED
    BY <2>1, <2>2 DEF Listed
<1>4. root.path \in Paths /\ root.recursive \in BOOLEAN
  BY <1>3 DEF Visits
<1>5. root \in Listed(requested)
  BY <1>2, <1>3 DEF RootsVisited
<1>6. root.path \in Named /\ (root.recursive => root.path \in Recursive)
  BY <1>5 DEF Listed, Named, Recursive
<1>7. MayVisit(root.path, root.recursive, <<>>)
  <2>1. <<>> \in Seq(Visits) /\ Listed(<<>>) = {} /\ Queued(<<>>) = {} /\ Apart(<<>>)
    BY DEF Listed, Queued, Apart
  <2>2. \A q \in Opened : kind[q] # "closed" /\ Directories(q) \subseteq Opened
    BY <1>2, <2>1 DEF NothingForgotten, Going
  <2>3. QED
    BY <1>2, <1>6, <2>1, <2>2, ReachedFacts DEF MayVisit, QueuedWanted
<1>8. /\ CallTypes' /\ PlannedWanted' /\ QueuedWanted(stack)' /\ NothingForgotten' /\ QueuedOnce'
      /\ Reasons' /\ Planned' = Planned \cup {root.path}
      /\ Opened' = Opened \cup {q \in {root.path} : root.recursive}
  BY <1>1, <1>2, <1>4, <1>7, VisitKeeps
<1>9. RootsVisited'
  <2>1. requested' = requested
    BY <1>1 DEF Visit, call
  <2>2. Going
    BY <1>2 DEF Going
  <2>3. ASSUME NEW v \in Listed(requested), v \notin Listed(roots')
        PROVE  v.path \in Planned' /\ (v.recursive => v.path \in Opened')
    <3>1. CASE v = root
      BY <1>8, <3>1
    <3>2. CASE v \notin Listed(roots)
      BY <1>2, <1>8, <2>2, <3>2 DEF RootsVisited
    <3>3. QED
      BY <1>3, <2>3, <3>1, <3>2
  <2>4. QED
    BY <1>2, <1>3, <2>1, <2>3 DEF RootsVisited
<1>10. QED
  BY <1>8, <1>9 DEF PlanIInv

\* It ends with nothing ahead.
LEMMA EndKeeps == PlanIInv /\ BudgetIInv' /\ PlanEnds => PlanIInv'
<1> SUFFICES ASSUME PlanIInv, BudgetIInv', PlanEnds PROVE PlanIInv'
  OBVIOUS
<1>1. /\ result = "running" /\ result' = "planned" /\ stack = <<>> /\ roots = <<>>
      /\ UNCHANGED <<parent, kind, requested, budget, roots, stack, paths>>
  BY DEF PlanEnds, tree, call
<1>2. /\ CallTypes' /\ Named' = Named /\ Reached' = Reached /\ (Entwined' <=> Entwined)
      /\ \A q : Directories(q)' = Directories(q) /\ (IsDirectory(q)' <=> IsDirectory(q))
  BY <1>1, CallKept DEF PlanIInv, tree, call
<1>3. Planned' = Planned /\ Opened' = Opened
  BY <1>1 DEF Planned, Opened, Expanded
<1>4. PlannedWanted' /\ QueuedWanted(stack)' /\ QueuedOnce'
  BY <1>1, <1>2, <1>3 DEF PlanIInv, PlannedWanted, QueuedWanted, QueuedOnce, Below
<1>5. RootsVisited' /\ NothingForgotten'
  BY <1>1, <1>2, <1>3 DEF PlanIInv, RootsVisited, NothingForgotten, Going
<1>6. Reasons'
  <2>1. PlanTypeOK /\ QueueWithinBudget /\ Len(stack) = 0
    BY <1>1 DEF PlanIInv, BudgetIInv
  <2>2. Cardinality(Planned) \in Nat
    BY <2>1, FS_Subset, FS_CardinalityType, PlanConstants, FS_Interval, 1 \in Int, N \in Int
       DEF PlanTypeOK, Planned, Paths
  <2>3. Cardinality(Planned) <= budget
    BY <1>1, <2>1, <2>2 DEF QueueWithinBudget, Planned, PlanTypeOK
  <2>4. QED
    BY <1>1, <1>3, <2>3 DEF Reasons
<1>7. QED
  BY <1>2, <1>4, <1>5, <1>6 DEF PlanIInv

\* Every step of the plan.
LEMMA NextPlanned == PlanIInv /\ [PlanNext]_planVars => PlanIInv'
<1> SUFFICES ASSUME PlanIInv, [PlanNext]_planVars PROVE PlanIInv'
  OBVIOUS
<1>1. BudgetIInv'
  BY NextPlan DEF PlanIInv
<1>2. CASE PlanNext
  BY <1>1, <1>2, PopKeeps, TakeRootKeeps, EndKeeps DEF PlanNext
<1>3. CASE UNCHANGED planVars
  <2>1. UNCHANGED <<parent, kind, requested, budget, roots, stack, paths, result>>
    BY <1>3 DEF planVars, tree, call
  <2>2. /\ CallTypes' /\ Named' = Named /\ Reached' = Reached /\ (Entwined' <=> Entwined)
        /\ \A q : Directories(q)' = Directories(q) /\ (IsDirectory(q)' <=> IsDirectory(q))
    BY <2>1, CallKept DEF PlanIInv, tree, call
  <2>3. Planned' = Planned /\ Opened' = Opened
    BY <2>1 DEF Planned, Opened, Expanded
  <2>4. PlannedWanted' /\ QueuedWanted(stack)' /\ QueuedOnce'
    BY <2>1, <2>2, <2>3 DEF PlanIInv, PlannedWanted, QueuedWanted, QueuedOnce, Below
  <2>5. RootsVisited' /\ NothingForgotten' /\ Reasons'
    BY <2>1, <2>2, <2>3 DEF PlanIInv, RootsVisited, NothingForgotten, Going, Reasons
  <2>6. QED
    BY <1>1, <2>2, <2>4, <2>5 DEF PlanIInv
<1>4. QED
  BY <1>2, <1>3

\* What is expanded in a finished plan is closed, and so has all that is inside the roots.
LEMMA PlannedIsComplete ==
  ASSUME PlanIInv, result = "planned"
  PROVE  Planned = Named \cup Reached /\ Reached \subseteq Opened
<1>1. roots = <<>> /\ Listed(roots) = {} /\ Queued(stack) = {} /\ Going
  BY DEF PlanIInv, Reasons, Listed, Queued, Going
<1>2. \A v \in Listed(requested) : v.path \in Planned /\ (v.recursive => v.path \in Opened)
  BY <1>1 DEF PlanIInv, RootsVisited
<1>3. Named \subseteq Planned /\ Recursive \subseteq Opened
  BY <1>2 DEF Named, Recursive, Listed
<1>4. Closed(Opened)
  <2> SUFFICES ASSUME NEW q \in Paths, parent[q] \in Opened, IsDirectory(q) PROVE q \in Opened
    BY DEF Closed
  <2>1. q \in Directories(parent[q])
    BY DEF Directories
  <2>2. QED
    BY <1>1, <2>1 DEF PlanIInv, NothingForgotten
<1>5. Opened \in SUBSET Paths
  BY DEF Opened
<1>6. Reached \subseteq Opened
  BY <1>3, <1>4, <1>5, ReachedFacts DEF PlanIInv
<1>7. QED
  BY <1>3, <1>6 DEF PlanIInv, PlannedWanted

\* A plan is what was asked for, or there is a reason that there is none: for every forest,
\* list of roots and limit (bounded_watch_paths).
THEOREM PlanTheorem == PlanSpec => []PlanIsExact
<1>1. PlanIInv => PlanIsExact
  <2> SUFFICES ASSUME PlanIInv PROVE PlanIsExact
    OBVIOUS
  <2>1. /\ Reached = {p \in Paths : Inside[p]} /\ Wanted = Named \cup Reached
        /\ Entwined <=> Overlapping
    BY InsideIsReached DEF PlanIInv
  <2>2. PlanIsComplete
    <3> SUFFICES ASSUME result = "planned"
                 PROVE  /\ DOMAIN paths = Wanted /\ Cardinality(Wanted) <= budget
                        /\ \A p \in Wanted : Inside[p] => kind[p] # "closed"
      BY DEF PlanIsComplete
    <3>1. Planned = Wanted /\ Reached \subseteq Opened
      BY <2>1, PlannedIsComplete
    <3>2. Cardinality(Planned) <= budget /\ \A q \in Opened : kind[q] # "closed"
      BY DEF PlanIInv, Reasons, NothingForgotten, Going
    <3>3. Wanted \subseteq Paths
      BY <2>1, ReachedFacts DEF PlanIInv
    <3>4. QED
      BY <2>1, <3>1, <3>2, <3>3 DEF Planned
  <2>3. FailsForAReason
    BY <2>1 DEF PlanIInv, Reasons, FailsForAReason
  <2>4. QueueWithinBudget
    BY DEF PlanIInv, BudgetIInv
  <2>5. QED
    BY <2>2, <2>3, <2>4 DEF PlanIsExact
<1>2. QED
  BY InitPlanned, NextPlanned, <1>1, PTL DEF PlanSpec

-----------------------------------------------------------------------------
(* The backoff of watchers: penalties, and the inductive invariant *)

\* A function with the values that Penalty's definition asks for, up to m.
Penalised(p, m) ==
  /\ p \in [1..m -> Nat]
  /\ \A n \in 1..m : p[n] = IF n = 1 THEN First ELSE Least(2 * p[n - 1], Most)

\* Some function has the values that Penalty's definition asks for, up to any bound:
\* the least bound without one has one.
LEMMA PenaltiesExist == \A m \in Nat \ {0} : \E p : Penalised(p, m)
<1> DEFINE Bad == {m \in Nat \ {0} : ~ \E p : Penalised(p, m)}
<1> SUFFICES ASSUME Bad # {} PROVE FALSE
  OBVIOUS
<1>1. Bad \in SUBSET Nat
  OBVIOUS
<1>2. PICK m \in Bad : \A y \in Bad : m <= y
  BY <1>1, LeastElement
<1>3. CASE m = 1
  <2> DEFINE p == [n \in 1..1 |-> First]
  <2>1. Penalised(p, 1)
    BY BackoffConstants DEF Penalised
  <2>2. QED
    BY <1>2, <1>3, <2>1
<1>4. CASE m # 1
  <2>1. m \in Nat /\ m - 1 \in Nat \ {0} /\ ~(m - 1 \in Bad)
    BY <1>2, <1>4
  <2>2. PICK p : Penalised(p, m - 1)
    BY <2>1
  <2> DEFINE last == Least(2 * p[m - 1], Most)
             q == [n \in 1..m |-> IF n = m THEN last ELSE p[n]]
  <2>3. p[m - 1] \in Nat
    BY <2>1, <2>2 DEF Penalised
  <2>4. last \in Nat
    BY <2>3, BackoffConstants DEF Least
  <2> HIDE DEF last
  <2>5. \A n \in 1..m : n # m => n \in 1..(m - 1)
    BY <2>1
  <2>6. q \in [1..m -> Nat]
    BY <2>2, <2>4, <2>5 DEF Penalised
  <2>7. ASSUME NEW n \in 1..m PROVE q[n] = IF n = 1 THEN First ELSE Least(2 * q[n - 1], Most)
    <3>1. CASE n = m
      <4>1. q[m] = last /\ q[m - 1] = p[m - 1]
        BY <2>1
      <4>2. QED
        BY <3>1, <4>1, <1>4 DEF last
    <3>2. CASE n # m
      <4>1. n \in 1..(m - 1) /\ q[n] = p[n]
        BY <2>5, <3>2
      <4>2. n # 1 => n - 1 \in 1..m /\ n - 1 # m /\ q[n - 1] = p[n - 1]
        BY <2>1, <4>1
      <4>3. QED
        BY <2>2, <4>1, <4>2 DEF Penalised
    <3>3. QED
      BY <3>1, <3>2
  <2>8. Penalised(q, m)
    BY <2>6, <2>7 DEF Penalised
  <2>9. QED
    BY <1>2, <2>8
<1>5. QED
  BY <1>3, <1>4

\* So Penalty, which is defined as some such function, has them.
LEMMA PenaltyFacts == Penalised(Penalty, MaxBackoffTime + 1)
<1>1. MaxBackoffTime + 1 \in Nat \ {0}
  BY BackoffConstants
<1>2. PICK p : Penalised(p, MaxBackoffTime + 1)
  BY <1>1, PenaltiesExist
<1> DEFINE F(g) == [n \in 1..(MaxBackoffTime + 1) |->
                      IF n = 1 THEN First ELSE Least(2 * g[n - 1], Most)]
<1>3. p = F(p)
  BY <1>2 DEF Penalised
<1>4. Penalty = CHOOSE g : g = F(g)
  BY DEF Penalty
<1>5. Penalty = F(Penalty)
  BY <1>3, <1>4
<1>6. \A n \in 1..(MaxBackoffTime + 1) :
        Penalty[n] = IF n = 1 THEN First ELSE Least(2 * Penalty[n - 1], Most)
  BY <1>5
<1> HIDE DEF F
<1>7. \A n \in 1..(MaxBackoffTime + 1) : Penalty[n] \in Nat
  <2> DEFINE Bad == {n \in 1..(MaxBackoffTime + 1) : Penalty[n] \notin Nat}
  <2> SUFFICES ASSUME Bad # {} PROVE FALSE
    OBVIOUS
  <2>1. Bad \in SUBSET Nat
    BY BackoffConstants
  <2>2. PICK n \in Bad : \A y \in Bad : n <= y
    BY <2>1, LeastElement
  <2>3. n \in 1..(MaxBackoffTime + 1) /\ Penalty[n] \notin Nat
    OBVIOUS
  <2>4. n # 1
    BY <1>6, <2>3, BackoffConstants
  <2>5. n - 1 \in 1..(MaxBackoffTime + 1) /\ ~(n - 1 \in Bad)
    BY <2>2, <2>3, <2>4, BackoffConstants
  <2>6. Penalty[n - 1] \in Nat
    BY <2>5
  <2>7. Least(2 * Penalty[n - 1], Most) \in Nat
    BY <2>6, BackoffConstants DEF Least
  <2>8. QED
    BY <1>6, <2>3, <2>4, <2>7
<1>8. Penalty = [n \in 1..(MaxBackoffTime + 1) |-> Penalty[n]]
  BY <1>5 DEF F
<1>9. QED
  BY <1>6, <1>7, <1>8 DEF Penalised

\* The types of the state.
BackoffTypes ==
  /\ clock \in 0..MaxBackoffTime /\ retryAt \in Nat /\ delay \in Nat /\ since \in Nat
  /\ failed \in Nat /\ streak \in Nat /\ watching \in BOOLEAN

\* A watcher that runs was made when that was allowed; no other start is remembered.
StartRemembered ==
  /\ watching => healthySince = since /\ since <= clock /\ retryAt <= since
  /\ ~watching => healthySince = Unset

\* The next delay is the penalty of the next failure in the row.
DelayIsNext ==
  /\ streak = 0 => delay = First
  /\ streak > 0 => /\ failed <= clock /\ streak <= failed + 1
                   /\ retryAt = failed + Penalty[streak]
                   /\ delay = Least(2 * Penalty[streak], Most)

\* The inductive invariant.
BackoffIInv == BackoffTypes /\ StartRemembered /\ DelayIsNext

\* Nothing has failed, and the first delay is the shortest.
LEMMA InitBackoff == BackoffInit => BackoffIInv
<1> SUFFICES ASSUME BackoffInit PROVE BackoffIInv
  OBVIOUS
<1>1. BackoffTypes
  <2>1. watching \in BOOLEAN
    BY Zenon DEF BackoffInit
  <2>2. QED
    BY <2>1, BackoffConstants DEF BackoffInit, BackoffTypes, Unset
<1>2. StartRemembered /\ DelayIsNext
  BY DEF BackoffInit, StartRemembered, DelayIsNext
<1>3. QED
  BY <1>1, <1>2 DEF BackoffIInv

\* Penalties begin with the first and double up to the longest.
LEMMA PenaltyValues ==
  /\ Penalty[1] = First
  /\ \A n \in 1..(MaxBackoffTime + 1) : Penalty[n] \in Nat /\ Penalty[n] >= 1
  /\ \A n \in 1..MaxBackoffTime : Penalty[n + 1] = Least(2 * Penalty[n], Most)
<1>1. Penalised(Penalty, MaxBackoffTime + 1) /\ MaxBackoffTime \in Nat
  BY PenaltyFacts, BackoffConstants
<1>2. Penalty[1] = First /\ \A n \in 1..(MaxBackoffTime + 1) : Penalty[n] \in Nat
  BY <1>1 DEF Penalised
<1>3. ASSUME NEW n \in 1..MaxBackoffTime PROVE Penalty[n + 1] = Least(2 * Penalty[n], Most)
  <2>1. n + 1 \in 1..(MaxBackoffTime + 1) /\ n + 1 # 1 /\ (n + 1) - 1 = n
    BY <1>1
  <2>2. QED
    BY <1>1, <2>1 DEF Penalised
<1>4. ASSUME NEW n \in 1..(MaxBackoffTime + 1) PROVE Penalty[n] >= 1
  <2> DEFINE Bad == {m \in 1..(MaxBackoffTime + 1) : ~(Penalty[m] >= 1)}
  <2> SUFFICES ASSUME Bad # {} PROVE FALSE
    OBVIOUS
  <2>1. Bad \in SUBSET Nat
    BY BackoffConstants
  <2>2. PICK m \in Bad : \A y \in Bad : m <= y
    BY <2>1, LeastElement
  <2>3. m # 1
    BY <1>2, BackoffConstants
  <2>4. m - 1 \in 1..MaxBackoffTime /\ m - 1 \in 1..(MaxBackoffTime + 1)
        /\ ~(m - 1 \in Bad) /\ (m - 1) + 1 = m
    BY <1>1, <2>2, <2>3
  <2>5. Penalty[m - 1] \in Nat /\ Penalty[m - 1] >= 1
    BY <1>2, <2>4
  <2>6. Penalty[m] = Least(2 * Penalty[m - 1], Most)
    BY <1>3, <2>4
  <2>7. QED
    BY <2>5, <2>6, BackoffConstants DEF Least
<1>5. QED
  BY <1>2, <1>3, <1>4

\* One more failure, at least a delay after the last one.
LEMMA StreakGrows ==
  ASSUME BackoffIInv, retryAt <= clock, streak' = streak + 1, failed' = clock, clock' = clock,
         retryAt' = clock + delay, delay' = Least(2 * delay, Most)
  PROVE  DelayIsNext'
<1>0. BackoffTypes /\ DelayIsNext /\ MaxBackoffTime \in Nat /\ clock \in Nat
  BY BackoffConstants DEF BackoffIInv, BackoffTypes
<1>1. CASE streak = 0
  <2>1. delay = Penalty[1] /\ streak' = 1
    BY <1>0, <1>1, PenaltyValues DEF DelayIsNext
  <2>2. QED
    BY <1>0, <2>1 DEF DelayIsNext
<1>2. CASE streak # 0
  <2>1. streak \in Nat /\ streak > 0 /\ streak <= failed + 1 /\ failed \in Nat /\ failed <= clock
        /\ retryAt = failed + Penalty[streak] /\ delay = Least(2 * Penalty[streak], Most)
    BY <1>0, <1>2 DEF DelayIsNext, BackoffTypes
  <2>2. clock <= MaxBackoffTime
    BY <1>0 DEF BackoffTypes
  <2>3. streak \in 1..(MaxBackoffTime + 1)
    BY <1>0, <2>1, <2>2
  <2>4. Penalty[streak] \in Nat /\ Penalty[streak] >= 1
    BY <2>3, PenaltyValues
  <2>5. failed + 1 <= clock /\ streak <= clock
    BY <1>0, <2>1, <2>4
  <2>6. streak \in 1..MaxBackoffTime
    BY <1>0, <2>1, <2>2, <2>5
  <2>7. delay = Penalty[streak + 1]
    BY <2>1, <2>6, PenaltyValues
  <2>8. streak' <= failed' + 1 /\ streak' > 0
    BY <1>0, <2>1, <2>5
  <2>9. QED
    BY <1>0, <2>7, <2>8 DEF DelayIsNext
<1>3. QED
  BY <1>1, <1>2

\* Every step preserves the invariant.
LEMMA NextBackoff == BackoffIInv /\ [BackoffNext]_backoffVars => BackoffIInv'
<1> SUFFICES ASSUME BackoffIInv, [BackoffNext]_backoffVars PROVE BackoffIInv'
  OBVIOUS
<1>0. BackoffTypes /\ StartRemembered /\ DelayIsNext
  BY DEF BackoffIInv
<1>1. CASE UNCHANGED backoffVars
  BY <1>0, <1>1
  DEF backoffVars, backoff, BackoffIInv, BackoffTypes, StartRemembered, DelayIsNext
<1>2. CASE Started
  <2>1. BackoffTypes'
    BY <1>0, <1>2 DEF Started, BackoffTypes
  <2>2. StartRemembered'
    BY <1>0, <1>2 DEF Started, StartRemembered, BackoffTypes
  <2>3. DelayIsNext'
    BY <1>0, <1>2 DEF Started, DelayIsNext
  <2>4. QED
    BY <2>1, <2>2, <2>3 DEF BackoffIInv
<1>3. CASE BackoffTick
  <2>1. BackoffTypes'
    BY <1>0, <1>3, BackoffConstants DEF BackoffTick, backoff, BackoffTypes
  <2>2. StartRemembered'
    BY <1>0, <1>3 DEF BackoffTick, backoff, StartRemembered, BackoffTypes
  <2>3. DelayIsNext'
    BY <1>0, <1>3 DEF BackoffTick, backoff, DelayIsNext, BackoffTypes
  <2>4. QED
    BY <2>1, <2>2, <2>3 DEF BackoffIInv
<1>4. CASE Refuse
  <2>1. healthySince = Unset
    BY <1>0, <1>4 DEF Refuse, StartRemembered
  <2>2. /\ retryAt' = clock + delay /\ delay' = Least(2 * delay, Most) /\ healthySince' = Unset
    BY <1>4, <2>1 DEF Refuse, Penalise
  <2>3. BackoffTypes'
    BY <1>0, <1>4, <2>2, BackoffConstants DEF Refuse, BackoffTypes, Least
  <2>4. StartRemembered'
    BY <1>4, <2>2 DEF Refuse, StartRemembered, Unset
  <2>5. DelayIsNext'
    BY <1>4, <2>2, StreakGrows DEF Refuse, BackoffTypes
  <2>6. QED
    BY <2>3, <2>4, <2>5 DEF BackoffIInv
<1>5. CASE BackoffFails
  <2>1. watching /\ healthySince = since /\ since <= clock /\ retryAt <= since
    BY <1>0, <1>5 DEF BackoffFails, StartRemembered
  <2>2. /\ clock \in Nat /\ since \in Nat /\ retryAt \in Nat /\ clock <= MaxBackoffTime
        /\ MaxBackoffTime \in Nat
    BY <1>0, BackoffConstants DEF BackoffTypes
  <2>3. healthySince # Unset /\ retryAt <= clock
    BY <2>1, <2>2 DEF Unset
  <2>4. clock' = clock /\ failed' = clock /\ watching' = FALSE /\ since' = since
        /\ healthySince' = Unset
    BY <1>5 DEF BackoffFails, Penalise
  <2>5. CASE clock - since >= Healthy
    <3>1. /\ retryAt' = clock + First /\ delay' = Least(2 * First, Most) /\ streak' = 1
      BY <1>5, <2>1, <2>3, <2>5 DEF BackoffFails, Penalise
    <3>2. BackoffTypes'
      <4>1. clock + First \in Nat /\ Least(2 * First, Most) \in Nat /\ 1 \in Nat
        BY <1>0, BackoffConstants DEF BackoffTypes, Least
      <4>2. watching' \in BOOLEAN
        BY <2>4, Zenon
      <4>3. QED
        BY <1>0, <2>4, <3>1, <4>1, <4>2 DEF BackoffTypes
    <3>3. DelayIsNext'
      BY <2>2, <2>4, <3>1, PenaltyValues DEF DelayIsNext
    <3>4. StartRemembered'
      BY <2>4 DEF StartRemembered, Unset
    <3>5. QED
      BY <3>2, <3>3, <3>4 DEF BackoffIInv
  <2>6. CASE ~(clock - since >= Healthy)
    <3>1. /\ retryAt' = clock + delay /\ delay' = Least(2 * delay, Most) /\ streak' = streak + 1
      BY <1>5, <2>1, <2>6 DEF BackoffFails, Penalise
    <3>2. BackoffTypes'
      <4>1. clock + delay \in Nat /\ Least(2 * delay, Most) \in Nat /\ streak + 1 \in Nat
        BY <1>0, BackoffConstants DEF BackoffTypes, Least
      <4>2. watching' \in BOOLEAN
        BY <2>4, Zenon
      <4>3. QED
        BY <1>0, <2>4, <3>1, <4>1, <4>2 DEF BackoffTypes
    <3>3. DelayIsNext'
      BY <2>3, <2>4, <3>1, StreakGrows
    <3>4. StartRemembered'
      BY <2>4 DEF StartRemembered, Unset
    <3>5. QED
      BY <3>2, <3>3, <3>4 DEF BackoffIInv
  <2>7. QED
    BY <2>5, <2>6
<1>6. QED
  BY <1>1, <1>2, <1>3, <1>4, <1>5 DEF BackoffNext

\* However refusals, failures and healthy times interleave, the wait after a
\* failure is the penalty of its place in the row (watch.rs, WatchBackoff).
THEOREM PenaltyTheorem == BackoffSpec => []PenaltyIsKept
<1>1. BackoffIInv => PenaltyIsKept
  BY DEF BackoffIInv, DelayIsNext, PenaltyIsKept
<1>2. QED
  BY <1>1, InitBackoff, NextBackoff, PTL DEF BackoffSpec
=============================================================================
