------------------------------ MODULE StagedFile ------------------------------
(***************************************************************************)
(* StagedFile (daemon-core/file.rs): several threads replace one file,     *)
(* each through a temporary of its own beside it, over a file system that  *)
(* keeps only what was synced when the power goes.  readers use            *)
(* read_bytes_bounded.  PRIVATE and DURABLE: parent and new ancestors are  *)
(* synced, a link at the destination is refused.                           *)
(*                                                                         *)
(* Files are numbers, a file's content the number of its chunks: Chunks    *)
(* when whole.  Names are Dest and the numbers of temporaries; a process   *)
(* that starts again counts from one and may get the old pid, hence the    *)
(* old names.  Directory k of 1 .. Depth lies in k - 1; the destination    *)
(* lies in Depth.  Modes change nothing and are left out.                  *)
(***************************************************************************)
EXTENDS Naturals, FiniteSetsExt

CONSTANTS
  Writers,
  Depth,    \* directories that may be missing
  Chunks,   \* of a whole content, and the reader's limit
  MaxFiles, \* bound on files made
  MaxNames, \* bound on temporaries' names
  Crashes,  \* bound on crashes of each kind
  Reads,    \* bound on readers at a time, 0 or 1
  Strangers \* bound on what somebody else puts in the way

ASSUME FileConstants ==
  /\ Reads \in {0, 1}
  /\ {Depth, MaxFiles, MaxNames, Crashes, Strangers} \subseteq Nat
  /\ Chunks \in Nat \ {0}

VARIABLES
  dir,      \* the file of each name, 0 where there is none
  disk,     \* the files of which each name may have one when the power goes
  data,     \* chunks of each file
  hard,     \* those that surely outlive the power
  rank,     \* when a file became the destination, 0 if it never did
  links,    \* symbolic links among the files
  present,  \* directories 1 .. present exist
  linked,   \* those whose entry surely does
  writer,   \* per thread, where it is and the temporary it owns
  reader,   \* where the reader is, its file, and what it last returned
  process   \* counters: names, files, crashes, strangers, leaked names, barrier

fileVars == <<dir, disk, data, hard, rank, links, present, linked, writer, reader, process>>

Files == 1 .. MaxFiles
Temps == 1 .. MaxNames
Dest == 0
Names == {Dest} \cup Temps
Idle == [pc |-> "idle", found |-> {}, todo |-> {}, temp |-> 0, file |-> 0]
NextRank == 1 + Max({rank[f] : f \in Files} \cup {0})
Whole == IF dir[Dest] = 0 THEN {} ELSE {dir[Dest]}

FileInit ==
  /\ dir = [n \in Names |-> 0] /\ disk = [n \in Names |-> {0}]
  /\ data = [f \in Files |-> 0] /\ hard = data /\ rank = data /\ links = {}
  /\ present = 0 /\ linked = {}
  /\ writer = [w \in Writers |-> Idle]
  /\ reader = [pc |-> "idle", file |-> 0, got |-> 0]
  /\ process = [next |-> 1, made |-> 0, kills |-> 0, losses |-> 0, strange |-> 0,
                leaked |-> {}, barrier |-> 0]

\* now, with what new has in its place.
Overlaid(new, now) == [x \in DOMAIN now |-> IF x \in DOMAIN new THEN new[x] ELSE now[x]]

\* Entries change at once, and on the disk when the kernel pleases.
Enter(entries) ==
  /\ dir' = Overlaid(entries, dir)
  /\ disk' = [n \in Names |-> disk[n] \cup {dir'[n]}]

Durable == [n \in Names |-> {dir[n]}]

FileMoves(w, from, to) == writer[w].pc = from /\ writer' = [writer EXCEPT ![w].pc = to]

\* The ancestors that do not exist yet, as seen now.
FileLook(w) ==
  /\ writer[w].pc = "idle"
  /\ LET missing == present + 1 .. Depth
     IN  writer' = [writer EXCEPT
           ![w] = [Idle EXCEPT !.pc = "making", !.found = missing, !.todo = missing]]
  /\ UNCHANGED <<dir, disk, data, hard, rank, links, present, linked, reader, process>>

MakeDirectory(w) ==
  /\ \/ present < Depth /\ writer[w].pc = "making" /\ present' = present + 1
        /\ UNCHANGED writer
     \/ present = Depth /\ FileMoves(w, "making", "syncing") /\ UNCHANGED present
  /\ UNCHANGED <<dir, disk, data, hard, rank, links, linked, reader, process>>

\* Mutant: the directory is synced, the entry that leads to it is not.
SyncBelow(d) == {d + 1} \cap 1 .. Depth

\* What syncing a directory and then its parent makes durable.
SyncAround(d) == {d, d + 1} \cap 1 .. Depth

\* From the outermost inwards.
SyncAncestor(w) ==
  /\ writer[w].pc = "syncing" /\ writer[w].todo # {}
  /\ LET d == Min(writer[w].todo)
     IN  /\ writer' = [writer EXCEPT ![w].todo = @ \ {d}]
         /\ linked' = linked \cup SyncAround(d)
         /\ disk' = IF d = Depth THEN Durable ELSE disk
  /\ UNCHANGED <<dir, data, hard, rank, links, present, reader, process>>

\* create_new: a name somebody has is passed over.
Create(w) ==
  /\ process.made < MaxFiles /\ process.next \in Temps
  /\ LET n == process.next
         f == process.made + 1
     IN  IF dir[n] # 0
           THEN /\ process' = [process EXCEPT !.next = @ + 1]
                /\ UNCHANGED <<dir, disk, writer>>
           ELSE /\ process' = [process EXCEPT !.next = @ + 1, !.made = f]
                /\ Enter([x \in {n} |-> f])
                /\ writer' = [writer EXCEPT ![w].temp = n, ![w].file = f,
                                            ![w].pc = "writing"]
  /\ UNCHANGED <<data, hard, rank, links, present, linked, reader>>

\* A link at the destination is refused before a temporary is made.
Open(w) ==
  /\ writer[w].pc = "syncing" /\ writer[w].todo = {} /\ Whole \cap links = {}
  /\ Create(w)

\* All but the last chunk, which stays in the buffer until it is flushed.
Write(w) ==
  /\ FileMoves(w, "writing", "buffered")
  /\ data' = [data EXCEPT ![writer[w].file] = Chunks - 1]
  /\ UNCHANGED <<dir, disk, hard, rank, links, present, linked, reader, process>>

Flush(w) ==
  /\ FileMoves(w, "buffered", "flushed")
  /\ data' = [data EXCEPT ![writer[w].file] = Chunks]
  /\ UNCHANGED <<dir, disk, hard, rank, links, present, linked, reader, process>>

\* Mutant: the file is left to the kernel.
SyncLater(w) ==
  /\ FileMoves(w, "flushed", "staged")
  /\ UNCHANGED <<dir, disk, data, hard, rank, links, present, linked, reader, process>>

Sync(w) ==
  /\ FileMoves(w, "flushed", "staged")
  /\ hard' = [hard EXCEPT ![writer[w].file] = data[writer[w].file]]
  /\ UNCHANGED <<dir, disk, data, rank, links, present, linked, reader, process>>

Commit(w) ==
  /\ Whole \cap links = {} /\ FileMoves(w, "staged", "renaming")
  /\ UNCHANGED <<dir, disk, data, hard, rank, links, present, linked, reader, process>>

\* What is at the destination by now is replaced, a link too.
Rename(w) ==
  /\ writer[w].pc = "renaming"
  /\ Enter([n \in {Dest, writer[w].temp} |-> IF n = Dest THEN writer[w].file ELSE 0])
  /\ rank' = [rank EXCEPT ![writer[w].file] = NextRank]
  /\ writer' = [writer EXCEPT ![w].pc = "renamed", ![w].temp = 0]
  /\ UNCHANGED <<data, hard, links, present, linked, reader, process>>

\* Mutant: the rename is the commit.
SyncNothing(w) ==
  /\ writer[w].pc = "renamed" /\ writer' = [writer EXCEPT ![w] = Idle]
  /\ process' = [process EXCEPT !.barrier = Max({@, rank[writer[w].file]})]
  /\ UNCHANGED <<dir, disk, data, hard, rank, links, present, linked, reader>>

\* commit returns Ok: its content, or a later one, is the least that stays.
SyncParent(w) ==
  /\ writer[w].pc = "renamed" /\ writer' = [writer EXCEPT ![w] = Idle]
  /\ disk' = Durable
  /\ process' = [process EXCEPT !.barrier = Max({@, rank[writer[w].file]})]
  /\ UNCHANGED <<dir, data, hard, rank, links, present, linked, reader>>

\* Mutant: only what was staged to the end is cleaned up.
FailStaged(w) ==
  /\ writer[w].pc # "idle"
  /\ LET own == IF writer[w].pc = "staged" THEN {writer[w].temp} \ {0} ELSE {}
     IN  Enter([n \in own |-> 0])
  /\ writer' = [writer EXCEPT ![w] = Idle]
  /\ UNCHANGED <<data, hard, rank, links, present, linked, reader, process>>

\* A step fails, or the staged file is not committed: drop removes the
\* temporary it owns, unless that is refused.
FileFails(w) ==
  /\ writer[w].pc # "idle" /\ writer' = [writer EXCEPT ![w] = Idle]
  /\ LET own == {writer[w].temp} \ {0}
     IN  \/ /\ Enter([n \in own |-> 0])
            /\ UNCHANGED process
         \/ /\ own # {} /\ process.strange < Strangers /\ UNCHANGED <<dir, disk>>
            /\ process' = [process EXCEPT !.leaked = @ \cup own, !.strange = @ + 1]
  /\ UNCHANGED <<data, hard, rank, links, present, linked, reader>>

\* Neither the final link nor anything but a file is opened.
OpenRead ==
  /\ Reads = 1 /\ reader.pc = "idle" /\ Whole \ links # {}
  /\ reader' = [pc |-> "opened", file |-> dir[Dest], got |-> 0]
  /\ UNCHANGED <<dir, disk, data, hard, rank, links, present, linked, writer, process>>

CheckLength ==
  /\ reader.pc = "opened"
  /\ reader' = IF data[reader.file] > Chunks THEN [reader EXCEPT !.pc = "idle"]
               ELSE [reader EXCEPT !.pc = "checked"]
  /\ UNCHANGED <<dir, disk, data, hard, rank, links, present, linked, writer, process>>

\* Mutant: the length was checked before.
ReadAll ==
  /\ reader.pc = "checked"
  /\ reader' = [reader EXCEPT !.pc = "idle", !.got = data[reader.file]]
  /\ UNCHANGED <<dir, disk, data, hard, rank, links, present, linked, writer, process>>

\* One chunk more than the limit tells that the file grew.
ReadBounded ==
  /\ reader.pc = "checked"
  /\ reader' = [reader EXCEPT !.pc = "idle",
                              !.got = IF data[reader.file] > Chunks THEN 0
                                      ELSE data[reader.file]]
  /\ UNCHANGED <<dir, disk, data, hard, rank, links, present, linked, writer, process>>

\* External: somebody appends to the destination or puts a link there.
Grow ==
  /\ process.strange < Strangers /\ process' = [process EXCEPT !.strange = @ + 1]
  /\ Whole \ links # {} /\ data' = [data EXCEPT ![dir[Dest]] = @ + 1]
  /\ UNCHANGED <<dir, disk, hard, rank, links, present, linked, writer, reader>>

PutLink ==
  /\ process.strange < Strangers /\ process.made < MaxFiles /\ present = Depth
  /\ LET f == process.made + 1
     IN  /\ process' = [process EXCEPT !.strange = @ + 1, !.made = f]
         /\ Enter([n \in {Dest} |-> f])
         /\ data' = [data EXCEPT ![f] = Chunks] /\ hard' = [hard EXCEPT ![f] = Chunks]
         /\ rank' = [rank EXCEPT ![f] = NextRank] /\ links' = links \cup {f}
  /\ UNCHANGED <<present, linked, writer, reader>>

\* The process dies and starts again; nobody drops anything.
Owned == {writer[w].temp : w \in Writers} \ {0}

Kill ==
  /\ process.kills < Crashes
  /\ process' = [process EXCEPT !.kills = @ + 1, !.next = 1, !.leaked = @ \cup Owned]
  /\ writer' = [w \in Writers |-> Idle] /\ reader' = [pc |-> "idle", file |-> 0, got |-> 0]
  /\ UNCHANGED <<dir, disk, data, hard, rank, links, present, linked>>

\* What may be left of the places that are not surely as they are now.
Remains(possible, now) ==
  LET open == {x \in DOMAIN now : possible[x] # {now[x]}}
  IN  {Overlaid(c, now) : c \in {c \in [open -> UNION {possible[x] : x \in open}] :
                               \A x \in open : c[x] \in possible[x]}}

\* The power goes, and the kernel had written back what it pleased; below a
\* lost directory everything is lost.
PowerLoss ==
  /\ process.losses < Crashes
  /\ present' \in 0 .. present /\ linked' = 1 .. present' /\ UNCHANGED <<rank, links>>
  /\ \A d \in 1 .. Depth : 1 .. d \subseteq linked => d <= present'
  /\ dir' \in IF present' = Depth THEN Remains(disk, dir) ELSE {[n \in Names |-> 0]}
  /\ disk' = [n \in Names |-> {dir'[n]}]
  /\ data' \in Remains([f \in Files |-> hard[f] .. data[f]], data)
  /\ hard' = data'
  /\ process' = [process EXCEPT !.losses = @ + 1, !.next = 1,
                   !.leaked = {n \in Temps : dir'[n] # 0},
                   !.barrier = IF present' = Depth THEN @ ELSE 0]
  /\ writer' = [w \in Writers |-> Idle] /\ reader' = [pc |-> "idle", file |-> 0, got |-> 0]

FileNext ==
  \/ \E w \in Writers :
       \/ FileLook(w) \/ MakeDirectory(w) \/ SyncAncestor(w) \/ Open(w) \/ Write(w) \/ Flush(w)
       \/ Sync(w) \/ Commit(w) \/ Rename(w) \/ SyncParent(w) \/ FileFails(w)
  \/ OpenRead \/ CheckLength \/ ReadBounded
  \/ Grow \/ PutLink \/ Kill \/ PowerLoss

FileSpec == FileInit /\ [][FileNext]_fileVars
-----------------------------------------------------------------------------
\* Every variable has its type, and a temporary that is there is somebody's:
\* only crashes and refused removals leave one behind.
FileTypeOK ==
  /\ dir \in [Names -> 0 .. MaxFiles] /\ disk \in [Names -> SUBSET (0 .. MaxFiles)]
  /\ {data, hard} \subseteq [Files -> 0 .. Chunks + Strangers]
  /\ rank \in [Files -> 0 .. MaxFiles] /\ links \subseteq Files
  /\ present \in 0 .. Depth /\ linked \subseteq 1 .. Depth
  /\ writer \in [Writers -> [pc : {"idle", "making", "syncing", "writing", "buffered",
                                   "flushed", "staged", "renaming", "renamed"},
                             found : SUBSET (1 .. Depth), todo : SUBSET (1 .. Depth),
                             temp : {0} \cup Temps, file : {0} \cup Files]]
  /\ {n \in Temps : dir[n] # 0} \subseteq Owned \cup process.leaked

\* Whenever the power goes, the destination is absent or whole.
DestinationWhole ==
  \A f \in ({dir[Dest]} \cup disk[Dest]) \ {0} : Chunks <= Min({data[f], hard[f]})

\* What a successful commit put there, or something later, is durable in the
\* destination's directory.
CommitOutlivesPower ==
  process.barrier > 0 => \A f \in disk[Dest] : f # 0 /\ process.barrier <= rank[f]

\* Directories a thread found missing are durable once it makes its temporary.
AncestorsOutlivePower ==
  \A w \in Writers : writer[w].temp # 0 => writer[w].found \subseteq linked

\* A read returns a whole content, whatever is renamed or appended meanwhile.
ReadsAreWhole == reader.got \in {0, Chunks}

\* Documentation: a successful write is a durability barrier.
CommitIsBarrier == process.barrier > 0 => linked = 1 .. Depth

\* Together: readers see whole contents, and a commit stays, through failures,
\* kills and power losses.
WritesOutlivePower ==
  /\ FileTypeOK
  /\ DestinationWhole
  /\ CommitOutlivesPower
  /\ AncestorsOutlivePower
  /\ ReadsAreWhole
=============================================================================
