----------------------- MODULE LibraryExtractionProofs -----------------------
(***************************************************************************)
(* The extraction of the library, for any number of processes, versions    *)
(* and files: what is mapped is not written to, and who is not disturbed   *)
(* loads its own library and, on Windows, none of an earlier process.      *)
(***************************************************************************)
EXTENDS LibraryExtraction, TLAPS

\* A process that writes or compares has a file, and one that has mapped a file is
\* through.
Opened(p) == at[p] \in {"write", "compare"} => open[p] # 0
Loaded(p) == mapped[p] # 0 => at[p] = "loaded"

FileInv == LoaderTypeOK /\ \A p \in Processes : Opened(p) /\ Loaded(p)

\* The file that the name leads to is the one that p extracted.
OwnFile(p) == name # 0 /\ files[name].version = VersionOf[p]

\* How far p came, if no other did anything meanwhile.
Advanced(p) ==
    /\ at[p] \in Extracting /\ windows => \A q \in Processes : mapped[q] = 0
    /\ at[p] = "try" /\ windows => name = 0
    /\ at[p] = "create" => name = 0
    /\ at[p] = "write" => OwnFile(p) /\ open[p] = name
    /\ at[p] \in {"verify", "compare", "load"} => OwnFile(p) /\ Whole(name)
    /\ at[p] = "compare" => open[p] = name
    /\ at[p] # "failed"
    /\ mapped[p] # 0 => Whole(mapped[p]) /\ files[mapped[p]].version = VersionOf[p]

ExtractionInv == FileInv /\ \A p \in Processes \ disturbed : Advanced(p)

\* Files grow, and become more: a whole one stays what it is, any other stays of its
\* version.
FilesKept ==
    /\ Len(files') >= Len(files)
    /\ \A f \in 1..Len(files) : /\ files'[f].version = files[f].version
                                /\ Whole(f) => files'[f] = files[f]

LEMMA InitExtractionInv == Init => ExtractionInv
<1> SUFFICES ASSUME Init PROVE ExtractionInv
  OBVIOUS
<1>1. files \in Seq([version : Versions, size : 0..Size]) /\ Len(files) = 0
  BY DEF Init
<1>2. \A p \in Processes : at[p] = "out" /\ open[p] = 0 /\ mapped[p] = 0
  BY DEF Init
<1>3. LoaderTypeOK
  <2>1. name = 0 /\ windows \in Systems /\ disturbed = {} /\ 0 \in 0..0
    BY DEF Init
  <2>2. /\ at \in [Processes -> Extracting \cup Resting]
        /\ deleteOnExit \in [Processes -> BOOLEAN]
    BY DEF Init, Resting
  <2>3. open \in [Processes -> 0..0] /\ mapped \in [Processes -> 0..0]
    BY DEF Init
  <2> QED BY <1>1, <2>1, <2>2, <2>3 DEF LoaderTypeOK
<1>4. FileInv
  BY <1>2, <1>3 DEF FileInv, Opened, Loaded
<1> QED BY <1>2, <1>4 DEF ExtractionInv, Advanced, Extracting

\* What the steps do to files, whoever takes them.
LEMMA FilesStep ==
  ASSUME FileInv, NEW p \in Processes, Step(p)
  PROVE  /\ files' \in Seq([version : Versions, size : 0..Size])
         /\ FilesKept /\ name' \in 0..Len(files')
<1> DEFINE File == [version : Versions, size : 0..Size]
<1>0. /\ files \in Seq(File) /\ Len(files) \in Nat /\ name \in 0..Len(files)
      /\ open[p] \in 0..Len(files)
      /\ Size \in Nat /\ VersionOf[p] \in Versions
  BY LoaderAssumption DEF FileInv, LoaderTypeOK
<1>1. CASE UNCHANGED files /\ name' \in {0, name}
  BY <1>0, <1>1 DEF FilesKept
<1>2. CASE CopyCreates(p)
  <2> DEFINE new == [version |-> VersionOf[p], size |-> 0]
  <2>1. new \in File /\ files' = Append(files, new) /\ name' = Len(files) + 1
    BY <1>0, <1>2 DEF CopyCreates
  <2> HIDE DEF new, File
  <2>2. /\ files' \in Seq(File) /\ Len(files') = Len(files) + 1
        /\ \A f \in 1..Len(files) : files'[f] = files[f]
    BY <1>0, <2>1
  <2> QED BY <1>0, <2>1, <2>2 DEF FilesKept, File
<1>3. CASE CopyWrites(p)
  <2> DEFINE f      == open[p]
             longer == [files[f] EXCEPT !.size = @ + 1]
  <2>1. f \in 1..Len(files) /\ files[f] \in File /\ files[f].size # Size
    <3>1. at[p] = "write" /\ files[f].size # Size
      BY <1>3 DEF CopyWrites, Whole
    <3>2. f # 0
      BY <3>1 DEF FileInv, Opened
    <3> HIDE DEF f, File
    <3> QED BY <1>0, <3>1, <3>2 DEF f
  <2>2. files' = [files EXCEPT ![f] = longer] /\ name' = name
    <3>1. files' = [files EXCEPT ![open[p]].size = @ + 1] /\ name' = name
      BY <1>3 DEF CopyWrites
    <3> QED BY <2>1, <3>1
  <2>3. longer \in File /\ longer.version = files[f].version
    <3>1. files[f].version \in Versions /\ files[f].size \in 0..Size
      BY <2>1
    <3>2. files[f].size + 1 \in 0..Size
      BY <1>0, <2>1, <3>1
    <3> QED BY <2>1, <3>1, <3>2
  <2> HIDE DEF f, File, longer
  <2>4. files' \in Seq(File) /\ Len(files') = Len(files)
    BY <1>0, <2>1, <2>2, <2>3
  <2>5. \A g \in 1..Len(files) : files'[g].version = files[g].version /\ (g # f => files'[g] = files[g])
    BY <1>0, <2>1, <2>2, <2>3
  <2> QED BY <1>0, <2>1, <2>2, <2>4, <2>5 DEF FilesKept, Whole, File
<1> QED
  BY <1>1, <1>2, <1>3 DEF Step, dirVars, Start, ListDirectory, CleanPath, LoadInstalled,
     LoadFromJar, CopyDeletes, CopyFails, CopyEnds, OpenCopy, CompareCopy, LoadCopy,
     Exit, Kill, Leaves


\* What a step does to its process, and that it does nothing to the others.
ProcessMoves(p) ==
    /\ at' \in [Processes -> Extracting \cup Resting]
    /\ open' \in [Processes -> 0..Len(files')] /\ mapped' \in [Processes -> 0..Len(files')]
    /\ deleteOnExit' \in [Processes -> BOOLEAN]
    /\ \A q \in Processes \ {p} : /\ at'[q] = at[q] /\ open'[q] = open[q]
                                  /\ mapped'[q] = mapped[q]
    /\ at'[p] \in {"write", "compare"} => open'[p] # 0
    /\ mapped'[p] # 0 => at'[p] = "loaded" /\ mapped'[p] \in {mapped[p], name}

LEMMA ProcessStep ==
  ASSUME FileInv, NEW p \in Processes, Step(p)
  PROVE  ProcessMoves(p)
<1>1. /\ at \in [Processes -> Extracting \cup Resting]
      /\ open \in [Processes -> 0..Len(files)] /\ mapped \in [Processes -> 0..Len(files)]
      /\ deleteOnExit \in [Processes -> BOOLEAN]
      /\ name \in 0..Len(files) /\ Len(files) \in Nat
      /\ Opened(p) /\ Loaded(p)
  BY DEF FileInv, LoaderTypeOK
<1>2. 0..Len(files) \subseteq 0..Len(files') /\ Len(files') \in Nat
  BY <1>1, FilesStep DEF FilesKept
<1> USE <1>1, <1>2 DEF ProcessMoves, Goes, dirVars, Extracting, Resting, Opened, Loaded
<1>3. CASE Start(p)
  BY <1>3 DEF Start
<1>4. CASE ListDirectory(p)
  BY <1>4 DEF ListDirectory
<1>5. CASE CleanPath(p)
  BY <1>5 DEF CleanPath
<1>6. CASE LoadInstalled(p)
  BY <1>6 DEF LoadInstalled
<1>7. CASE LoadFromJar(p)
  BY <1>7 DEF LoadFromJar
<1>8. CASE CopyDeletes(p)
  BY <1>8 DEF CopyDeletes
<1>9. CASE CopyCreates(p)
  BY <1>9 DEF CopyCreates
<1>10. CASE CopyFails(p)
  BY <1>10 DEF CopyFails
<1>11. CASE CopyWrites(p)
  BY <1>11 DEF CopyWrites
<1>12. CASE CopyEnds(p)
  BY <1>12 DEF CopyEnds
<1>13. CASE OpenCopy(p)
  BY <1>13 DEF OpenCopy
<1>14. CASE CompareCopy(p)
  BY <1>14 DEF CompareCopy
<1>15. CASE LoadCopy(p)
  BY <1>15 DEF LoadCopy
<1>16. CASE Exit(p)
  BY <1>16 DEF Exit, Leaves
<1>17. CASE Kill(p)
  BY <1>17 DEF Kill, Leaves
<1> QED BY <1>3, <1>4, <1>5, <1>6, <1>7, <1>8, <1>9, <1>10, <1>11, <1>12, <1>13, <1>14, <1>15, <1>16, <1>17 DEF Step


LEMMA NextFileInv == FileInv /\ [Next]_loaderVars => FileInv'
<1> SUFFICES ASSUME FileInv, [Next]_loaderVars PROVE FileInv'
  OBVIOUS
<1>1. CASE UNCHANGED loaderVars
  BY <1>1 DEF loaderVars, dirVars, processVars, FileInv, LoaderTypeOK, Opened, Loaded, Whole
<1>2. ASSUME NEW p \in Processes, Step(p), Disturbs(p), UNCHANGED windows PROVE FileInv'
  <2>1. /\ files' \in Seq([version : Versions, size : 0..Size])
        /\ FilesKept /\ name' \in 0..Len(files') /\ ProcessMoves(p)
    BY <1>2, FilesStep, ProcessStep
  <2>2. /\ windows \in Systems /\ disturbed \subseteq Processes
        /\ \A q \in Processes : Opened(q) /\ Loaded(q)
    BY DEF FileInv, LoaderTypeOK
  <2>3. disturbed' \subseteq Processes /\ windows' \in Systems
    BY <1>2, <2>2 DEF Disturbs
  <2>4. LoaderTypeOK'
    BY <2>1, <2>3 DEF LoaderTypeOK, ProcessMoves
  <2>5. ASSUME NEW q \in Processes PROVE Opened(q)' /\ Loaded(q)'
    BY <2>1, <2>2 DEF ProcessMoves, Opened, Loaded
  <2> QED BY <2>4, <2>5 DEF FileInv
<1> QED BY <1>1, <1>2 DEF Next

\* What p does takes it to where Advanced has it, if nobody disturbed it.
LEMMA OwnAdvance ==
  ASSUME FileInv, FileInv', NEW p \in Processes, Step(p), UNCHANGED windows,
         at[p] = "out" => ~(windows /\ \E u \in Processes : mapped[u] # 0),
         at[p] # "out" => Advanced(p)
  PROVE  Advanced(p)'
<1>1. /\ ProcessMoves(p) /\ FilesKept
      /\ name \in 0..Len(files) /\ Len(files) \in Nat /\ mapped \in [Processes -> 0..Len(files)]
      /\ open \in [Processes -> 0..Len(files)] /\ at \in [Processes -> Extracting \cup Resting]
      /\ VersionOf[p] \in Versions /\ files \in Seq([version : Versions, size : 0..Size])
      /\ \A q \in Processes : (Loaded(q) /\ Loaded(q)')
  BY ProcessStep, FilesStep, LoaderAssumption DEF FileInv, LoaderTypeOK
\* Nobody maps anything before p loads.
<1>2. at'[p] \in Extracting /\ windows' => \A q \in Processes : mapped'[q] = 0
  <2> SUFFICES ASSUME at'[p] \in Extracting, windows PROVE \A q \in Processes : mapped'[q] = 0
    OBVIOUS
  <2>1. at[p] \in Extracting \cup {"out"}
    <3>1. at[p] \in {"loaded", "failed"} => Exit(p) \/ Kill(p)
      BY DEF Step, Goes, Start, ListDirectory, CleanPath, LoadInstalled, LoadFromJar, CopyDeletes,
         CopyCreates, CopyFails, CopyWrites, CopyEnds, OpenCopy, CompareCopy, LoadCopy
    <3>2. Exit(p) \/ Kill(p) => at'[p] = "out"
      BY <1>1 DEF Exit, Kill, Leaves
    <3> QED BY <1>1, <3>1, <3>2 DEF Extracting, Resting
  <2>2. \A q \in Processes : mapped[q] = 0
    BY <2>1 DEF Advanced, Extracting
  <2>3. mapped'[p] = 0
    BY <1>1 DEF Loaded, Extracting
  <2> QED BY <1>1, <2>2, <2>3 DEF ProcessMoves
<1> USE <1>1, <1>2 DEF Goes, dirVars, Extracting, Resting, Advanced, OwnFile, Whole
<1>3. CASE Start(p)
  BY <1>3 DEF Start, Loaded
<1>4. CASE ListDirectory(p)
  BY <1>4 DEF ListDirectory, Loaded
<1>5. CASE CleanPath(p)
  <2>1. windows => name' = 0
    BY <1>5 DEF CleanPath, Deletable
  <2> QED BY <1>5, <2>1 DEF CleanPath, Loaded
<1>6. CASE LoadInstalled(p)
  BY <1>6 DEF LoadInstalled, Loaded
<1>7. CASE LoadFromJar(p)
  BY <1>7 DEF LoadFromJar, Loaded
<1>8. CASE CopyDeletes(p)
  BY <1>8 DEF CopyDeletes, Loaded
<1>9. CASE CopyCreates(p)
  <2>1. /\ name' = Len(files) + 1 /\ files'[name'].version = VersionOf[p] /\ open'[p] = name'
        /\ at'[p] = "write" /\ mapped' = mapped /\ at[p] = "create"
    BY <1>9 DEF CopyCreates
  <2> QED BY <2>1 DEF Loaded
<1>10. CASE CopyFails(p)
  BY <1>10 DEF CopyFails, Deletable
<1>11. CASE CopyWrites(p)
  <2>1. at[p] = "write" /\ at'[p] = "write" /\ name' = name /\ open' = open
    BY <1>11 DEF CopyWrites
  <2>2. files'[name].version = VersionOf[p] /\ name # 0 /\ open[p] = name
    BY <2>1 DEF FilesKept
  <2>3. mapped'[p] = 0
    BY <2>1 DEF Loaded
  <2> QED BY <2>1, <2>2, <2>3
<1>12. CASE CopyEnds(p)
  BY <1>12 DEF CopyEnds, Loaded
<1>13. CASE OpenCopy(p)
  BY <1>13 DEF OpenCopy, Loaded
<1>14. CASE CompareCopy(p)
  BY <1>14 DEF CompareCopy, Loaded
<1>15. CASE LoadCopy(p)
  <2>1. PICK loads \in LoadOutcomes :
          /\ Goes(p, "load", IF loads THEN "loaded" ELSE "failed")
          /\ mapped' = [mapped EXCEPT ![p] = IF loads THEN name ELSE 0]
          /\ UNCHANGED <<dirVars, open, deleteOnExit>>
    BY <1>15 DEF LoadCopy
  <2>2. OwnFile(p) /\ Whole(name) /\ loads
    BY <2>1 DEF LoadOutcomes
  <2> QED BY <2>1, <2>2 DEF Loaded
<1>16. CASE Exit(p) \/ Kill(p)
  BY <1>16 DEF Exit, Kill, Leaves
<1> QED BY <1>3, <1>4, <1>5, <1>6, <1>7, <1>8, <1>9, <1>10, <1>11, <1>12, <1>13, <1>14, <1>15,
           <1>16 DEF Step

LEMMA NextExtractionInv == ExtractionInv /\ [Next]_loaderVars => ExtractionInv'
<1> SUFFICES ASSUME ExtractionInv, [Next]_loaderVars PROVE ExtractionInv'
  OBVIOUS
<1>1. FileInv /\ FileInv'
  BY NextFileInv DEF ExtractionInv
<1>2. CASE UNCHANGED loaderVars
  BY <1>1, <1>2 DEF loaderVars, dirVars, processVars, ExtractionInv, Advanced, OwnFile, Whole
<1>3. ASSUME NEW p \in Processes, Step(p), Disturbs(p), UNCHANGED windows,
             NEW q \in Processes, q \notin disturbed'
      PROVE  Advanced(q)'
  <2>1. q \notin disturbed \/ at'[q] = "out"
    BY <1>3 DEF Disturbs
  <2>2. ProcessMoves(p) /\ FilesKept
    BY <1>1, <1>3, ProcessStep, FilesStep
  <2>3. CASE at'[q] = "out"
    BY <1>1, <2>3 DEF FileInv, Loaded, Advanced, Extracting
  <2>4. CASE at'[q] # "out" /\ q = p
    <3>1. at[p] = "out" => ~(windows /\ \E u \in Processes : mapped[u] # 0)
      BY <1>3, <2>4 DEF Disturbs
    <3>2. Advanced(p)
      BY <2>1, <2>4 DEF ExtractionInv
    <3> QED BY <1>1, <1>3, <2>4, <3>1, <3>2, OwnAdvance
  <2>5. CASE at'[q] # "out" /\ q # p
    <3>1. at[q] \notin Extracting
      BY <1>3, <2>5 DEF Disturbs
    <3>2. at'[q] = at[q] /\ mapped'[q] = mapped[q] /\ Advanced(q)
      BY <2>1, <2>2, <2>5 DEF ExtractionInv, ProcessMoves
    <3>3. mapped[q] \in 0..Len(files)
      BY <1>1 DEF FileInv, LoaderTypeOK
    <3>4. mapped[q] # 0 => /\ files'[mapped[q]].version = VersionOf[q]
                           /\ files'[mapped[q]].size = Size
      BY <2>2, <3>2, <3>3 DEF FilesKept, Advanced, Whole
    <3> QED BY <3>1, <3>2, <3>4 DEF Advanced, Extracting, Whole
  <2> QED BY <2>3, <2>4, <2>5
<1> QED BY <1>1, <1>2, <1>3 DEF Next, ExtractionInv

-----------------------------------------------------------------------------
LEMMA ExtractionInvHolds == Spec => []ExtractionInv
BY InitExtractionInv, NextExtractionInv, PTL DEF Spec

\* Files and processes keep their types: no name leads to a file that never was, and
\* no file grows beyond what is in the jar.
THEOREM LoaderTypeCorrect == Spec => []LoaderTypeOK
<1>1. ExtractionInv => LoaderTypeOK
  BY DEF ExtractionInv, FileInv
<1> QED BY <1>1, ExtractionInvHolds, PTL

\* However many processes replace the file of that name, and with whatever versions,
\* a whole library that is mapped stays what was loaded.
THEOREM MappedStaysWhatItWas == Spec => MappedIsNotWritten
<1>1. ExtractionInv /\ [Next]_loaderVars =>
        [\A p \in Processes :
            mapped[p] # 0 /\ Whole(mapped[p]) /\ mapped'[p] # 0 =>
                files'[mapped'[p]] = files[mapped[p]]]_loaderVars
  <2> SUFFICES ASSUME FileInv, Next, NEW p \in Processes,
                      mapped[p] # 0, Whole(mapped[p]), mapped'[p] # 0
               PROVE  files'[mapped'[p]] = files[mapped[p]]
    BY DEF ExtractionInv
  <2>1. PICK q \in Processes : Step(q)
    BY DEF Next
  <2>2. /\ mapped[p] \in 1..Len(files) /\ Whole(mapped[p]) /\ at[p] = "loaded"
        /\ FilesKept /\ ProcessMoves(q)
    <3>1. mapped[p] \in 0..Len(files) /\ Len(files) \in Nat /\ Loaded(p)
      BY DEF FileInv, LoaderTypeOK
    <3> QED BY <2>1, <3>1, FilesStep, ProcessStep DEF Loaded
  \* Only an exit or a kill takes a mapping away, and only one that is extracting maps.
  <2>3. mapped'[p] = mapped[p]
    <3>1. CASE q # p
      BY <2>2, <3>1 DEF ProcessMoves
    <3>2. CASE q = p
      <4>1. mapped \in [Processes -> 0..Len(files)]
        BY DEF FileInv, LoaderTypeOK
      <4> QED
        BY <2>1, <2>2, <3>2, <4>1 DEF Step, Goes, Start, ListDirectory, CleanPath, LoadInstalled,
           LoadFromJar, CopyDeletes, CopyCreates, CopyFails, CopyWrites, CopyEnds, OpenCopy,
           CompareCopy, LoadCopy, Exit, Kill, Leaves
    <3> QED BY <3>1, <3>2
  <2> QED BY <2>2, <2>3 DEF FilesKept
<1> QED BY <1>1, ExtractionInvHolds, PTL DEF Spec, MappedIsNotWritten

\* A process that no other disturbs never fails, and what it loads is the library of
\* its own jar, whatever was left under the name.
THEOREM UndisturbedProcessesLoad == Spec => []UndisturbedLoads
<1>1. ExtractionInv => UndisturbedLoads
  BY DEF ExtractionInv, Advanced, UndisturbedLoads
<1> QED BY <1>1, ExtractionInvHolds, PTL

\* On Windows, a process that no other disturbs finds no library of an earlier one
\* when it comes to look for its own.
THEOREM CleanupLeavesNone == Spec => []CleanupDeletesOld
<1>1. ExtractionInv => CleanupDeletesOld
  BY DEF ExtractionInv, Advanced, CleanupDeletesOld
<1> QED BY <1>1, ExtractionInvHolds, PTL
=============================================================================
