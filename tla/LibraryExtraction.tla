-------------------------- MODULE LibraryExtraction --------------------------
(***************************************************************************)
(* LlamaLoader.java: processes that extract the native library from their  *)
(* jar to one name in one temporary directory, compare it with the jar and *)
(* load it. The processes may have different versions of the jar.          *)
(*                                                                         *)
(* A name leads to a file or to none, and a deleted file lives on for      *)
(* those who have it open or mapped; on Windows what is mapped cannot be   *)
(* deleted. Files.copy with REPLACE_EXISTING deletes the name, creates a   *)
(* new file (which fails if the name is there again) and writes it.        *)
(* initialize() is synchronized, so a process extracts once; the Metal     *)
(* file of macOS is left out.                                              *)
(***************************************************************************)
EXTENDS Naturals, Sequences

CONSTANTS
    Processes,      \* the JVMs
    Versions,       \* versions of the library
    VersionOf,      \* the one in the jar of each process
    Systems,        \* whether it is Windows: jllama.dll cannot be deleted while
                    \* it is mapped
    Size,           \* the writes that make a whole file
    MaxFiles        \* bound: files created

ASSUME LoaderAssumption ==
    /\ VersionOf \in [Processes -> Versions] /\ Systems \subseteq BOOLEAN
    /\ Size \in Nat \ {0} /\ MaxFiles \in Nat

VARIABLES
    windows,        \* one of Systems
    files,          \* all files ever created: their version and size
    name,           \* the file the name leads to, 0 for none
    at,             \* how far each process is in initialize()
    open,           \* the file it writes or compares, 0 for none
    mapped,         \* the file it has loaded
    deleteOnExit,   \* it is to delete the name when it exits
    disturbed       \* those that another did something to while they extracted

dirVars    == <<files, name>>
processVars == <<at, open, mapped, deleteOnExit>>
loaderVars == <<windows, dirVars, processVars, disturbed>>

Extracting == {"list", "clean", "try", "replace", "create", "write", "verify",
               "compare", "load"}
Resting    == {"out", "loaded", "failed"}

LoaderTypeOK ==
    /\ windows \in Systems /\ disturbed \subseteq Processes
    /\ files \in Seq([version : Versions, size : 0..Size])
    /\ name \in 0..Len(files)
    /\ at \in [Processes -> Extracting \cup Resting]
    /\ open \in [Processes -> 0..Len(files)]
    /\ mapped \in [Processes -> 0..Len(files)]
    /\ deleteOnExit \in [Processes -> BOOLEAN]

Init ==
    /\ windows \in Systems /\ disturbed = {}
    /\ files = <<>> /\ name = 0
    /\ at = [p \in Processes |-> "out"]
    /\ open = [p \in Processes |-> 0] /\ mapped = [p \in Processes |-> 0]
    /\ deleteOnExit = [p \in Processes |-> FALSE]

Goes(p, from, to) == at[p] = from /\ at' = [at EXCEPT ![p] = to]

Whole(f) == files[f].size = Size

\* The name, if it can be deleted.
Deletable == ~(windows /\ name # 0 /\ \E q \in Processes : mapped[q] = name)

-----------------------------------------------------------------------------
(* initialize() and cleanup().                                              *)

Start(p) ==
    /\ Goes(p, "out", "list")
    /\ UNCHANGED <<dirVars, open, mapped, deleteOnExit>>

\* Mutant: only "llama" is cleaned.
ListMisses(p) ==
    /\ Goes(p, "list", "try")
    /\ UNCHANGED <<dirVars, open, mapped, deleteOnExit>>

\* Files.list and shouldCleanPath: a libjllama.so does not begin with "jllama".
ListDirectory(p) ==
    /\ Goes(p, "list", IF windows /\ name # 0 THEN "clean" ELSE "try")
    /\ UNCHANGED <<dirVars, open, mapped, deleteOnExit>>

\* Files.delete; that it cannot, or that the name is gone, is only printed.
CleanPath(p) ==
    /\ Goes(p, "clean", "try")
    /\ name' = IF Deletable THEN 0 ELSE name
    /\ UNCHANGED <<files, open, mapped, deleteOnExit>>

-----------------------------------------------------------------------------
(* loadNativeLibrary(String).                                               *)

\* The library lies in lib.path or java.library.path: nothing is extracted.
LoadInstalled(p) ==
    /\ Goes(p, "try", "loaded")
    /\ UNCHANGED <<dirVars, open, mapped, deleteOnExit>>

LoadFromJar(p) ==
    /\ Goes(p, "try", "replace")
    /\ UNCHANGED <<dirVars, open, mapped, deleteOnExit>>

\* Files.copy: deleteIfExists.
CopyDeletes(p) ==
    /\ Deletable
    /\ Goes(p, "replace", "create")
    /\ name' = 0
    /\ UNCHANGED <<files, open, mapped, deleteOnExit>>

\* Mutant: a file of that name is written over.
CopyTruncates(p) ==
    LET f == IF name = 0 THEN Len(files) + 1 ELSE name IN
    /\ f <= MaxFiles
    /\ Goes(p, "create", "write")
    /\ files' = IF name = 0 THEN Append(files, [version |-> VersionOf[p], size |-> 0])
                ELSE [files EXCEPT ![name] = [version |-> VersionOf[p], size |-> 0]]
    /\ name' = f
    /\ open' = [open EXCEPT ![p] = f]
    /\ UNCHANGED <<mapped, deleteOnExit>>

\* Files.copy: the new file.
CopyCreates(p) ==
    /\ name = 0 /\ Len(files) < MaxFiles
    /\ Goes(p, "create", "write")
    /\ files' = Append(files, [version |-> VersionOf[p], size |-> 0])
    /\ name' = Len(files) + 1
    /\ open' = [open EXCEPT ![p] = Len(files) + 1]
    /\ UNCHANGED <<mapped, deleteOnExit>>

\* The name cannot be deleted, or is there again. The finally clause registers it
\* for deletion all the same.
CopyFails(p) ==
    /\ \/ ~Deletable /\ Goes(p, "replace", "failed")
       \/ name # 0 /\ Goes(p, "create", "failed")
    /\ deleteOnExit' = [deleteOnExit EXCEPT ![p] = TRUE]
    /\ UNCHANGED <<dirVars, open, mapped>>

\* Mutant: one block too many.
CopyWritesTooMuch(p) ==
    /\ at[p] = "write" /\ files[open[p]].size <= Size
    /\ files' = [files EXCEPT ![open[p]].size = @ + 1]
    /\ UNCHANGED <<name, at, open, mapped, deleteOnExit>>

CopyWrites(p) ==
    /\ at[p] = "write" /\ ~Whole(open[p])
    /\ files' = [files EXCEPT ![open[p]].size = @ + 1]
    /\ UNCHANGED <<name, at, open, mapped, deleteOnExit>>

\* Mutant: the copy may end early.
CopyEndsEarly(p) ==
    /\ Goes(p, "write", "verify")
    /\ open' = [open EXCEPT ![p] = 0]
    /\ deleteOnExit' = [deleteOnExit EXCEPT ![p] = TRUE]
    /\ UNCHANGED <<dirVars, mapped>>

CopyEnds(p) ==
    /\ Goes(p, "write", "verify") /\ Whole(open[p])
    /\ open' = [open EXCEPT ![p] = 0]
    /\ deleteOnExit' = [deleteOnExit EXCEPT ![p] = TRUE]
    /\ UNCHANGED <<dirVars, mapped>>

\* Files.newInputStream of the name, which leads to whatever is there now.
OpenCopy(p) ==
    /\ Goes(p, "verify", IF name = 0 THEN "failed" ELSE "compare")
    /\ open' = [open EXCEPT ![p] = name]
    /\ UNCHANGED <<dirVars, mapped, deleteOnExit>>

\* contentsEquals; otherwise a RuntimeException leaves initialize().
CompareCopy(p) ==
    /\ Goes(p, "compare",
            IF Whole(open[p]) /\ files[open[p]].version = VersionOf[p]
            THEN "load" ELSE "failed")
    /\ open' = [open EXCEPT ![p] = 0]
    /\ UNCHANGED <<dirVars, mapped, deleteOnExit>>

\* What System.load may do: whether it takes a file that is not whole is up to the
\* system.
LoadOutcomes == IF name = 0 THEN {FALSE} ELSE IF Whole(name) THEN {TRUE} ELSE BOOLEAN

\* Files.exists and System.load, by name again.
LoadCopy(p) ==
    \E loads \in LoadOutcomes :
        /\ Goes(p, "load", IF loads THEN "loaded" ELSE "failed")
        /\ mapped' = [mapped EXCEPT ![p] = IF loads THEN name ELSE 0]
        /\ UNCHANGED <<dirVars, open, deleteOnExit>>

-----------------------------------------------------------------------------
(* The end of a process.                                                    *)

Leaves(p) ==
    /\ at[p] # "out"
    /\ at' = [at EXCEPT ![p] = "out"]
    /\ open' = [open EXCEPT ![p] = 0] /\ mapped' = [mapped EXCEPT ![p] = 0]
    /\ deleteOnExit' = [deleteOnExit EXCEPT ![p] = FALSE]
    /\ UNCHANGED files

Exit(p) ==
    /\ at[p] \in {"loaded", "failed"}
    /\ Leaves(p)
    /\ name' = IF deleteOnExit[p] /\ Deletable THEN 0 ELSE name

\* Killed anywhere, it leaves its file behind as it is.
Kill(p) == Leaves(p) /\ UNCHANGED name

\* What a process does disturbs all others that are extracting. On Windows those
\* who have a library mapped disturb one that starts.
Disturbs(p) ==
    disturbed' =
        (disturbed \ {q \in Processes : at'[q] = "out"})
            \cup {q \in Processes \ {p} : at[q] \in Extracting}
            \cup {q \in {p} : windows /\ at[q] = "out"
                              /\ \E u \in Processes : mapped[u] # 0}

Step(p) ==
    \/ Start(p) \/ ListDirectory(p) \/ CleanPath(p)
    \/ LoadInstalled(p) \/ LoadFromJar(p)
    \/ CopyDeletes(p) \/ CopyCreates(p) \/ CopyFails(p)
    \/ CopyWrites(p) \/ CopyEnds(p)
    \/ OpenCopy(p) \/ CompareCopy(p) \/ LoadCopy(p)
    \/ Exit(p) \/ Kill(p)

Next == \E p \in Processes : Step(p) /\ Disturbs(p) /\ UNCHANGED windows

Spec == Init /\ [][Next]_loaderVars

-----------------------------------------------------------------------------
(* Properties.                                                              *)

\* A whole library that a process has loaded is never written to, however many others
\* replace the file of that name: what is mapped stays what was loaded. (One that
\* another still writes, if the system loads it, becomes whole underneath.)
MappedIsNotWritten ==
    [][\A p \in Processes :
        mapped[p] # 0 /\ Whole(mapped[p]) /\ mapped'[p] # 0 =>
            files'[mapped'[p]] = files[mapped[p]]]_loaderVars

\* A process loads the whole library of its own jar if no other did anything while it
\* extracted, whatever whole, partial or other files exited, killed or halted
\* processes left under the name, and by one that still has them mapped (except
\* on Windows).
UndisturbedLoads ==
    \A p \in Processes \ disturbed :
        /\ at[p] # "failed"
        /\ mapped[p] # 0 => Whole(mapped[p]) /\ files[mapped[p]].version = VersionOf[p]

\* "Deleted old native libraries": when such a process comes to look for its
\* library, none of an earlier one is left (on Windows; elsewhere the name begins
\* with "lib", and nothing is cleaned).
CleanupDeletesOld ==
    \A p \in Processes \ disturbed : windows /\ at[p] = "try" => name = 0
=============================================================================
