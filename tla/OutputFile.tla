----------------------------- MODULE OutputFile -----------------------------
(***************************************************************************)
(* One file this server writes for a caller: a screenshot, or the GIF of a *)
(* recording (outputUnder and writeUnder of internal/tools/confine.go with *)
(* their callers in debug.go and screencast.go).  The file goes into an    *)
(* output directory inside the work directory.  The work directory is      *)
(* opened once, as an os.Root, and other programs may move it and replace  *)
(* its output directory by links between any two system calls, which for a *)
(* recording are minutes apart.  This server may be killed at any moment.  *)
(*                                                                         *)
(* Places are the directories a file can land in: the output directory of  *)
(* either of the two directories that can have the work directory's name,  *)
(* one of this server's own directories inside the work directory          *)
(* ("server"), and one outside it ("outside").                             *)
(***************************************************************************)
EXTENDS Naturals

CONSTANTS MaxChanges   (* bound: changes other programs make                 *)

ASSUME OutputFileAssumption == MaxChanges \in Nat

Roots == {"work", "other"}
Places == Roots \cup {"server", "outside"}
\* What the output directory's name is: nothing, a directory, or a link: to
\* another place, to a missing directory of this server's own, or to a missing
\* one by way of "..".
Entries == {"none", "dir", "toServer", "toOutside", "dangling", "climbing"}
Nowhere == "nowhere"

VARIABLES
    filePc,      \* the call: "idle", "name", "open", "cast", the steps of writeUnder, or its end
    caller,    \* the tool: "shot", or "cast" with a file the caller named
    root,    \* the directory the root was opened on
    real,    \* what EvalSymlinks made of the output directory: a place
    tmp,     \* the place of the temporary file it made, or Nowhere
    tries,   \* temporary names found taken
    fileResult,  \* "none", "ok", "refused" (by the rules), "failed" (input or output)
    at,      \* which directory the work directory's path names
    entry,   \* what the output directory is in each of the two
    partial, \* the temporary file in each place: "none", "part", "whole"
    final,   \* the file under its final name in each: "none", "old", "linked", "part", "whole"
    theirs,  \* is the file another one is hard-linked to as it was?
    changes, \* changes other programs have made
    settled  \* has nothing changed since the directory was compared?

callVars == <<filePc, caller, root, real, tmp, tries, fileResult>>
diskVars == <<entry, partial, final, theirs>>
worldVars == <<at, changes, settled>>
fileVars == <<callVars, diskVars, worldVars>>

FileInit ==
    /\ filePc = "idle" /\ caller = "shot" /\ root = Nowhere /\ real = Nowhere /\ tmp = Nowhere
    /\ tries = 0 /\ fileResult = "none"
    /\ at = "work"
    /\ entry \in [Roots -> Entries] /\ entry["other"] # "toServer"
    /\ partial = [p \in Places |-> "none"]
    /\ \E was \in {"none", "old", "linked"} : final = [p \in Places |-> was]
    /\ theirs = TRUE
    /\ changes = 0 /\ settled = FALSE

\* Where a name in directory d leads, following links.
Lands(d) ==
    CASE d = Nowhere -> Nowhere
      [] entry[d] = "dir" -> d
      [] entry[d] = "toServer" -> "server"
      [] entry[d] = "toOutside" -> "outside"
      [] OTHER -> Nowhere

ByPath == Lands(at)

\* Through the root no link leads out of the directory it was opened on.
InsideRoot(d) == {d} \cup (IF d = "work" THEN {"server"} ELSE {})

ThroughRoot == IF Lands(root) \in InsideRoot(root) THEN Lands(root) ELSE Nowhere

-----------------------------------------------------------------------------
(* Judgements *)

\* resolveExisting: a directory that is missing is where it would be made, a
\* dangling link is its target, and one that climbs is not followed.
Trusted == at # Nowhere => entry[at] # "climbing"

WouldLand ==
    IF at = Nowhere \/ entry[at] = "none" THEN at
    ELSE IF entry[at] = "dangling" THEN "server" ELSE ByPath

\* The Local policy of the path judgement (external), which walks the path anew.
Protected(place) == place = "server" \/ ByPath = "server"

EndWrite(r) ==
    /\ filePc' = "done" /\ fileResult' = r
    /\ UNCHANGED <<caller, root, real, tmp, tries>>

Go(label) == filePc' = label /\ UNCHANGED <<caller, root, real, tmp, tries, fileResult>>

-----------------------------------------------------------------------------
(* The callers *)

\* The work directory is resolved, or refused.
Begin(k) ==
    /\ filePc = "idle" /\ at # Nowhere
    /\ caller' = k
    /\ \/ filePc' = (IF k = "cast" THEN "name" ELSE "open") /\ UNCHANGED fileResult
       \/ filePc' = "done" /\ fileResult' = "refused"
    /\ UNCHANGED <<root, real, tmp, tries, diskVars, worldVars>>

\* outputUnder, for a file the caller named.
OutputUnder ==
    /\ filePc = "name"
    /\ IF Trusted /\ WouldLand \in Roots /\ ~Protected(WouldLand) THEN Go("open") ELSE EndWrite("refused")
    /\ UNCHANGED <<diskVars, worldVars>>

OpenRoot ==
    /\ filePc = "open"
    /\ IF at = Nowhere THEN EndWrite("failed")
       ELSE /\ root' = at
            /\ filePc' = IF caller = "cast" THEN "cast" ELSE "where"
            /\ UNCHANGED <<caller, real, tmp, tries, fileResult>>
    /\ UNCHANGED <<diskVars, worldVars>>

\* The recording ends, or is given up for an error of Chrome.
StopCast ==
    /\ filePc = "cast"
    /\ Go("where") \/ EndWrite("failed")
    /\ UNCHANGED <<diskVars, worldVars>>

-----------------------------------------------------------------------------
(* writeUnder *)

JudgeBefore ==
    /\ filePc = "where"
    /\ IF Trusted /\ ~Protected(WouldLand) THEN Go("mkdir") ELSE EndWrite("refused")
    /\ UNCHANGED <<diskVars, worldVars>>

MkdirAll ==
    /\ filePc = "mkdir"
    /\ \/ /\ entry[root] = "none"
          /\ entry' = [entry EXCEPT ![root] = "dir"]
          /\ Go("resolve")
       \/ ThroughRoot # Nowhere /\ Go("resolve") /\ UNCHANGED entry
       \/ EndWrite("failed") /\ UNCHANGED entry
    /\ UNCHANGED <<partial, final, theirs, worldVars>>

EvalSymlinks ==
    /\ filePc = "resolve"
    /\ IF ByPath = Nowhere THEN EndWrite("refused")
       ELSE /\ real' = ByPath /\ filePc' = "same"
            /\ UNCHANGED <<caller, root, tmp, tries, fileResult>>
    /\ UNCHANGED <<diskVars, worldVars>>

\* What the resolved path names now: it is still a path.
StatReal ==
    CASE real = "outside" -> "outside"
      [] real = "server" -> IF at = "work" THEN "server" ELSE Nowhere
      [] OTHER -> ByPath

\* Variant: any two directories will do.
Reachable == ThroughRoot # Nowhere

SameFile == ThroughRoot # Nowhere /\ StatReal = ThroughRoot

Compare ==
    /\ filePc = "same"
    /\ IF SameFile THEN Go("judge") ELSE EndWrite("refused")
    /\ settled' = TRUE
    /\ UNCHANGED <<diskVars, at, changes>>

JudgeAfter ==
    /\ filePc = "judge"
    /\ IF Protected(real) THEN EndWrite("refused") ELSE Go("create")
    /\ UNCHANGED <<diskVars, worldVars>>

\* Variant: the file is made by its path.
MadeByPath == ByPath

MadeIn == ThroughRoot

\* createExclusive gives up after four names that are taken.
Taken ==
    /\ filePc = "create"
    /\ tries' = tries + 1
    /\ IF tries' = 4 THEN filePc' = "done" /\ fileResult' = "failed" ELSE UNCHANGED <<filePc, fileResult>>
    /\ UNCHANGED <<caller, root, real, tmp, diskVars, worldVars>>

\* Variant: the file is made under its final name, over what is there.
InPlace(p) ==
    /\ final' = [final EXCEPT ![p] = "part"]
    /\ theirs' = (theirs /\ final[p] # "linked")
    /\ UNCHANGED partial

Exclusive(p) == partial' = [partial EXCEPT ![p] = "part"] /\ UNCHANGED <<final, theirs>>

CreateExclusive ==
    /\ filePc = "create" /\ MadeIn # Nowhere
    /\ Exclusive(MadeIn)
    /\ tmp' = MadeIn /\ filePc' = "write"
    /\ UNCHANGED <<caller, root, real, tries, fileResult, entry, worldVars>>

CreateFails ==
    /\ filePc = "create"
    /\ EndWrite("failed")
    /\ UNCHANGED <<diskVars, worldVars>>

\* The whole file goes to the open handle, and is closed.
Write ==
    /\ filePc = "write"
    /\ partial' = [partial EXCEPT ![tmp] = "whole"]
    /\ Go("rename")
    /\ UNCHANGED <<entry, final, theirs, worldVars>>

Fails(label) ==
    /\ filePc = label
    /\ Go("remove")
    /\ UNCHANGED <<diskVars, worldVars>>

\* Both names are looked up through the root: the temporary file may be out of
\* its reach by now.
Rename ==
    /\ filePc = "rename" /\ tmp = ThroughRoot
    /\ final' = [final EXCEPT ![tmp] = partial[tmp]]
    /\ partial' = [partial EXCEPT ![tmp] = "none"]
    /\ EndWrite("ok")
    /\ UNCHANGED <<entry, theirs, worldVars>>

\* Variant: a file that could not be placed is left.
LeaveTmp == UNCHANGED partial

RemoveTmp == partial' = IF tmp = ThroughRoot THEN [partial EXCEPT ![tmp] = "none"] ELSE partial

RemovePartial ==
    /\ filePc = "remove"
    /\ RemoveTmp
    /\ EndWrite("failed")
    /\ UNCHANGED <<entry, final, theirs, worldVars>>

-----------------------------------------------------------------------------
(* Others *)

Change ==
    /\ changes < MaxChanges
    /\ changes' = changes + 1
    /\ settled' = FALSE

\* The work directory is moved away, or another one takes its name.
Move(d) ==
    /\ d # at
    /\ at' = d
    /\ Change
    /\ UNCHANGED <<callVars, diskVars>>

\* The output directory is moved away, or replaced by a link.
Relink(d, e) ==
    /\ e # entry[d] /\ (e = "toServer" => d = "work")
    /\ entry' = [entry EXCEPT ![d] = e]
    /\ Change
    /\ UNCHANGED <<callVars, at, partial, final, theirs>>

\* This process is killed.
Crash ==
    /\ filePc \notin {"idle", "done", "crashed"}
    /\ Go("crashed")
    /\ UNCHANGED <<diskVars, worldVars>>

WriteUnder ==
    \/ JudgeBefore \/ MkdirAll \/ EvalSymlinks \/ Compare \/ JudgeAfter
    \/ Taken \/ CreateExclusive \/ CreateFails \/ Write \/ Rename \/ RemovePartial
    \/ Fails("write") \/ Fails("rename")

FileNext ==
    \/ \E k \in {"shot", "cast"} : Begin(k)
    \/ OutputUnder \/ OpenRoot \/ StopCast
    \/ WriteUnder
    \/ \E d \in Roots \cup {Nowhere} : Move(d)
    \/ \E d \in Roots, e \in Entries : Relink(d, e)
    \/ Crash

FileSpec == FileInit /\ [][FileNext]_fileVars

-----------------------------------------------------------------------------
(* Properties *)

FileTypeOK ==
    /\ root \in Roots \cup {Nowhere} /\ at \in Roots \cup {Nowhere}
    /\ real \in Places \cup {Nowhere} /\ tmp \in Places \cup {Nowhere}
    /\ tries \in 0..4
    /\ fileResult \in {"none", "ok", "refused", "failed"}
    /\ entry \in [Roots -> Entries]
    /\ partial \in [Places -> {"none", "part", "whole"}]
    /\ final \in [Places -> {"none", "old", "linked", "part", "whole"}]
    /\ theirs \in BOOLEAN /\ settled \in BOOLEAN /\ changes \in 0..MaxChanges

Made == {p \in Places : partial[p] # "none" \/ final[p] \in {"part", "whole"}}

\* However directories are moved and links put in the way, between any two
\* steps, what this server writes lies in the directory its root was opened on
\* (writeUnder works through an os.Root alone).
StaysInRoot == Made # {} => Made \subseteq InsideRoot(root)

\* Under the final name there is at any moment, a crash included, what was there
\* before or the whole new file, and a file somebody linked there is replaced,
\* never written through (writeUnder: a temporary name, then a rename).
TargetIsWhole ==
    /\ theirs
    /\ \A p \in Places : final[p] # "part"

\* A call that comes back, whichever of its steps failed, leaves no temporary
\* file, unless its directory was taken from under it (writeUnder).
NothingLeftBehind == filePc = "done" /\ settled => \A p \in Places : partial[p] = "none"

\* The path a call reports is where the file is, and not one of this server's
\* own directories: unless something moved since the comparison (writeUnder
\* compares the directory the root reaches with the one the path names).
LandsWhereReported ==
    fileResult = "ok" /\ settled => ByPath \in Roots /\ final[ByPath] = "whole"
=============================================================================
