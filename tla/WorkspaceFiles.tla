--------------------------- MODULE WorkspaceFiles ---------------------------
(* The files of the workspace and the operations that change them: the     *)
(* workspace_patch and workspace_delete tools, which resolve, read, check  *)
(* and replace a file in separate system calls, and the memory writer,     *)
(* which appends a note to a daily or a curated file.  The owner of the    *)
(* workspace edits the same files with an editor between any two of those  *)
(* calls; nothing locks them.  Event processing is sequential, so at most  *)
(* one operation of the process is under way.  A file is a sequence of     *)
(* lines; a tool names it by a path, which may lead to it through symbolic *)
(* links.                                                                  *)
EXTENDS Naturals, Sequences, SequencesExt

CONSTANTS Files,        \* names out of AllFiles
          Disk0,        \* what the owner has put there at first
          Alias,        \* other paths and the file each leads to
          SymbolicLinks, \* those of them whose last part is a link
          MaxLines,     \* lines of a file the tools take; 256 KiB in the code
          OwnerLines,   \* lines the owner writes
          Notes,        \* lines the process writes, one per event
          MaxTrouble    \* bound on edits, failing writes and lost runs together

AllFiles == {"SOUL.md", "HEARTBEAT.md", "memory/public/MEMORY.md",
             "memory/private/MEMORY.md", "memory/public/daily", "memory/private/daily"}

Outside == "outside"                   \* a file out of the workspace
RuntimeFile == "runtime/simiclaw.db"   \* the database and its directory

ASSUME WorkspaceAssumption ==
    /\ Files \subseteq AllFiles
    /\ \A p \in DOMAIN Alias : Alias[p] \in Files \cup {Outside, RuntimeFile}
    /\ SymbolicLinks \subseteq DOMAIN Alias
    /\ MaxLines \in Nat
    /\ MaxTrouble \in Nat

Header == "# Curated Memory"
Lines == OwnerLines \cup Notes \cup {Header}
Missing == [exists |-> FALSE, lines |-> <<>>]
Holding(lines) == [exists |-> TRUE, lines |-> lines]

VARIABLES disk,       \* contents of the files
          op,         \* the operation of the process under way
          trouble,    \* edits, failing writes and lost runs so far
          kept,       \* history: the lines put in a file that nobody asked to remove,
                      \* those saved while a replacement was under way left out
          written,    \* history: the notes that reached their file
          disturbed   \* history: the notes whose write met a fault or an edit

filesVars == <<disk, op, trouble, kept, written, disturbed>>

NoCall == [tool |-> "none", file |-> "none", old |-> "none", create |-> FALSE, keep |-> FALSE]
NoOp == [pc |-> "idle", call |-> NoCall, note |-> "none", content |-> <<>>]

FilesInit ==
    /\ disk = Disk0 /\ op = NoOp
    /\ trouble = 0
    /\ kept = [f \in Files |-> ToSet(Disk0[f].lines)]
    /\ written = {} /\ disturbed = {}

Goes(pc) == op' = [op EXCEPT !.pc = pc]
Ends == op' = NoOp
Trouble == trouble < MaxTrouble /\ trouble' = trouble + 1

(* Tools. *)

BeginOp(pc, call, note) ==
    /\ op = NoOp
    /\ op' = [pc |-> pc, call |-> call, note |-> note, content |-> <<>>]

PrivateMemoryPath(f) == f \in {"memory/private/MEMORY.md", "memory/private/daily"}

\* resolveEffectivePath: the file a path leads to.
EffectivePath(path) == IF path \in DOMAIN Alias THEN Alias[path] ELSE path

Target == EffectivePath(op.call.file)

LeavesWorkspace(f) == f = Outside
IsRuntimePath(f) == f = RuntimeFile

\* Lstat: a link exists whatever it leads to.
PathExists(path) == path \in SymbolicLinks \/ disk[EffectivePath(path)].exists

BrokenLink(path) == path \in SymbolicLinks /\ ~disk[EffectivePath(path)].exists

\* Mutation: what the path says decides, not where it leads.
DeniedAsNamed(channel) ==
    \/ LeavesWorkspace(Target) \/ IsRuntimePath(Target)
    \/ BrokenLink(op.call.file)
    \/ PrivateMemoryPath(op.call.file) /\ channel # "dm"

\* ResolvePath: a path may not leave the workspace, nor lead to the database,
\* nor to nothing; private memory is for direct messages only.
Denied(channel) ==
    \/ LeavesWorkspace(Target) \/ IsRuntimePath(Target)
    \/ BrokenLink(op.call.file)
    \/ PrivateMemoryPath(Target) /\ channel # "dm"

ValidText(lines) == Len(lines) <= MaxLines

Untouched == UNCHANGED <<disk, trouble, kept, written, disturbed>>

\* The lines a patch puts where the old text was, or into a new file.
NewText == IF op.call.keep THEN <<op.call.old, op.note>> ELSE <<op.note>>

\* Mutant of the next: create does not ask whether the file exists.
PatchResolveOver(channel) ==
    /\ op.pc = "resolve" /\ op.call.tool = "workspace_patch"
    /\ \/ (Denied(channel) \/ ~ValidText(NewText)) /\ Ends
       \/ ~Denied(channel) /\ ~PathExists(op.call.file) /\ ~op.call.create /\ Ends
       \/ ~Denied(channel) /\ op.call.create /\ op' = [op EXCEPT !.pc = "replace", !.content = NewText]
       \/ ~Denied(channel) /\ PathExists(op.call.file) /\ ~op.call.create /\ Goes("read")
    /\ Untouched

\* Create demands a missing file and a plain patch an existing one.
PatchResolve(channel) ==
    /\ op.pc = "resolve" /\ op.call.tool = "workspace_patch"
    /\ \/ (Denied(channel) \/ ~ValidText(NewText)) /\ Ends
       \/ /\ ~Denied(channel) /\ ValidText(NewText)
          /\ LET exists == PathExists(op.call.file)
             IN  \/ exists = op.call.create /\ Ends
                 \/ ~exists /\ op.call.create /\ op' = [op EXCEPT !.pc = "replace", !.content = NewText]
                 \/ exists /\ ~op.call.create /\ Goes("read")
    /\ Untouched

Matches(lines) == Len(SelectSeq(lines, LAMBDA l : l = op.call.old))

Patched(lines) ==
    LET at == CHOOSE i \in DOMAIN lines : lines[i] = op.call.old
    IN  SubSeq(lines, 1, at - 1) \o NewText \o SubSeq(lines, at + 1, Len(lines))

\* The file is text, the old text matches exactly once in it, and the new
\* content is text.
Patchable(file) ==
    /\ file.exists /\ ValidText(file.lines)
    /\ Matches(file.lines) = 1 /\ ValidText(Patched(file.lines))

PatchRead ==
    LET file == disk[Target] IN
    /\ op.pc = "read" /\ op.call.tool = "workspace_patch"
    /\ \/ ~Patchable(file) /\ Ends
       \/ Patchable(file) /\ op' = [op EXCEPT !.pc = "replace", !.content = Patched(file.lines)]
    /\ Untouched

\* A temporary file is written and renamed over the file, whatever it is by now.
AtomicWriteFile ==
    /\ op.pc = "replace" /\ Ends
    /\ \/ /\ disk' = [disk EXCEPT ![Target] = Holding(op.content)]
          /\ kept' = [kept EXCEPT ![Target] =
                          (@ \ (IF op.call.create THEN {} ELSE {op.call.old})) \cup ToSet(NewText)]
          /\ UNCHANGED trouble
       \/ Trouble /\ UNCHANGED <<disk, kept>>
    /\ UNCHANGED <<written, disturbed>>

\* A link is not followed: only what it leads to may be named.
Deletable(path) ==
    /\ path \notin SymbolicLinks /\ PathExists(path)
    /\ ValidText(disk[EffectivePath(path)].lines)

DeleteResolve(channel) ==
    /\ op.pc = "resolve" /\ op.call.tool = "workspace_delete"
    /\ IF Denied(channel) \/ ~Deletable(op.call.file) THEN Ends ELSE Goes("remove")
    /\ Untouched

\* The file was read and checked before it is removed; a file that is gone by
\* now is reported as not found.
DeleteRemove ==
    /\ op.pc = "remove" /\ Ends
    /\ disk' = [disk EXCEPT ![Target] = Missing]
    /\ kept' = [kept EXCEPT ![Target] = {}]
    /\ UNCHANGED <<trouble, written, disturbed>>

(* The memory writer. *)

VisibilityForChannel(channel) == IF channel = "dm" THEN "private" ELSE "public"

CuratedPath(channel) == "memory/" \o VisibilityForChannel(channel) \o "/MEMORY.md"
DailyPath(channel)   == "memory/" \o VisibilityForChannel(channel) \o "/daily"

MemoryCall(f) == [NoCall EXCEPT !.tool = "memory", !.file = f]

Append1(f, line) ==
    /\ disk' = [disk EXCEPT ![f] = Holding(Append(@.lines, line))]
    /\ kept' = [kept EXCEPT ![f] = @ \cup {line}]
    /\ written' = written \cup {op.note}
    /\ UNCHANGED <<trouble, disturbed>>

\* The write error is returned and the runner drops it.
WriteFails ==
    /\ Trouble /\ disturbed' = disturbed \cup {op.note}
    /\ UNCHANGED <<disk, kept, written>>

WriteDaily ==
    /\ op.pc = "daily" /\ Ends
    /\ Append1(op.call.file, op.note) \/ WriteFails

\* Mutant of the next: the curated file is taken to exist.
CuratedStatTrusts ==
    op.pc = "stat" /\ Goes("append") /\ Untouched

\* A missing curated file is first given its header.
CuratedStat ==
    /\ op.pc = "stat"
    /\ IF disk[op.call.file].exists THEN Goes("append") ELSE Goes("header")
    /\ Untouched

\* The header is written with O_TRUNC.
CuratedHeader ==
    /\ op.pc = "header"
    /\ \/ /\ Goes("append")
          /\ disk' = [disk EXCEPT ![op.call.file] = Holding(<<Header>>)]
          /\ kept' = [kept EXCEPT ![op.call.file] = @ \cup {Header}]
          /\ UNCHANGED <<trouble, written, disturbed>>
       \/ Ends /\ WriteFails

\* The line is appended without O_CREATE.
CuratedAppend ==
    /\ op.pc = "append" /\ Ends
    /\ \/ disk[op.call.file].exists /\ Append1(op.call.file, op.note)
       \/ disk[op.call.file].exists /\ WriteFails
       \/ ~disk[op.call.file].exists /\ UNCHANGED <<disk, trouble, kept, written, disturbed>>

FileStep(channel) ==
    \/ PatchResolve(channel) \/ PatchRead \/ AtomicWriteFile
    \/ DeleteResolve(channel) \/ DeleteRemove
    \/ WriteDaily \/ CuratedStat \/ CuratedHeader \/ CuratedAppend

(* The owner. *)

\* What is saved now may be replaced by an operation that has read the file.
Replacing(f) == op.pc \in {"replace", "header"} /\ Target = f

Edit(f, lines, keeps) ==
    /\ Trouble
    /\ disk' = [disk EXCEPT ![f] = lines]
    /\ kept' = [kept EXCEPT ![f] = keeps]
    /\ disturbed' = IF Target = f THEN disturbed \cup {op.note} ELSE disturbed
    /\ UNCHANGED <<op, written>>

OwnerAdds(f, l) ==
    /\ l \notin ToSet(disk[f].lines)
    /\ Edit(f, Holding(Append(disk[f].lines, l)), IF Replacing(f) THEN kept[f] ELSE kept[f] \cup {l})

OwnerRemoves(f, l) ==
    /\ l \in ToSet(disk[f].lines)
    /\ Edit(f, Holding(SelectSeq(disk[f].lines, LAMBDA x : x # l)), kept[f] \ {l})

OwnerDeletes(f) == disk[f].exists /\ Edit(f, Missing, {})

OwnerStep ==
    \E f \in Files :
        \/ \E l \in OwnerLines : OwnerAdds(f, l) \/ OwnerRemoves(f, l)
        \/ OwnerDeletes(f)

\* The files survive the process, the operation does not.
FilesCrash == op' = NoOp /\ UNCHANGED <<disk, kept, written, disturbed>>

FilesTypeOK ==
    /\ disk \in [Files -> [exists : BOOLEAN, lines : Seq(Lines)]]
    /\ op.pc \in {"idle", "resolve", "read", "replace", "remove", "daily", "stat", "header", "append"}
    /\ op.pc # "idle" => op.call.file \in Files \cup DOMAIN Alias /\ op.note \in Notes
    /\ trouble \in 0..MaxTrouble
    /\ kept \in [Files -> SUBSET Lines]
    /\ written \subseteq Notes /\ disturbed \subseteq Notes \cup {"none"}
=============================================================================
