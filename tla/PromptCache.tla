---------------------------- MODULE PromptCache ----------------------------
(* The static part of the system prompt and its cache (internal/prompt).   *)
(* A build takes fingerprints of the files, serves the cached text if they *)
(* are those it was built from, and otherwise renders the files between    *)
(* two equal sets of fingerprints, up to MaxAttempts times; under the lock *)
(* it fingerprints once more and caches what still stands.  Every file is  *)
(* read by a call of its own, in different orders, while the owner edits.  *)
EXTENDS WorkspaceFiles, TLC

CONSTANT MaxAttempts   \* 3 in the code

ASSUME PromptAssumption == MaxAttempts \in Nat \ {0}

Variants == [private : BOOLEAN, heartbeat : BOOLEAN]

VARIABLES cache,     \* variant -> [content, prints], while cached
          build,     \* the build under way
          held,      \* history: what each file has held since the build began
          flipped    \* history: a file was changed and changed back during one build

promptVars == <<cache, build, held, flipped>>

NoPrint == <<>>
NoBuild == [pc |-> "idle", variant |-> [private |-> FALSE, heartbeat |-> FALSE], todo |-> <<>>,
            got |-> NoPrint, before |-> NoPrint, content |-> NoPrint, prints |-> NoPrint,
            attempt |-> 0, cacheable |-> FALSE]

NothingHeld == [f \in Files |-> {}]

PromptInit ==
    /\ cache = <<>> /\ build = NoBuild
    /\ held = NothingHeld /\ flipped = FALSE

BuildVariant(channel, kind) ==
    [private |-> channel = "dm", heartbeat |-> kind = "cron_fire"]

InVariant(v, f) ==
    /\ f \in Files
    /\ PrivateMemoryPath(f) => v.private
    /\ f = "HEARTBEAT.md" => v.heartbeat

SnapshotOrder(v) ==
    SelectSeq(<<"SOUL.md", "HEARTBEAT.md", "memory/public/MEMORY.md", "memory/private/MEMORY.md">>,
              LAMBDA f : InVariant(v, f))

LoadOrder(v) ==
    SelectSeq(<<"memory/public/MEMORY.md", "memory/private/MEMORY.md", "SOUL.md", "HEARTBEAT.md">>,
              LAMBDA f : InVariant(v, f))

\* A fingerprint tells a missing file from an empty one; a prompt does not.
Fingerprint(f) == disk[f]
Loaded(f) == disk[f].lines

BeginBuild(v) ==
    /\ build = NoBuild
    /\ build' = [NoBuild EXCEPT !.pc = "peek", !.variant = v, !.todo = SnapshotOrder(v)]
    /\ held' = [f \in Files |-> {disk[f]}]
    /\ UNCHANGED <<cache, flipped>>

Loading == build.pc \in {"load", "lastload"}

ReadNext ==
    /\ build.todo # <<>>
    /\ LET f == Head(build.todo) IN
       build' = [build EXCEPT !.todo = Tail(@),
                              !.got = @ @@ (f :> IF Loading THEN Loaded(f) ELSE Fingerprint(f))]
    /\ UNCHANGED <<cache, held, flipped>>

\* Mutant of the next: what is cached is served whatever the files hold now.
CachedForever(prints) == build.variant \in DOMAIN cache

Cached(prints) == build.variant \in DOMAIN cache /\ cache[build.variant].prints = prints

\* The next pass over the files.
Pass(b, pc) ==
    [b EXCEPT !.pc = pc, !.got = NoPrint,
              !.todo = IF pc \in {"load", "lastload"} THEN LoadOrder(b.variant) ELSE SnapshotOrder(b.variant)]

Served(content) == [build EXCEPT !.pc = "served", !.got = NoPrint, !.content = content]

Peeked ==
    /\ build.pc = "peek" /\ build.todo = <<>>
    /\ build' = IF Cached(build.got) THEN Served(cache[build.variant].content)
                                     ELSE Pass(build, "before")
    /\ UNCHANGED <<cache, held, flipped>>

\* stableStaticBuild: one attempt is the passes before, load and after; the
\* build after the last attempt is served and not cached.
StableStaticBuild ==
    /\ build.todo = <<>>
    /\ \/ build.pc = "before" /\ build' = Pass([build EXCEPT !.before = build.got], "load")
       \/ build.pc = "load" /\ build' = Pass([build EXCEPT !.content = build.got], "after")
       \/ /\ build.pc = "after" /\ build.before = build.got
          /\ build' = Pass([build EXCEPT !.prints = build.got, !.cacheable = TRUE], "latest")
       \/ /\ build.pc = "after" /\ build.before # build.got
          /\ build' = Pass([build EXCEPT !.attempt = @ + 1],
                           IF build.attempt + 1 < MaxAttempts THEN "before" ELSE "lastload")
       \/ build.pc = "lastload" /\ build' = Pass([build EXCEPT !.content = build.got], "lastsnap")
       \/ build.pc = "lastsnap" /\ build' = Pass([build EXCEPT !.prints = build.got], "latest")
    /\ UNCHANGED <<cache, held, flipped>>

StoreStatic ==
    /\ build.pc = "latest" /\ build.todo = <<>>
    /\ IF Cached(build.got)
       THEN build' = Served(cache[build.variant].content) /\ UNCHANGED cache
       ELSE /\ build' = Served(build.content)
            /\ cache' = IF build.cacheable /\ build.prints = build.got
                        THEN (build.variant :> [content |-> build.content, prints |-> build.prints]) @@ cache
                        ELSE cache
    /\ UNCHANGED <<held, flipped>>

BuildStep == ReadNext \/ Peeked \/ StableStaticBuild \/ StoreStatic

\* The run takes the prompt.
TakePrompt ==
    /\ build.pc = "served"
    /\ build' = NoBuild /\ held' = NothingHeld
    /\ UNCHANGED <<cache, flipped>>

\* History only: an edit while a build is under way.
Notice ==
    IF build.pc = "idle" THEN UNCHANGED <<held, flipped>>
    ELSE /\ held' = [f \in Files |-> held[f] \cup {disk'[f]}]
         /\ flipped' = (flipped \/ \E f \in Files : disk'[f] # disk[f] /\ disk'[f] \in held[f])

OwnerEdits == OwnerStep /\ Notice /\ UNCHANGED <<cache, build>>

PromptCrash == cache' = <<>> /\ build' = NoBuild /\ held' = NothingHeld /\ flipped' = FALSE
=============================================================================
