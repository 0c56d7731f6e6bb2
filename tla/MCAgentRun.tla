----------------------------- MODULE MCAgentRun -----------------------------
\* A session of a channel: a note of the day, the /new that starts it and two
\* messages; in between a firing job and a compaction of a direct conversation,
\* which alone have a part in the private memory.
EXTENDS AgentRun

MCArrival == <<"flush", "cron", "new", "message", "compact", "second">>
MCEvents  == ToSet(MCArrival)
MCKind == [flush |-> "memory_flush", cron |-> "cron_fire", new |-> "new_session",
           message |-> "message", compact |-> "compaction", second |-> "message"]
Direct == {"cron", "compact"}
MCChannel == [e \in MCEvents |-> IF e \in Direct THEN "dm" ELSE "channel"]
MCSession == [e \in MCEvents |-> IF e \in Direct THEN "s2" ELSE "s1"]

Soul   == "SOUL.md"
Memory == "memory/private/MEMORY.md"
Daily  == "memory/public/daily"
MCFiles == {Soul, Memory, Daily}
MCDisk0 == [f \in MCFiles |-> IF f = Soul THEN Holding(<<"o1">>) ELSE Missing]

\* A link to the private memory, a path through a linked directory, and two
\* paths that lead where no tool may write.
MCAlias == ("diary" :> Memory) @@ ("log/daily" :> Daily) @@ ("up/x" :> Outside) @@ ("db" :> RuntimeFile)
MCLinks == {"diary", "db"}

PatchSoul == [tool |-> "workspace_patch", file |-> Soul, old |-> "o1", create |-> FALSE, keep |-> TRUE]
PatchLink == [tool |-> "workspace_patch", file |-> "diary", old |-> Header, create |-> FALSE, keep |-> TRUE]
Create(f) == [NoCall EXCEPT !.tool = "workspace_patch", !.file = f, !.create = TRUE]
Delete(f) == [NoCall EXCEPT !.tool = "workspace_delete", !.file = f]
Read(f)   == [NoCall EXCEPT !.tool = "memory_get", !.file = f]

MCReplies == {<<PatchSoul, Create(Memory), Create("log/daily")>>,
              <<PatchLink, Create("up/x"), Delete("diary")>>,
              <<Read(Memory), Read(Memory), Delete("log/daily")>>}
=============================================================================
