---------------------------- MODULE SegmentCommand ----------------------------
(* gsymtool segment (src/gsymtool/src/main.rs): the shards DecodedGsym::segments *)
(* returns are written one after the other, each to a file named after its     *)
(* first address.  A file appears under its name in one step, replacing what   *)
(* was there (a temporary file is written, synced and renamed).                *)
EXTENDS Segments

VARIABLES
    files,      \* shard_path -> the shard it holds; its domain is what exists
    saved,      \* number of shards persisted
    exit        \* running, success, failure

commandVars == <<vars, files, saved, exit>>

\* Mutant: a shard is named after the end of its span.
ShardPathEnd(s) == EndAddress(s)

\* shard_path: the prefix is the same for all shards.
ShardPath(s) == FirstAddress(s)

CommandInit ==
    /\ Init
    /\ files = << >> /\ saved = 0 /\ exit = "running"

\* The library call; its error is the command's.
Partition ==
    /\ exit = "running" /\ saved = 0 /\ pc \notin {"done", "failed"}
    /\ Next
    /\ exit' = IF pc' = "failed" THEN "failure" ELSE exit
    /\ UNCHANGED <<files, saved>>

Persist ==
    /\ exit = "running" /\ pc = "done" /\ saved < Len(segments)
    /\ LET s == segments[saved + 1] IN
        files' = [p \in DOMAIN files \union {ShardPath(s)} |->
                    IF p = ShardPath(s) THEN s ELSE files[p]]
    /\ saved' = saved + 1
    /\ UNCHANGED <<vars, exit>>

\* Creating, writing, syncing or renaming one file fails; the files that were
\* renamed before stay.
PersistFails ==
    /\ exit = "running" /\ pc = "done" /\ saved < Len(segments)
    /\ exit' = "failure"
    /\ UNCHANGED <<vars, files, saved>>

Succeed ==
    /\ exit = "running" /\ pc = "done" /\ saved = Len(segments)
    /\ exit' = "success"
    /\ UNCHANGED <<vars, files, saved>>

CommandNext == Partition \/ Persist \/ PersistFails \/ Succeed

\* One thread runs the library call to its end.
CommandSpec == CommandInit /\ [][CommandNext]_commandVars /\ WF_commandVars(Partition)

-----------------------------------------------------------------------------
(* Properties.                                                               *)

\* The shards on disk hold every function of the input when the command says
\* it succeeded.
EveryFunctionWritten ==
    exit = "success" =>
        \A i \in 1..Count : \E p \in DOMAIN files :
            i \in Window(files[p].from, files[p].to)

\* A reader that has only the files opens the one with the greatest name that
\* is not above the address.
ByName(a) ==
    LET below == {p \in DOMAIN files : p <= a} IN
    IF below = {} THEN None
    ELSE LET s == files[Max(below)] IN Resolve(Window(s.from, s.to), a)

\* Where no boundary separates functions that start together, picking a shard
\* by the names of the files alone answers every address, u64::MAX included, as
\* the unsplit file does.
NamesRoute ==
    exit = "success" /\ Uncut => \A a \in 0..Top : ByName(a) = Unsplit(a)
==============================================================================
