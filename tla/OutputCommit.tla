----------------------------- MODULE OutputCommit -----------------------------
(***************************************************************************)
(* How the commands of tzap-cli put their results under their final names: *)
(* create (commands/create.rs) stages every volume in a temporary file     *)
(* beside its destination, syncs them all, renames them in place with      *)
(* volume 0 last, then writes the bootstrap sidecar; signing-keygen        *)
(* (commands/keygen.rs) writes a pair of files through                     *)
(* write_atomic_output_files (commands/mod.rs).  What fails half way is    *)
(* rolled back by removing names.                                          *)
(*                                                                         *)
(* Several commands share one directory, and other programs may create     *)
(* files in it.  Any system call may fail and any command may be killed.   *)
(***************************************************************************)
EXTENDS Naturals, Sequences, FiniteSets

CONSTANTS
    Commands,     \* the running commands
    Requests,     \* what a command may be asked to do
    OldFiles,     \* the sets of paths that may be taken from the start
    Visitors,     \* the paths another program may create
    MaxVolumes    \* bound: volumes of an archive

\* Paths: output itself, its volume names, the sidecar, the two key files.
Out == <<"out", 0>>
Vol(i) == <<"vol", i>>
Boot == <<"boot", 0>>
Secret == <<"key", 0>>
Public == <<"key", 1>>
Volumes == {Vol(i) : i \in 0 .. MaxVolumes - 1}
Paths == {Out, Boot, Secret, Public} \cup Volumes

\* sink: the writer streams into the temporary files (stdin modes, recipient
\* wrap, and files without dictionary, volume size or loss tolerance).
\* memory: the volumes are built first.  keypair: signing-keygen.
\* volumes is how many the writer returns, by_size whether --volume-size asked
\* for them.  A sidecar needs a single volume.
ValidRequest(r) ==
    /\ r \in [kind : {"sink", "memory", "keypair"}, volumes : 1 .. MaxVolumes,
              by_size : BOOLEAN, bootstrap : BOOLEAN, force : BOOLEAN]
    /\ r.by_size => r.kind = "memory"
    /\ r.bootstrap => r.kind # "keypair" /\ r.volumes = 1 /\ ~r.by_size

ASSUME RequestAssumption ==
    /\ MaxVolumes \in Nat \ {0}
    /\ \A r \in Requests : ValidRequest(r)
    /\ OldFiles \subseteq SUBSET Paths
    /\ Visitors \subseteq Paths
    /\ Commands \cap {"none", "old", "visitor"} = {}

VARIABLES
    request,    \* what each command was asked to do
    pc,         \* where each command is
    at,         \* its position in the list it is going through
    fs,         \* the directory: who wrote each file, and whether it is synced
    temps,      \* each command's temporary files, by destination
    persisted,  \* the paths each command has renamed in this batch
    stuck,      \* removals that failed: the command and the path
    faults      \* whether a system call failed or a command was killed

vars == <<request, pc, at, fs, temps, persisted, stuck, faults>>

Absent == [by |-> "none", synced |-> TRUE]
file(by, synced) == [by |-> by, synced |-> synced]
NoTemps == [p \in Paths |-> "none"]

Init ==
    /\ request \in [Commands -> Requests]
    /\ \E old \in OldFiles :
          fs = [p \in Paths |-> IF p \in old THEN file("old", TRUE) ELSE Absent]
    /\ pc = [c \in Commands |-> "preflight"]
    /\ at = [c \in Commands |-> 1]
    /\ temps = [c \in Commands |-> NoTemps]
    /\ persisted = [c \in Commands |-> <<>>]
    /\ stuck = {}
    /\ faults = FALSE

-----------------------------------------------------------------------------
\* The paths of a command.
create_output_paths(r) ==
    IF r.volumes = 1 THEN <<Out>> ELSE [i \in 1 .. r.volumes |-> Vol(i - 1)]

archive_paths(c) == create_output_paths(request[c])

\* The files of write_atomic_output_files.
atomic_outputs(c) ==
    IF request[c].kind = "keypair" THEN <<Secret, Public>>
    ELSE IF request[c].bootstrap THEN <<Boot>> ELSE <<>>

outputs(c) ==
    IF request[c].kind = "keypair" THEN atomic_outputs(c)
    ELSE archive_paths(c) \o atomic_outputs(c)

\* What is looked at before anything is written.  With --volume-size the number
\* of volumes is not known yet: the name itself and every volume name must be
\* free.
preflight_paths(c) ==
    IF request[c].by_size
    THEN <<Out>> \o [i \in 1 .. MaxVolumes |-> Vol(i - 1)]
    ELSE outputs(c)

\* Mutant: the volumes are renamed from 0 up.
publish_order_ascending(paths) == paths

\* Volume 0 is renamed last.
publish_order(paths) == Tail(paths) \o <<Head(paths)>>

-----------------------------------------------------------------------------
Goto(c, label) ==
    /\ pc' = [pc EXCEPT ![c] = label]
    /\ at' = [at EXCEPT ![c] = 1]

\* Leaving the command drops what is left of its temporary files.
Exit(c, label) == Goto(c, label) /\ temps' = [temps EXCEPT ![c] = NoTemps]

Advance(c) == at' = [at EXCEPT ![c] = @ + 1] /\ UNCHANGED pc

\* An error of write_atomic_output_files after the archive was published makes
\* create remove the archive; signing-keygen just fails.
FilesFail(c) ==
    IF request[c].kind = "keypair"
    THEN Exit(c, "failed")
    ELSE Exit(c, "remove_archive")

exists(p) == fs[p] # Absent

\* Go through a list of paths that must be free, unless --force.
PathsFree(c, paths, next) ==
    /\ \/ ~request[c].force /\ at[c] <= Len(paths) /\ ~exists(paths[at[c]]) /\ Advance(c)
       \/ (request[c].force \/ at[c] > Len(paths)) /\ Goto(c, next)
    /\ UNCHANGED temps

PathTaken(c, paths) ==
    ~request[c].force /\ at[c] <= Len(paths) /\ exists(paths[at[c]])

-----------------------------------------------------------------------------
\* ensure_create_output_paths_can_be_written, and the checks of signing-keygen.
Preflight(c) ==
    /\ pc[c] = "preflight"
    /\ \/ PathsFree(c, preflight_paths(c),
                    CASE request[c].kind = "keypair" -> "check_files"
                      [] request[c].kind = "memory" -> "build"
                      [] request[c].kind = "sink" -> "stage")
       \/ PathTaken(c, preflight_paths(c)) /\ Exit(c, "failed")
    /\ UNCHANGED <<request, fs, persisted, stuck, faults>>

\* write_archive_sources_to_sink fills a MemoryArchiveSink.
BuildInMemory(c) ==
    /\ pc[c] = "build"
    /\ \/ Goto(c, "recheck") /\ UNCHANGED <<temps, faults>>
       \/ Exit(c, "failed") /\ faults' = TRUE
    /\ UNCHANGED <<request, fs, persisted, stuck>>

\* Mutant: a taken name is waited for.
Recheck_waits(c) ==
    /\ pc[c] = "recheck"
    /\ PathsFree(c, outputs(c), "stage")
    /\ UNCHANGED <<request, fs, persisted, stuck, faults>>

\* Now that the number of volumes is known the paths are checked again.
Recheck(c) ==
    /\ pc[c] = "recheck"
    /\ \/ PathsFree(c, outputs(c), "stage")
       \/ PathTaken(c, outputs(c)) /\ Exit(c, "failed")
    /\ UNCHANGED <<request, fs, persisted, stuck, faults>>

\* create_archive_output_temps, one file at a time.
CreateTemp(c) ==
    /\ pc[c] = "stage"
    /\ LET paths == archive_paths(c) IN
       \/ /\ at[c] <= Len(paths)
          /\ temps' = [temps EXCEPT ![c][paths[at[c]]] = "created"]
          /\ Advance(c)
          /\ UNCHANGED faults
       \/ at[c] <= Len(paths) /\ Exit(c, "failed") /\ faults' = TRUE
       \/ at[c] > Len(paths) /\ Goto(c, "fill") /\ UNCHANGED <<temps, faults>>
    /\ UNCHANGED <<request, fs, persisted, stuck>>

\* The writer runs with a PathBackedArchiveSink; its error ends the command.
WriteToSink(c) ==
    /\ pc[c] = "fill" /\ request[c].kind = "sink"
    /\ \/ /\ temps' = [temps EXCEPT ![c] =
                         [p \in Paths |-> IF @[p] = "created" THEN "filled" ELSE @[p]]]
          /\ Goto(c, "sync")
          /\ UNCHANGED faults
       \/ Exit(c, "failed") /\ faults' = TRUE
    /\ UNCHANGED <<request, fs, persisted, stuck>>

\* write_archive_outputs copies the volumes built in memory.
WriteVolume(c) ==
    /\ pc[c] = "fill" /\ request[c].kind = "memory"
    /\ LET paths == archive_paths(c) IN
       \/ /\ at[c] <= Len(paths)
          /\ temps' = [temps EXCEPT ![c][paths[at[c]]] = "filled"]
          /\ Advance(c)
          /\ UNCHANGED faults
       \/ at[c] <= Len(paths) /\ Exit(c, "failed") /\ faults' = TRUE
       \/ at[c] > Len(paths) /\ Goto(c, "sync") /\ UNCHANGED <<temps, faults>>
    /\ UNCHANGED <<request, fs, persisted, stuck>>

\* flush_archive_output_temps: flush and sync_all, one file at a time.
SyncTemp(c) ==
    /\ pc[c] = "sync"
    /\ LET paths == archive_paths(c) IN
       \/ /\ at[c] <= Len(paths)
          /\ temps' = [temps EXCEPT ![c][paths[at[c]]] = "synced"]
          /\ Advance(c)
          /\ UNCHANGED faults
       \/ at[c] <= Len(paths) /\ Exit(c, "failed") /\ faults' = TRUE
       \/ at[c] > Len(paths) /\ Goto(c, "publish") /\ UNCHANGED <<temps, faults>>
    /\ UNCHANGED <<request, fs, persisted, stuck>>

-----------------------------------------------------------------------------
\* Mutant: persist whether or not --force was given.
Rename_clobber(c, p) ==
    /\ fs' = [fs EXCEPT ![p] = file(c, temps[c][p] = "synced")]
    /\ temps' = [temps EXCEPT ![c][p] = "none"]
    /\ persisted' = [persisted EXCEPT ![c] = Append(@, p)]

\* persist replaces whatever has the name, persist_noclobber refuses: both are
\* a single rename or link of the file system.
Rename(c, p) ==
    /\ request[c].force \/ ~exists(p)
    /\ fs' = [fs EXCEPT ![p] = file(c, temps[c][p] = "synced")]
    /\ temps' = [temps EXCEPT ![c][p] = "none"]
    /\ persisted' = [persisted EXCEPT ![c] = Append(@, p)]

\* The rename fails: the name is taken, or the system refuses.  The temporary
\* file that could not be renamed is dropped with the others on return.
RenameFails(c, p) ==
    \/ ~request[c].force /\ exists(p) /\ UNCHANGED faults
    \/ faults' = TRUE

\* What is renamed next when paths are published in this order, and where the
\* command goes when all are.
Publish(c, order, next, rollback) ==
    \/ /\ at[c] <= Len(order)
       /\ Rename(c, order[at[c]])
       /\ Advance(c)
       /\ UNCHANGED faults
    \/ /\ at[c] <= Len(order)
       /\ RenameFails(c, order[at[c]])
       /\ Goto(c, rollback)
       /\ UNCHANGED <<fs, temps, persisted>>
    \/ /\ at[c] > Len(order)
       /\ Goto(c, next)
       /\ persisted' = [persisted EXCEPT ![c] = <<>>]
       /\ UNCHANGED <<fs, temps, faults>>

\* publish_archive_output_temps; a sidecar follows if one was asked for.
PublishArchive(c) ==
    /\ pc[c] = "publish"
    /\ Publish(c, publish_order(archive_paths(c)),
               IF request[c].bootstrap THEN "check_files" ELSE "succeeded",
               "rollback")
    /\ UNCHANGED <<request, stuck>>

\* remove_file on a path, its error ignored: whatever has the name goes.
Remove(c, p) ==
    \/ /\ fs' = [fs EXCEPT ![p] = Absent]
       /\ UNCHANGED <<stuck, faults>>
    \/ /\ exists(p)
       /\ stuck' = stuck \cup {<<c, p>>}
       /\ faults' = TRUE
       /\ UNCHANGED fs

\* Mutant: every output path is removed, not only those that were renamed.
rollback_paths_all(c) == archive_paths(c)

\* Only what this command renamed is removed.
rollback_paths(c) == persisted[c]

\* The rollback of publish_archive_output_temps.
Rollback(c) ==
    /\ pc[c] = "rollback"
    /\ LET paths == rollback_paths(c) IN
       \/ /\ at[c] <= Len(paths)
          /\ Remove(c, paths[at[c]])
          /\ Advance(c)
          /\ UNCHANGED temps
       \/ at[c] > Len(paths) /\ Exit(c, "failed") /\ UNCHANGED <<fs, stuck, faults>>
    /\ UNCHANGED <<request, persisted>>

-----------------------------------------------------------------------------
\* write_atomic_output_files: the checks.
CheckFiles(c) ==
    /\ pc[c] = "check_files"
    /\ \/ PathsFree(c, atomic_outputs(c), "stage_files")
       \/ PathTaken(c, atomic_outputs(c)) /\ FilesFail(c)
    /\ UNCHANGED <<request, fs, persisted, stuck, faults>>

\* ... every file is created, written, flushed and synced before the next ...
StageFile(c) ==
    /\ pc[c] = "stage_files"
    /\ LET paths == atomic_outputs(c) IN
       \/ /\ at[c] <= Len(paths)
          /\ temps' = [temps EXCEPT ![c][paths[at[c]]] = "synced"]
          /\ Advance(c)
          /\ UNCHANGED faults
       \/ at[c] <= Len(paths) /\ FilesFail(c) /\ faults' = TRUE
       \/ at[c] > Len(paths) /\ Goto(c, "publish_files") /\ UNCHANGED <<temps, faults>>
    /\ UNCHANGED <<request, fs, persisted, stuck>>

\* ... then they are renamed in order ...
PublishFiles(c) ==
    /\ pc[c] = "publish_files"
    /\ Publish(c, atomic_outputs(c), "succeeded", "rollback_files")
    /\ UNCHANGED <<request, stuck>>

\* ... and what was renamed is removed when one cannot be.
RollbackFiles(c) ==
    /\ pc[c] = "rollback_files"
    /\ LET paths == persisted[c] IN
       \/ /\ at[c] <= Len(paths)
          /\ Remove(c, paths[at[c]])
          /\ Advance(c)
          /\ UNCHANGED temps
       \/ at[c] > Len(paths) /\ FilesFail(c) /\ UNCHANGED <<fs, stuck, faults>>
    /\ UNCHANGED <<request, persisted>>

\* Mutant: the archive stays when its sidecar cannot be written.
RemoveArchive_kept(c) ==
    /\ pc[c] = "remove_archive"
    /\ Exit(c, "failed")
    /\ UNCHANGED <<request, fs, persisted, stuck, faults>>

\* write_bootstrap_output_with_archive_rollback: the sidecar could not be
\* written, the archive goes too.
RemoveArchive(c) ==
    /\ pc[c] = "remove_archive"
    /\ LET paths == archive_paths(c) IN
       \/ /\ at[c] <= Len(paths)
          /\ Remove(c, paths[at[c]])
          /\ Advance(c)
          /\ UNCHANGED temps
       \/ at[c] > Len(paths) /\ Exit(c, "failed") /\ UNCHANGED <<fs, stuck, faults>>
    /\ UNCHANGED <<request, persisted>>

-----------------------------------------------------------------------------
Ended == {"succeeded", "failed", "killed"}

\* The process dies; its temporary files stay behind.
Kill(c) ==
    /\ pc[c] \notin Ended
    /\ Goto(c, "killed")
    /\ faults' = TRUE
    /\ UNCHANGED <<request, fs, temps, persisted, stuck>>

\* Another program creates a file under a free name.
Visit ==
    /\ \E p \in Visitors :
          /\ ~exists(p)
          /\ \A q \in Paths : fs[q].by # "visitor"     \* bound: one such file
          /\ fs' = [fs EXCEPT ![p] = file("visitor", TRUE)]
    /\ UNCHANGED <<request, pc, at, temps, persisted, stuck, faults>>

Step(c) ==
    \/ Preflight(c) \/ BuildInMemory(c) \/ Recheck(c)
    \/ CreateTemp(c) \/ WriteToSink(c) \/ WriteVolume(c) \/ SyncTemp(c)
    \/ PublishArchive(c) \/ Rollback(c)
    \/ CheckFiles(c) \/ StageFile(c) \/ PublishFiles(c) \/ RollbackFiles(c)
    \/ RemoveArchive(c)

Next ==
    \/ \E c \in Commands : Step(c) \/ Kill(c)
    \/ Visit

Spec == Init /\ [][Next]_vars

\* Commands without --force may race for the same names; one with --force has
\* its names for itself, as --force promises nobody else's success.
names(c) == {preflight_paths(c)[i] : i \in 1 .. Len(preflight_paths(c))}
ForcedApart ==
    \A c, d \in Commands : c # d /\ request[c].force => names(c) \cap names(d) = {}

ApartSpec == Init /\ ForcedApart /\ [][Next]_vars

\* A command that is not killed keeps running: it waits for nobody.
FairSpec == Spec /\ \A c \in Commands : WF_vars(Step(c))

-----------------------------------------------------------------------------
owns(c, p) == fs[p].by = c
Removing == {"rollback", "rollback_files", "remove_archive"}

\* Volume 0 is the commit point of a multi-volume archive: whoever finds a
\* command's volume 0, even after that command was killed, finds all the other
\* volumes it wrote (publish_archive_output_temps renames it last), and finds
\* their bytes: no name leads to a file that was not synced first, so a crash of
\* the machine cannot leave a published archive empty or cut short.
VolumeZeroCommits ==
    /\ \A c \in Commands :
          owns(c, Vol(0)) => \A i \in 1 .. request[c].volumes - 1 : owns(c, Vol(i))
    /\ \A p \in Paths : fs[p].synced

\* A command that reported success has all its outputs in place, and no command
\* that fails later takes them away (persist_noclobber, and rollback of
\* persisted_paths only).
SuccessStands ==
    \A c \in Commands : pc[c] = "succeeded" =>
        \A i \in 1 .. Len(outputs(c)) : owns(c, outputs(c)[i])

\* A command that failed has left neither an output nor a temporary file, except
\* for outputs the system refused to remove: a volume without volume 0, a secret
\* key without its public key, an archive without the sidecar asked for.
FailureLeavesNothing ==
    \A c \in Commands : pc[c] = "failed" =>
        /\ \A p \in Paths : owns(c, p) => <<c, p>> \in stuck
        /\ temps[c] = NoTemps

\* When everything is quiet and no system call failed, a command that was refused
\* still finds one of the files it was refused for: two commands that race for
\* the same names never make each other fail.
RefusalIsJustified ==
    (/\ \A c \in Commands : pc[c] \in Ended
     /\ ~faults
     /\ \A p \in Paths : fs[p].by # "visitor")
    => \A c \in Commands : pc[c] = "failed" =>
          \E i \in 1 .. Len(preflight_paths(c)) : exists(preflight_paths(c)[i])

\* A file disappears or changes only when its own command rolls back, or when a
\* command with --force renames its output over it.  create says of its
\* rollback: "removed archive outputs published by this command".
OthersFilesStay ==
    [][\A p \in Paths : fs'[p] # fs[p] =>
          \/ fs[p] = Absent
          \/ \E c \in Commands : owns(c, p) /\ pc[c] \in Removing /\ at'[c] # at[c]
          \/ \E c \in Commands : request[c].force /\ fs'[p].by = c]_vars

\* Every command ends, whatever fails and whatever the others do.
EveryCommandEnds == \A c \in Commands : <>(pc[c] \in Ended)
=============================================================================
