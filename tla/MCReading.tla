------------------------------- MODULE MCReading -------------------------------
(***************************************************************************)
(* Small instances of what reading an archive rests on.  A behaviour is    *)
(* one of five parts: the terminal of one volume (VolumeTerminal), a       *)
(* directory of volumes (VolumeSet), an archive read from a pipe           *)
(* (NonSeekableReader), its members restored into a directory (Restore),   *)
(* or the staged tree of a pipe merged into the output (StagedMerge).  The *)
(* variables of the other parts stay as they are; parts share variables by *)
(* name.                                                                   *)
(***************************************************************************)
EXTENDS NonSeekableReader, TLC

CONSTANTS
    Parts,              \* the parts a run checks
    RestoreArchives, RestoreRoots, RestoreOptions, RestoreFaults

VARIABLES
    part,
    pc, result, failures, before, options, volumes,
    staged, output, merged, next, moved, late, lost, others,
    members, tree, temps, unsynced, phase, chunk, depth, causes, deferred,
    opener, place, file, authority, cursor, candidates,
    dir, original, command, paths, retried, rest, jobs, repaired, taken

outcome == <<pc, result, failures>>
request == <<before, options>>
ofStaging == <<staged, output, merged, next, moved, late, lost, others>>
ofRestore == <<members, tree, temps, unsynced, phase, chunk, depth, causes, deferred>>
ofTerminal == <<opener, place, file, authority, cursor, candidates>>
ofSet == <<dir, original, command, paths, retried, rest, jobs, repaired, taken>>
all == <<part, vars, outcome, request, volumes, ofStaging, ofRestore, ofTerminal, ofSet>>

-----------------------------------------------------------------------------
\* Parity by bit_rot_buffer_pct: 0 gives none, 20 one block,
\* 60 more parity than data.
planned(pct) ==
    plan_writer_options(
        [block_size |-> 4, tag_len |-> 1, stripe_width |-> 1,
         volume_loss_tolerance |-> 0, bit_rot_buffer_pct |-> pct,
         fec_data_shards |-> 3, fec_parity_shards |-> 0,
         envelope_target_size |-> 8, chunk_size |-> 4,
         max_shards |-> 100, word_max |-> 100000])

MCRequests ==
    {[options |-> planned(pct), encrypted |-> x, payload |-> p, metadata |-> i] :
        pct \in {0, 20, 60}, x \in BOOLEAN,
        p \in {<<>>, <<1>>, <<3>>, <<1, 1>>, <<2, 1>>, <<1, 2, 1>>},
        i \in {<<1>>, <<2, 1>>}}

-----------------------------------------------------------------------------
\* A directory with two files beside a file, the directory with and without
\* write permission, and a nested directory; an output that is absent, a file,
\* empty, or has the file, the directory or a link.
entry(p, kind, closed) == [path |-> p, kind |-> kind, closed |-> closed]
Flat(closed) == <<entry(<<1>>, "dir", closed), entry(<<1, 1>>, "file", FALSE),
                  entry(<<1, 2>>, "file", FALSE), entry(<<2>>, "file", FALSE)>>
Deep == <<entry(<<1>>, "file", FALSE), entry(<<2>>, "dir", FALSE), entry(<<2, 1>>, "dir", TRUE),
          entry(<<2, 1, 1>>, "file", FALSE), entry(<<2, 2>>, "dir", FALSE)>>

holds(f) == [p \in DOMAIN f \cup {<<>>} |-> IF p = <<>> THEN "dir" ELSE f[p]]
MCOutputs ==
    {[p \in {} |-> "none"], [p \in {<<>>} |-> "file"], [p \in {<<>>} |-> "dir"],
     holds([p \in {<<1>>} |-> "dir"]), holds([p \in {<<2>>} |-> "file"]),
     holds([p \in {<<2>>} |-> "symlink"]), holds([p \in {<<2>>, <<2, 1>>} |-> "dir"]),
     holds([p \in {<<1>>, <<1, 1>>, <<3>>} |-> IF p = <<1>> THEN "dir" ELSE "file"])}

Staging == INSTANCE StagedMerge WITH
    Staged <- {Flat(FALSE), Flat(TRUE), Deep},
    Outputs <- MCOutputs,
    Options <- [overwrite : BOOLEAN, content : BOOLEAN, privileged : BOOLEAN],
    Names <- {<<>>, <<1>>, <<1, 1>>, <<2>>, <<2, 1>>, <<2, 2>>, <<3>>},
    MaxOthers <- 2

ASSUME StagedAssumption == Staging!TreeAssumption

-----------------------------------------------------------------------------
\* Archives of up to four members: three files in one directory for two
\* workers to race on, hardlinks, a path archived twice, nested directories,
\* members that contradict each other.  The destination is empty or has a
\* file, a symlink or a directory in the way.
m(p, kind) == [path |-> p, kind |-> kind, target |-> <<>>, writable |-> TRUE, no_change |-> FALSE]
hard(p, target) == [m(p, "hardlink") EXCEPT !.target = target]
read_only(p) == [m(p, "dir") EXCEPT !.writable = FALSE]

Race == <<m(<<1, 2>>, "file"), m(<<1, 3>>, "file"), m(<<1, 4>>, "file"), m(<<1>>, "dir")>>
Links == <<m(<<1, 2>>, "file"), hard(<<1, 3>>, <<1, 2>>), m(<<2>>, "special"), m(<<1>>, "dir")>>
Twice == <<m(<<1>>, "file"), m(<<2>>, "file"), m(<<1>>, "file")>>
Nested == <<read_only(<<1>>), m(<<1, 1>>, "dir"), m(<<1, 1, 2>>, "file")>>
NestedEmpty == <<read_only(<<1>>), m(<<1, 1>>, "dir")>>
NestedOpen == <<m(<<1>>, "dir"), m(<<1, 1>>, "dir"), m(<<2>>, "symlink")>>
Contradiction == <<m(<<1>>, "symlink"), m(<<1, 2>>, "file")>>
Dangling == <<hard(<<1>>, <<2>>)>>
Immutable == <<[m(<<1>>, "file") EXCEPT !.no_change = TRUE], hard(<<2>>, <<1>>)>>

MCArchives == {Race, Links, Twice, Nested, NestedEmpty, NestedOpen, Contradiction, Dangling, Immutable}
MCImmutableOnly == {Immutable, Links}
MCLinksOnly == {Links}

at(p, kind) == [q \in {p} |-> kind]
MCRoots == {<<>>, at(<<1>>, "dir"), at(<<1>>, "file"), at(<<1>>, "symlink"), at(<<3>>, "file")}
            \cup {[q \in {<<1>>, <<1, 2>>} |-> IF q = <<1>> THEN "dir" ELSE "file"]}
MCEmpty == {<<>>}

opt(stream, workers, overwrite, policy, sync, select) ==
    [deferred |-> stream, jobs |-> workers, overwrite |-> overwrite, policy |-> policy,
     sync |-> sync, select |-> select]
MCOptions ==
    {opt(stream, 1, overwrite, policy, sync, {}) : stream \in BOOLEAN, overwrite \in BOOLEAN,
         policy \in {"Content", "Portable", "System"}, sync \in BOOLEAN}
    \cup {opt(FALSE, 2, overwrite, policy, TRUE, select) : overwrite \in BOOLEAN,
             policy \in {"Content", "Portable"}, select \in {{}, {<<1, 3>>}}}
MCStream == {opt(TRUE, 1, FALSE, policy, TRUE, {}) : policy \in {"Portable", "System"}}

Restoring == INSTANCE Restore WITH
    Archives <- RestoreArchives, Roots <- RestoreRoots, Options <- RestoreOptions,
    MaxFaults <- RestoreFaults, faults <- failures

-----------------------------------------------------------------------------
\* A signed volume with a bit-rot budget, one without, one with wrapped keys,
\* and one whose payload holds another archive's terminal.
volume(wrap, auth, blocks, pct, records) ==
    [key_wrap |-> wrap, root_auth |-> auth, blocks |-> blocks, data_shards |-> 1,
     bit_rot_buffer_pct |-> pct, records |-> records]

unsigned == volume(FALSE, FALSE, 3, 5, <<>>)
longer   == volume(FALSE, TRUE, 9, 5, <<>>)

signed  == [this |-> volume(FALSE, TRUE, 1, 5, <<>>), other |-> longer]
short   == [this |-> volume(FALSE, TRUE, 1, 5, <<>>), other |-> volume(FALSE, TRUE, 0, 5, <<>>)]
plain   == [this |-> volume(FALSE, FALSE, 6, 0, <<>>), other |-> unsigned]
wrapped == [this |-> volume(TRUE, TRUE, 1, 5, <<"wrong", "right">>), other |-> longer]
refused == [this |-> volume(TRUE, FALSE, 1, 0, <<"error", "right">>),
            other |-> volume(TRUE, FALSE, 9, 5, <<"right">>)]

MCCases ==
    {[volumes |-> short, place |-> "appended"], [volumes |-> signed, place |-> "stale"],
     [volumes |-> plain, place |-> "embedded"], [volumes |-> wrapped, place |-> "absent"],
     [volumes |-> refused, place |-> "stale"]}

MCReaders ==
    {[mode |-> "master", api |-> "bytes", keys |-> {"this", "other"}],
     [mode |-> "master", api |-> "read_at", keys |-> {"this"}],
     [mode |-> "stream", api |-> "bytes", keys |-> {"this"}],
     [mode |-> "stream", api |-> "read_at", keys |-> {"this"}],
     [mode |-> "wrap", api |-> "read_at", keys |-> {}],
     [mode |-> "public", api |-> "read_at", keys |-> {}],
     [mode |-> "inspect", api |-> "read_at", keys |-> {}]}

Terminal == INSTANCE VolumeTerminal WITH
    Cases <- MCCases, Readers <- MCReaders, MaxFaults <- 3, ScanCells <- 9, faults <- failures, reader <- opener

-----------------------------------------------------------------------------
\* Two volumes with one to lose, of which a third of an older archive is left
\* over, three volumes with one to lose, and a single volume that may have a
\* sidecar.
object(first, data, parity, root) ==
    [first |-> first, data |-> data, parity |-> parity, index_root |-> root]

MCVolumeSets ==
    [new  |-> [width |-> 2, tolerance |-> 1, bit_rot |-> TRUE, root_auth |-> TRUE, key |-> TRUE,
               objects |-> {object(0, 2, 2, FALSE), object(4, 1, 1, TRUE)}],
     old  |-> [width |-> 3, tolerance |-> 1, bit_rot |-> FALSE, root_auth |-> TRUE, key |-> TRUE,
               objects |-> {object(0, 1, 1, FALSE), object(2, 1, 1, TRUE)}],
     other |-> [width |-> 3, tolerance |-> 2, bit_rot |-> TRUE, root_auth |-> FALSE, key |-> FALSE,
               objects |-> {object(0, 1, 2, TRUE)}],
     single |-> [width |-> 1, tolerance |-> 0, bit_rot |-> TRUE, root_auth |-> FALSE, key |-> TRUE,
               objects |-> {object(0, 1, 1, FALSE), object(2, 1, 1, TRUE)}]]

v(a, i) == <<a, i>>
MCDirectories ==
    {(0 :> v("new", 0)) @@ (1 :> v("new", 1)) @@ (2 :> v("old", 2)),
     (0 :> v("new", 0)) @@ (1 :> v("new", 1)) @@ (2 :> v("other", 2)),
     (0 :> v("new", 0)) @@ (1 :> v("new", 1)),
     0 :> v("single", 0),
     (0 :> v("old", 0)) @@ (1 :> v("old", 1)) @@ (2 :> v("old", 2))}

MCCommands ==
    [mode : {"key"}, paths : {<<>>, <<1, 0>>, <<0, 0>>}, repair : {FALSE, TRUE}, sidecar : {"none"}]
    \cup [mode : {"recipient"}, paths : {<<>>}, repair : {FALSE}, sidecar : {"none"}]
    \cup [mode : {"memory"}, paths : {<<1, 0>>}, repair : {FALSE}, sidecar : {"none"}]
    \cup [mode : {"public"}, paths : {<<>>}, repair : {FALSE, TRUE}, sidecar : {"none"}]
    \cup [mode : {"readers"}, paths : {<<1, 0>>}, repair : {FALSE}, sidecar : {"none"}]
    \cup [mode : {"key", "assist", "random"}, paths : {<<0>>}, repair : {FALSE},
           sidecar : {"own", "other", "damaged"}]

Set == INSTANCE VolumeSet WITH
    Archives <- MCVolumeSets, Directories <- MCDirectories, Commands <- MCCommands, MaxFaults <- 3,
    faults <- failures

-----------------------------------------------------------------------------
NoPipe == Init /\ reader = "live" /\ archive = written(CHOOSE r \in Requests : TRUE)
NoOutcome == pc = "none" /\ result = "none" /\ failures = 0
NoRequest == before = <<>> /\ options = <<>>
NoStaging == /\ staged = <<>> /\ output = <<>> /\ merged = {} /\ next = 0 /\ moved = {} /\ late = {}
             /\ lost = {} /\ others = 0
NoRestore == /\ members = <<>> /\ tree = <<>> /\ temps = {} /\ unsynced = {} /\ phase = 0
             /\ chunk = <<>> /\ depth = <<>> /\ causes = {} /\ deferred = <<>>
NoTerminal == opener = "none" /\ place = "none" /\ file = <<>> /\ authority = FALSE /\ cursor = 0 /\ candidates = {}
NoSet == /\ dir = <<>> /\ original = <<>> /\ command = "none" /\ paths = <<>> /\ retried = FALSE /\ rest = <<>>
         /\ jobs = <<>> /\ repaired = <<>> /\ taken = {}

ReadingInit ==
    /\ part \in Parts
    /\ IF part = "pipe" THEN Init ELSE NoPipe
    /\ CASE part = "pipe" -> NoOutcome /\ NoRequest /\ volumes = {} /\ NoStaging /\ NoRestore /\ NoTerminal /\ NoSet
         [] part = "merge" -> Staging!Init /\ failures = 0 /\ volumes = {} /\ NoRestore /\ NoTerminal /\ NoSet
         [] part = "restore" -> Restoring!Init /\ volumes = {} /\ NoStaging /\ NoTerminal /\ NoSet
         [] part = "terminal" -> Terminal!Init /\ NoRequest /\ NoStaging /\ NoRestore /\ NoSet
         [] part = "set" -> Set!Init /\ NoRequest /\ NoStaging /\ NoRestore /\ NoTerminal

\* The merge or the restore has returned.
Returned == part \in {"merge", "restore"} /\ result # "open" /\ UNCHANGED all

ReadingNext ==
    \/ part = "pipe" /\ Next /\ UNCHANGED <<part, outcome, request, volumes, ofStaging, ofRestore, ofTerminal, ofSet>>
    \/ part = "merge" /\ Staging!Next /\ UNCHANGED <<part, vars, failures, volumes, ofRestore, ofTerminal, ofSet>>
    \/ part = "restore" /\ Restoring!Next /\ UNCHANGED <<part, vars, volumes, ofStaging, ofTerminal, ofSet>>
    \/ part = "terminal" /\ Terminal!Next /\ UNCHANGED <<part, vars, request, ofStaging, ofRestore, ofSet>>
    \/ part = "set" /\ Set!Next /\ UNCHANGED <<part, vars, request, ofStaging, ofRestore, ofTerminal>>
    \/ Returned

ReadingSpec == ReadingInit /\ [][ReadingNext]_all

-----------------------------------------------------------------------------
\* A volume is opened exactly when its damage is within what the format tolerates, and then as the archive that was
\* written: VolumeTerminal's property, of the part that runs it (parse_seekable_terminal and its callers).
OpensExactlyTheTolerable == part = "terminal" => Terminal!OpensExactlyTheTolerable

\* A set of volumes opens exactly when enough of one archive is left: VolumeSet's property (open_seekable_volumes).
OpensExactlyTheUsable == part = "set" => Set!OpensExactlyTheUsable

\* Verification without a key accepts what was signed and nothing else: VolumeSet's property (verify.rs).
PublicVerifyIsExact == part = "set" => Set!PublicVerifyIsExact

\* Repair publishes what was written, or nothing: VolumeSet's property (verify --repair).
RepairRestores == part = "set" => Set!RepairRestores

\* StagedMerge's property: a merge that succeeds has put every entry in place;
\* one that fails half-way has an outside reason; and a file of another process
\* is lost only if it was to be overwritten or appeared after its name had been
\* checked (StagedExtraction::commit).
MergeIsExact == part = "merge" => Staging!MergeIsExact

\* Restore's property: a restore that succeeds has restored every member that
\* was selected, the last of each path, has changed nothing else and left no
\* temporary file (extract_selected_files_to, extract_all_to).
RestoredIsArchived == part = "restore" => Restoring!RestoredIsArchived

\* Restore's property: a restore that fails has a reason, and leaves no
\* half-restored member and nothing gone that was not to be overwritten
\* (FilesystemRestoreHandler).
FailureIsClean == part = "restore" => Restoring!FailureIsClean

\* Restore's property, for a restore from the stream: after a success every
\* directory has its archived metadata, whatever was put into it later
\* (finish_archive).
DirectoriesAreFinal == part = "restore" /\ options.deferred => Restoring!DirectoriesAreFinal

\* "... immutable, append-only, system-immutable, and all other no-change flags
\* last": no step of a restore into an empty directory meets one already set.
NoChangeFlagsLast == part = "restore" => Restoring!NoChangeFlagsLast

\* "a reported-successful extract survives power loss": every entry a restore
\* has made is on disk.
SurvivesPowerLoss == part = "restore" => Restoring!SurvivesPowerLoss
================================================================================
