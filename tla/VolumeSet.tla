------------------------------ MODULE VolumeSet ------------------------------
(***************************************************************************)
(* From the volume files in a directory to an opened, verified or repaired *)
(* archive: choosing the files and opening what of them is usable          *)
(* (commands/mod.rs), folding the volumes into one archive (reader/mod.rs),*)
(* with the help of a bootstrap sidecar or without (reader/sidecar.rs),    *)
(* public verification without a key (reader/volume.rs and                 *)
(* reader/validation.rs), and the repaired copies `verify --write-repaired`*)
(* writes beside the damaged volumes.                                      *)
(*                                                                         *)
(* A volume file holds the archive it is of, its index, whether its        *)
(* VolumeHeader and its terminal can be read, and for each block slot      *)
(* "ok", "crc" (the record's magic is there, its checksum fails) or "gone" *)
(* (no magic).  What a reader makes of a damaged terminal is VolumeTerminal*)
(* and what Reed-Solomon repairs is Recovery.                              *)
(***************************************************************************)
EXTENDS Integers, Sequences, FiniteSets, SequencesExt

CONSTANTS
    Archives,       \* name -> [width, tolerance, bit_rot, root_auth, key, objects];
                    \* an object is [first, data, parity, index_root]
    Directories,    \* what the files hold: name (the volume number in it) -> <<archive, index>>
    Commands,       \* [mode, paths, repair, sidecar]: paths <<>> for autodiscovery
    MaxFaults       \* bound: damaged slots, headers and terminals, deleted files

VARIABLES
    dir,            \* file name -> volume
    original,       \* dir before the damage
    command, faults,
    pc,
    paths,          \* the files chosen
    retried,        \* the unusable ones were left out
    rest,           \* the paths still to be parsed
    volumes,        \* the volumes parsed: archive and index
    jobs,           \* file names still to be repaired
    repaired,       \* file name -> the repaired copy published beside it
    taken,          \* names another process published there
    result

input == <<dir, original, command, faults>>
vars == <<input, pc, paths, retried, rest, volumes, jobs, repaired, taken, result>>

-----------------------------------------------------------------------------
blocks(o) == o.first .. o.first + o.data + o.parity - 1
is_data(a, b) == \E o \in Archives[a].objects : b \in o.first .. o.first + o.data - 1
block_total(a) == Cardinality(UNION {blocks(o) : o \in Archives[a].objects})

\* The global indices volume `index` of archive a holds, slot by slot.
slot_block(a, index, slot) == index + (slot - 1) * Archives[a].width
block_count(a, index) ==
    Cardinality({b \in 0 .. block_total(a) - 1 : b % Archives[a].width = index})

volume(a, index) ==
    [of |-> a, index |-> index, header |-> TRUE, terminal |-> TRUE,
     slots |-> [s \in 1 .. block_count(a, index) |-> "ok"]]

Init ==
    /\ \E d \in Directories : dir = [f \in DOMAIN d |-> volume(d[f][1], d[f][2])]
    /\ original = dir
    /\ command \in Commands /\ faults = 0
    /\ pc = "start" /\ paths = <<>> /\ retried = FALSE /\ rest = <<>> /\ volumes = {}
    /\ jobs = <<>> /\ repaired = <<>> /\ taken = {}
    /\ result = [status |-> "open", of |-> "none"]

Fault == /\ pc = "start" /\ faults < MaxFaults /\ faults' = faults + 1
         /\ UNCHANGED <<original, command, pc, paths, retried, rest, volumes, jobs, repaired, taken, result>>

RotSlot == /\ Fault
           /\ \E f \in DOMAIN dir : \E s \in DOMAIN dir[f].slots : \E how \in {"crc", "gone"} :
                 /\ dir[f].slots[s] = "ok"
                 /\ dir' = [dir EXCEPT ![f].slots[s] = how]

RotEnds == /\ Fault
           /\ \E f \in DOMAIN dir :
                 \/ dir[f].header /\ dir' = [dir EXCEPT ![f].header = FALSE]
                 \/ dir[f].terminal /\ dir' = [dir EXCEPT ![f].terminal = FALSE]

Delete == /\ Fault
          /\ \E f \in DOMAIN dir : dir' = [g \in DOMAIN dir \ {f} |-> dir[g]]

Fail == /\ result' = [status |-> "err", of |-> "none"] /\ pc' = "done"
        /\ UNCHANGED <<rest, volumes>>

-----------------------------------------------------------------------------
(***************************************************************************)
(* Choosing and opening the files                                          *)
(***************************************************************************)

KeyHolding == command.mode \notin {"public", "readers"}

\* discover_sibling_volume_paths: every file of the name, in the order of its number.
discover_volume_siblings == SetToSortSeq(DOMAIN dir, <)

\* What `verify` refuses before it looks at a file.
rejected ==
    \/ command.repair /\ (~KeyHolding \/ command.sidecar # "none")
    \/ command.sidecar # "none" /\ Len(command.paths) > 1

\* resolve_archive_input_paths, then every file is opened.
Resolve ==
    /\ pc = "start"
    /\ LET chosen == IF command.paths = <<>> THEN discover_volume_siblings ELSE command.paths
       IN  IF rejected \/ chosen = <<>> \/ \E i \in DOMAIN chosen : chosen[i] \notin DOMAIN dir
           THEN Fail /\ UNCHANGED paths
           ELSE /\ paths' = chosen /\ rest' = chosen
                /\ pc' = "parse" /\ UNCHANGED <<volumes, result>>
    /\ UNCHANGED <<input, retried, jobs, repaired, taken>>

\* The sidecar must be this archive's, and every record in it intact.
parse_bootstrap_sidecar == command.sidecar # "other"
parse_sidecar_block_records == command.sidecar # "damaged"

\* parse_seekable_read_at_volume and its recipient-wrap and public counterparts; in
\* memory with a sidecar, the records must reach to the terminal ("assist") unless
\* the sidecar stands for it ("random").
parses(f) ==
    LET a == Archives[dir[f].of]
    IN  /\ command.sidecar # "none" => a.width = 1
        /\ CASE ~KeyHolding -> a.root_auth /\ dir[f].header /\ dir[f].terminal
             [] command.mode = "assist" ->
                   /\ a.key /\ dir[f].header /\ dir[f].terminal
                   /\ \A s \in DOMAIN dir[f].slots : dir[f].slots[s] # "gone"
             [] command.mode = "random" -> a.key /\ dir[f].header
             [] OTHER -> a.key /\ dir[f].terminal /\ (dir[f].header \/ a.bit_rot)

\* Mutant: volumes of two archives may be mixed.
fits_any(f) == \A v \in volumes : v.index # dir[f].index

\* validate_volume_set_member_metadata, and one volume per index.
fits(f) ==
    \A v \in volumes : v.of = dir[f].of /\ v.index # dir[f].index

FoldVolume(modes) ==
    /\ pc = "parse" /\ rest # <<>> /\ command.mode \in modes
    /\ LET f == Head(rest)
       IN  IF parses(f) /\ fits(f)
           THEN /\ volumes' = volumes \cup {[of |-> dir[f].of, index |-> dir[f].index, file |-> f]}
                /\ rest' = Tail(rest) /\ UNCHANGED pc
           ELSE pc' = "failed" /\ UNCHANGED <<rest, volumes>>
    /\ UNCHANGED <<input, paths, retried, jobs, repaired, taken, result>>

ParseVolume == FoldVolume({"key"})
ParseRecipientVolume == FoldVolume({"recipient"})
ParseMemoryVolume == FoldVolume({"memory"})
ParseSidecarVolume == FoldVolume({"assist", "random"})
ParsePublicVolume == FoldVolume({"public"})
ParsePublicReader == FoldVolume({"readers"})

archive == (CHOOSE v \in volumes : TRUE).of
file_of(index) == {v.file : v \in {v \in volumes : v.index = index}}

\* SeekableBlockSource::block: a missing volume and a damaged record are erasures.
present(b) == \E f \in file_of(b % Archives[archive].width) :
                 dir[f].slots[1 + b \div Archives[archive].width] = "ok"

recoverable(o) == Cardinality({b \in blocks(o) : ~present(b)}) <= o.parity
index_root == CHOOSE o \in Archives[archive].objects : o.index_root

\* validate_complete_global_block_coverage: present or erased, without a gap.
covered(S) == S = 0 .. Cardinality(S) - 1
slots_of(f) == {slot_block(dir[f].of, dir[f].index, s) : s \in DOMAIN dir[f].slots}

\* The volumes are in: how many are missing, and is the IndexRoot still there.
Finish(modes) ==
    /\ pc = "parse" /\ rest = <<>> /\ command.mode \in modes
    /\ IF /\ Archives[archive].width - Cardinality(volumes) <= Archives[archive].tolerance
          /\ command.mode = "memory" /\ Cardinality(volumes) = Archives[archive].width =>
                covered(UNION {slots_of(v.file) : v \in volumes})
          /\ IF command.sidecar = "none" THEN recoverable(index_root)
             ELSE parse_bootstrap_sidecar /\ parse_sidecar_block_records
       THEN IF command.repair THEN pc' = "verify" /\ UNCHANGED result
            ELSE pc' = "done" /\ result' = [status |-> "ok", of |-> archive]
       ELSE pc' = "failed" /\ UNCHANGED result
    /\ UNCHANGED <<input, paths, retried, rest, volumes, jobs, repaired, taken>>

FinishOpen == Finish({"key"})
FinishRecipientOpen == Finish({"recipient"})
FinishMemoryOpen == Finish({"memory"})
FinishSidecarOpen == Finish({"assist", "random"})

\* Each file by itself: that it lacks its siblings does not make it unusable.
filter_usable_autodiscovered_volume_paths == SelectSeq(paths, LAMBDA f : parses(f))

OpenFailed ==
    /\ pc = "failed"
    /\ LET usable == filter_usable_autodiscovered_volume_paths
       IN  IF /\ command.mode = "key" /\ command.paths = <<>> /\ ~retried
              /\ Len(paths) > 1 /\ usable # <<>> /\ usable # paths
           THEN /\ retried' = TRUE /\ paths' = usable /\ rest' = usable
                /\ volumes' = {} /\ pc' = "parse" /\ UNCHANGED result
           ELSE Fail /\ UNCHANGED <<paths, retried>>
    /\ UNCHANGED <<input, jobs, repaired, taken>>

-----------------------------------------------------------------------------
(***************************************************************************)
(* Verification without a key                                              *)
(***************************************************************************)

\* Mutant: a record that fails its checksum ends the observation.
parse_public_block_observation_lenient(f) ==
    LET slots == dir[f].slots
        seen  == {s \in DOMAIN slots : \A t \in 1 .. s : slots[t] = "ok"}
    IN  [ok |-> TRUE, observed |-> {slot_block(dir[f].of, dir[f].index, s) : s \in seen}]

\* The records up to the first slot without a magic; behind it there may be none
\* that is readable.
parse_public_block_observation(f) ==
    LET slots == dir[f].slots
        stop  == {s \in DOMAIN slots : slots[s] = "gone"}
        seen  == {s \in DOMAIN slots : \A t \in stop : s < t}
    IN  [ok       |-> /\ \A s \in seen : slots[s] = "ok"
                      /\ \A s \in DOMAIN slots \ seen : slots[s] # "ok",
         observed |-> {slot_block(dir[f].of, dir[f].index, s) : s \in seen}]

\* The same record by record from a file, keeping only hashes.
parse_public_block_observation_read_at(f) == parse_public_block_observation(f)

\* How many blocks there are in all is known only for the data blocks, which the
\* signed root commits to.
VerifyObserved(observation) ==
    LET observed == UNION {observation[v].observed : v \in volumes}
    IN  /\ IF /\ Cardinality(volumes) = Archives[archive].width
              /\ \A v \in volumes : observation[v].ok
              /\ covered(observed)
              /\ \A b \in 0 .. block_total(archive) - 1 : is_data(archive, b) => b \in observed
           THEN /\ result' = [status |-> "ok", of |-> archive] /\ pc' = "done"
                /\ UNCHANGED <<rest, volumes>>
           ELSE Fail
        /\ UNCHANGED <<input, paths, retried, jobs, repaired, taken>>

PublicVerify ==
    /\ pc = "parse" /\ rest = <<>> /\ command.mode = "public"
    /\ VerifyObserved([v \in volumes |-> parse_public_block_observation(v.file)])

PublicVerifyReaders ==
    /\ pc = "parse" /\ rest = <<>> /\ command.mode = "readers"
    /\ VerifyObserved([v \in volumes |-> parse_public_block_observation_read_at(v.file)])

-----------------------------------------------------------------------------
(***************************************************************************)
(* Repaired copies                                                         *)
(***************************************************************************)

\* collect_repair_patches_for_object over every object: the erased records.
repair_patches(f) ==
    {s \in DOMAIN dir[f].slots : dir[f].slots[s] # "ok"}

\* verify_content: every payload object is read.
VerifyContent ==
    /\ pc = "verify"
    /\ IF \A o \in Archives[archive].objects : recoverable(o)
       THEN pc' = "plan" /\ UNCHANGED <<rest, volumes, result>>
       ELSE Fail
    /\ UNCHANGED <<input, paths, retried, jobs, repaired, taken>>

\* The patches need every volume, their outputs a readable header in each, and no
\* file of that name.
PlanRepair ==
    /\ pc = "plan"
    /\ LET damaged == SelectSeq(paths, LAMBDA f : repair_patches(f) # {})
       IN  IF /\ Cardinality(volumes) = Archives[archive].width
              /\ damaged # <<>> => \A i \in DOMAIN paths : dir[paths[i]].header
              /\ \A i \in DOMAIN damaged : damaged[i] \notin taken
           THEN /\ jobs' = SetToSortSeq(ToSet(damaged), LAMBDA f, g : dir[f].index < dir[g].index)
                /\ pc' = "repair" /\ UNCHANGED <<rest, volumes, result>>
           ELSE Fail /\ UNCHANGED jobs
    /\ UNCHANGED <<input, paths, retried, repaired, taken>>

\* Mutant: only the slots that still have a magic are patched.
patched_some(f) == [dir[f] EXCEPT !.slots = [s \in DOMAIN @ |-> IF @[s] = "crc" THEN "ok" ELSE @[s]]]

patched(f) == [dir[f] EXCEPT !.slots = [s \in DOMAIN @ |-> IF s \in repair_patches(f) THEN "ok" ELSE @[s]]]

\* Copy, patch, sync and publish one volume; a name taken meanwhile undoes the
\* copies published before it.
RepairVolume ==
    /\ pc = "repair" /\ jobs # <<>>
    /\ LET f == Head(jobs)
       IN  IF f \notin taken
           THEN /\ repaired' = [g \in DOMAIN repaired \cup {f} |->
                                   IF g = f THEN patched(f) ELSE repaired[g]]
                /\ jobs' = Tail(jobs) /\ UNCHANGED <<pc, rest, volumes, result>>
           ELSE /\ repaired' = <<>> /\ pc' = "done"
                /\ result' = [status |-> "err", of |-> "taken"]
                /\ UNCHANGED <<jobs, rest, volumes>>
    /\ UNCHANGED <<input, paths, retried, taken>>

\* Copying, patching or syncing fails: the copies published before it stay.
RepairFails ==
    /\ pc = "repair" /\ jobs # <<>>
    /\ Fail
    /\ UNCHANGED <<input, paths, retried, jobs, repaired, taken>>

RepairDone ==
    /\ pc = "repair" /\ jobs = <<>>
    /\ result' = [status |-> "ok", of |-> archive] /\ pc' = "done"
    /\ UNCHANGED <<input, paths, retried, rest, volumes, jobs, repaired, taken>>

\* Another process publishes a file of an output's name.
OtherPublishes ==
    /\ pc \in {"verify", "plan", "repair"} /\ taken = {}
    /\ \E f \in ToSet(paths) \ DOMAIN repaired : taken' = {f}
    /\ UNCHANGED <<input, pc, paths, retried, rest, volumes, jobs, repaired, result>>

Finished == pc = "done" /\ UNCHANGED vars

Next == \/ RotSlot \/ RotEnds \/ Delete
        \/ Resolve
        \/ ParseVolume \/ ParseRecipientVolume \/ ParseMemoryVolume \/ ParseSidecarVolume
        \/ ParsePublicVolume \/ ParsePublicReader
        \/ FinishOpen \/ FinishRecipientOpen \/ FinishMemoryOpen \/ FinishSidecarOpen
        \/ OpenFailed \/ PublicVerify \/ PublicVerifyReaders
        \/ VerifyContent \/ PlanRepair \/ RepairVolume \/ RepairFails \/ RepairDone \/ OtherPublishes
        \/ Finished

Spec == Init /\ [][Next]_vars

-----------------------------------------------------------------------------
(***************************************************************************)
(* Properties                                                              *)
(***************************************************************************)

\* A set of files is one archive, no more volumes missing than it tolerates,
\* and its IndexRoot not damaged beyond its parity or held by the sidecar.
OneArchive(S) ==
    \E a \in DOMAIN Archives :
        LET have(b) == \E f \in S : dir[f].index = b % Archives[a].width
                                    /\ dir[f].slots[1 + b \div Archives[a].width] = "ok"
        IN  /\ \A f \in S : dir[f].of = a /\ parses(f)
            /\ \A f, g \in S : dir[f].index = dir[g].index => f = g
            /\ Archives[a].width - Cardinality(S) <= Archives[a].tolerance
            /\ \/ command.sidecar = "own"
               \/ /\ command.sidecar = "none"
                  /\ \A o \in Archives[a].objects : o.index_root =>
                        Cardinality({b \in blocks(o) : ~have(b)}) <= o.parity

Chosen == IF command.paths = <<>> THEN DOMAIN dir ELSE ToSet(command.paths)
Readable == {f \in Chosen \cap DOMAIN dir : parses(f)}

\* An archive is opened exactly when the files given, in any order, are volumes
\* of one archive that are readable and enough, or, when the files were
\* discovered by their name and a master key is held, when those that are
\* readable are; with a sidecar, the only volume need not hold a readable IndexRoot
\* but the sidecar must be this archive's and undamaged.  So a readable volume left over from an older archive of the
\* same name keeps its successor from being opened by discovery, and never mixes
\* with it (open_seekable_volumes_with_options, open_selection_maybe_bootstrap_resolved).
OpensExactlyTheUsable ==
    (pc = "done" /\ KeyHolding /\ ~command.repair) =>
        (result.status = "ok" <=>
            /\ Chosen # {} /\ Chosen \subseteq DOMAIN dir
            /\ Len(command.paths) = Cardinality(ToSet(command.paths))
            /\ \/ OneArchive(Chosen)
               \/ command.mode = "key" /\ command.paths = <<>> /\ Readable # {} /\ OneArchive(Readable))

\* Public verification accepts exactly the complete sets of one signed archive
\* whose blocks are intact up to some index k, and from k on there is only
\* parity, none of it readable, each volume's first such slot without its magic:
\* no data block can be missing or damaged unnoticed, and damage that stops it is
\* never to a tail of lost parity (public_no_key_verify_volumes_with_options).
PublicVerifyIsExact ==
    (pc = "done" /\ ~KeyHolding /\ ~command.repair) =>
        (result.status = "ok" <=>
            \E a \in DOMAIN Archives :
               LET N    == block_total(a)
                   W    == Archives[a].width
                   file == [i \in 0 .. W - 1 |-> {f \in Chosen : dir[f].index = i}]
                   slot(b) == dir[CHOOSE f \in file[b % W] : TRUE].slots[1 + b \div W]
               IN  /\ Chosen \subseteq DOMAIN dir /\ Archives[a].root_auth
                   /\ \A f \in Chosen : dir[f].of = a /\ parses(f)
                   /\ \A i \in DOMAIN file : Cardinality(file[i]) = 1
                   /\ Cardinality(Chosen) = W /\ (command.paths # <<>> => Len(command.paths) = W)
                   /\ \E k \in 0 .. N :
                         /\ \A b \in 0 .. k - 1 : slot(b) = "ok"
                         /\ \A b \in k .. N - 1 : ~is_data(a, b) /\ slot(b) # "ok"
                         /\ \A b \in k .. N - 1 : b < k + W => slot(b) = "gone")

\* When a repair succeeds, the volumes with the repaired copies in the place of
\* the damaged ones hold every block as it was written, whatever was damaged and
\* whoever else published files meanwhile; the volumes themselves are not touched;
\* and a repair that could not publish one copy leaves none behind
\* (write_repaired_archive_copies, repair_patches).
RepairRestores ==
    (pc = "done" /\ command.repair) =>
        /\ result.status = "ok" =>
              \A f \in ToSet(paths) :
                  (IF f \in DOMAIN repaired THEN repaired[f] ELSE dir[f]).slots = original[f].slots
        /\ \A f \in DOMAIN repaired : repaired[f].slots = original[f].slots /\ dir[f].slots # original[f].slots
        /\ result.of = "taken" => repaired = <<>>
=============================================================================
