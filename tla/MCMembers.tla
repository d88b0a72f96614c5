------------------------------- MODULE MCMembers -------------------------------
(***************************************************************************)
(* Small instances of what becomes of a member.  A behaviour is one of     *)
(* four parts: a member written as a tar group and read back (TarGroup), a *)
(* tar stream archived from stdin (TarStdin), the index over the members   *)
(* (IndexTables), or the native metadata of one entry (EntryFidelity).     *)
(* The variables of the other parts stay as they are; parts share the      *)
(* variables they have in common by name.                                  *)
(***************************************************************************)
EXTENDS TarGroup

CONSTANT Parts      \* the parts a run checks

VARIABLES
    part,
    request, seen, pc, outcome, todo,
    metadata, archived, taken,
    options, single, class, members, parts, shards, hints,
    object, history, entry, changes, refusals, inode, diagnostics

ofStdin == <<metadata, archived, taken>>
ofIndex == <<options, single, class, members, parts, shards, hints>>
ofEntry == <<object, history, entry, changes, refusals, inode, diagnostics>>
common == <<request, seen, pc, outcome, todo>>
all == <<part, vars, common, ofStdin, ofIndex, ofEntry>>

-----------------------------------------------------------------------------
(* Members of a group *)

at(s, ns) == [s |-> s, ns |-> ns]
x(o, l) == [offset |-> o, length |-> l]
Bytes(n) == [i \in 1 .. n |-> Byte(i)]
file(path, n) ==
    [path |-> path, kind |-> "regular", link |-> "", data |-> Bytes(n), extents |-> <<>>, mode |-> 1, origin |-> "native", attributes |-> <<>>,
     mtime |-> at(3, 0), os |-> "linux", owner |-> <<>>, created |-> <<>>, accessed |-> <<>>, profiles |-> {},
     records |-> <<>>, aux |-> <<>>]
aux(kind, profile, restore, native, label, n, streamed) ==
    [kind |-> kind, profile |-> profile, class |-> restore, native |-> native, name |-> label,
     payload |-> IF kind = "capture-report" THEN [i \in 1 .. n |-> Row("posix")] ELSE Bytes(n), streamed |-> streamed]
owned(m, uid, uname) == [m EXCEPT !.owner = <<[uid |-> uid, gid |-> 2, uname |-> uname, gname |-> "g"]>>]
sparse(m, extents) == [m EXCEPT !.extents = <<extents>>,
    !.data = [p \in DOMAIN @ |-> IF \E i \in DOMAIN extents : extents[i].offset < p /\ p <= extents[i].offset + extents[i].length THEN @[p] ELSE Zero]]
linked(kind, path, target) == [file(path, 0) EXCEPT !.kind = kind, !.link = target]

MCGroupMembers ==
    {file("a", 0), file("a", 4), [file("long", 5) EXCEPT !.mtime = at(-2, 1)], [file("a", 11) EXCEPT !.mode = 5],
     [file("a", 1) EXCEPT !.mtime = at(-1, 3)], [file("a", 1) EXCEPT !.accessed = <<at(-1, 0)>>, !.mtime = at(12, 0)],
     owned(file("a", 2), 12, "long"), owned(file("a", 2), 3, "u"),
     linked("symlink", "s", "long"), linked("hardlink", "h", "a"), linked("hardlink", "a", "a"), owned(linked("hardlink", "h", "long"), 12, "u"),
     [file("d/e/f", 1) EXCEPT !.origin = "projected", !.attributes = <<15>>], [file("a", 1) EXCEPT !.attributes = <<16>>],
     [file("d", 0) EXCEPT !.kind = "directory", !.created = <<at(2, 1)>>, !.os = "other-unix"],
     sparse(file("s", 6), <<x(1, 2), x(4, 1)>>), sparse(file("long", 9), <<x(0, 3), x(5, 4)>>), sparse(file("s", 3), <<>>),
     [file("a", 3) EXCEPT !.profiles = {"posix", "linux"}, !.created = <<at(1, 2)>>,
         !.records = ("LIBARCHIVE.creationtime" :> canonical_pax_value(at(1, 2))[1]) @@ ("LIBARCHIVE.xattr.user" :> "v")
                        @@ ("TZAP.linux.fsflags" :> "immutable"),
         !.aux = <<aux("xattr", "linux", "system", TRUE, "security", 5, FALSE), aux("capture-report", "core", "none", FALSE, "", 1, FALSE)>>],
     [file("a", 4) EXCEPT !.os = "macos", !.profiles = {"posix", "macos"}, !.aux = <<aux("resource-fork", "macos", "same-os", TRUE, "", 4, TRUE)>>]}

MCParentDirs == "d/e/f" :> <<"d", "d/e">>
MCNoFault == {[source |-> -1, what |-> "none"]}
MCFaults == MCNoFault \cup [source : {0, 1}, what : {"short", "grown", "changed"}]
MCDefects == {"none", "truncated", "trailing", "padding", "checksum", "no_pax", "two_pax", "label", "global", "mode", "size", "mtime",
              "owner", "origin", "attributes", "target", "ancestor_link", "ancestor_file", "link", "kind", "record", "profile", "hash", "map", "map_cut", "flags", "entry_size", "path"}

\* A member of an unnamed system, with the time it was created.
MCOther == {[file("a", 1) EXCEPT !.os = "other", !.created = <<at(2, 1)>>]}

-----------------------------------------------------------------------------
(* What comes on stdin *)

named(base) == [dots |-> 0, base |-> base, slashes |-> 0]
number(key, n) == [key |-> key, number |-> n]
name(key, base) == [key |-> key, name |-> named(base)]
time(neg, whole, frac) == [key |-> "mtime", time |-> [neg |-> neg, whole |-> whole, frac |-> frac]]
pax(records) == [type |-> "x", records |-> records, fault |-> "none"]
long_name(type, n) == [type |-> type, name |-> n, fault |-> "none"]
long_link(target) == [type |-> "K", link |-> target, fault |-> "none"]
item(type, n, cells, size) ==
    [type |-> type, name |-> n, link |-> "t", payload |-> cells, size |-> size, mode |-> 1, mtime |-> 2, uid |-> 1, gid |-> 1,
     uname |-> "", gname |-> "g", rows |-> <<>>, data |-> <<>>, fault |-> "none"]
plain(n, count) == item("0", n, Bytes(count), count)
mapped(rows, count) ==
    LET cells == encode_v45_sparse_map(rows) \o Bytes(count)
    IN  [item("0", named("GNUSparseFile"), cells, Len(cells)) EXCEPT !.rows = rows, !.data = Bytes(count)]
declares(real) == <<number("GNU.sparse.major", 1), number("GNU.sparse.minor", 0), name("GNU.sparse.name", "s"), number("GNU.sparse.realsize", real)>>

MCItems ==
    {pax(<<name("path", "p"), number("uid", 9)>>), pax(<<number("size", 1), number("comment", 0)>>), pax(<<time(TRUE, 2, 1)>>),
     pax(<<time(TRUE, 0, 1)>>), pax(<<number("comment", 0)>>), pax(<<name("path", "q"), name("path", "unsafe")>>),
     pax(declares(6)), pax(<<number("GNU.sparse.major", 1)>>), pax(<<number("GNU.sparse.other", 1)>>),
     [pax(<<[key |-> "linkpath", text |-> "l"]>>) EXCEPT !.fault = "padding"],
     long_name("L", named("long")), long_link("far"), long_link("unsafe"),
     plain(named("a"), 0), plain([named("a") EXCEPT !.dots = 1], 1), [plain(named("b"), 1) EXCEPT !.size = 0], item("0", named("z"), <<Zero>>, 0),
     [plain(named("a"), 2) EXCEPT !.fault = "padding"], [plain(named("a"), 2) EXCEPT !.fault = "cut"],
     [plain(named("a"), 0) EXCEPT !.fault = "header"],
     item("5", [named("d") EXCEPT !.slashes = 1], <<>>, 0), item("5", [named("d") EXCEPT !.slashes = 2], <<>>, 0),
     item("2", named("s"), <<>>, 0), item("1", named("h"), <<>>, 0), long_name("g", named("g")), [type |-> "zero"],
     mapped(<<x(0, 0), x(2, 1), x(6, 0)>>, 1), mapped(<<x(0, 2), x(5, 0), x(3, 1)>>, 3), mapped(<<x(0, 1), x(1, 1)>>, 2),
     mapped(<<x(0, 2), x(1, 0)>>, 2), mapped(<<x(4, 3)>>, 3), mapped(<<x(0, 2)>>, 1)}

ask(kind, api, width, tolerance, declared, n) ==
    [kind |-> kind, api |-> api, stripe_width |-> width, tolerance |-> tolerance, target |-> FALSE,
     declared |-> declared, data |-> Bytes(n)]
MCAsked ==
    {ask("tar", "sink", 2, 0, 0, 0), ask("tar", "archive", 2, 0, 0, 0), ask("tar", "sink", 1, 1, 0, 0)}
    \cup {ask("raw", "sink", 1, 0, declared, n) : declared \in {0, 3, 4}, n \in {0, 3, 4, 5}}

Stdin == INSTANCE TarStdin WITH
    Items <- MCItems, MaxItems <- 4, Requests <- MCAsked, Unsafe <- {"unsafe"}, MaxMetadata <- 4, MaxExtents <- 4

-----------------------------------------------------------------------------
(* The index: two names at two levels, so that a path may be a file and a   *)
(* directory may be implied; the hashes of the files "a/x" and "b/x"        *)
(* collide.  An index block holds one row; the archive may reserve 30       *)
(* percent, or 60, for which the class searched has a parity no field holds. *)

MCShapes == [path : {<<"a">>}, kind : {"file", "dir"}, frames : {1}]
              \cup [path : {<<"a", "x">>}, kind : {"file"}, frames : {1, 2}]
              \cup [path : {<<"b", "x">>}, kind : {"dir"}, frames : {1}]
MCRank == (<<>> :> 0) @@ (<<"a">> :> 1) @@ (<<"a", "x">> :> 2) @@ (<<"b">> :> 3) @@ (<<"b", "x">> :> 4)
MCHash == (<<>> :> 2) @@ (<<"a">> :> 1) @@ (<<"a", "x">> :> 3) @@ (<<"b">> :> 4) @@ (<<"b", "x">> :> 3)
MCIndexOptions ==
    {[block_size |-> 2, tag_len |-> 0, stripe_width |-> 1, volume_loss_tolerance |-> 0, bit_rot_buffer_pct |-> pct,
      fec_data_shards |-> 4, fec_parity_shards |-> 4, envelope_target_size |-> 4, chunk_size |-> 1,
      max_shards |-> 4, word_max |-> 100000] : pct \in {0, 30, 60}}

Index == INSTANCE IndexTables WITH
    Shapes <- MCShapes, Hash <- MCHash, PathRank <- MCRank, MaxMembers <- 4, FramesPerEnvelope <- 2, FilesPerShard <- 2,
    MaxRun <- 2, MaxFilesPerShard <- 3, HintThreshold <- 2, HintsPerShard <- 2, ScanCap <- 1, Fits <- BOOLEAN,
    Options <- MCIndexOptions, MinClass <- 1, BlockLimit <- 4, FieldLimit <- 4, ClassLimit <- 8

ASSUME IndexAssumption == Index!PartitionAssumption /\ Index!HashAssumption

-----------------------------------------------------------------------------
(* Native metadata: Linux objects with every combination of the attributes  *)
(* a step can clear, refuse or skip; entries of another system with what    *)
(* the plan refuses.                                                       *)

Always == {"mode", "mtime", "owner", "birth"}
MCObjects ==
    [kind : {"regular"},
     attrs : {Always \cup s : s \in SUBSET {"setid", "acl", "system_xattr", "flags", "no_change", "project_id"}}]
    \cup [kind : {"fifo"}, attrs : {Always \cup s : s \in SUBSET {"setid", "acl", "no_change"}}]
    \cup [kind : {"symlink"}, attrs : {{"owner", "mtime", "birth"} \cup s :
                                         s \in SUBSET {"xattr", "system_xattr", "aux_xattr", "aux_system_xattr"}}]
MCForeign ==
    [kind : {"regular"}, here : {FALSE}, required : BOOLEAN, unknown : BOOLEAN, partial : {"no", "optional", "required"},
     attrs : {{"mode", "mtime"} \cup s : s \in SUBSET {"hidden", "atime", "xattr", "aux_xattr", "flags", "unknown_flags", "sparse"}}]
    \cup [kind : {"regular"}, here : BOOLEAN, required : BOOLEAN, unknown : {FALSE}, partial : {"no"},
          attrs : {{"mode", "mtime", "wide_owner"} \cup s : s \in SUBSET {"setid", "xattr", "flags"}}]
MCRestores ==
    [policy : {"Content", "Portable", "SameOs"}, authorized : {FALSE}, degraded : BOOLEAN]
    \cup [policy : {"System"}, authorized : BOOLEAN, degraded : BOOLEAN]

Fidelity == INSTANCE EntryFidelity WITH
    Objects <- MCObjects, Foreign <- MCForeign, Requests <- MCRestores, MaxChanges <- 2, MaxRefusals <- 1

-----------------------------------------------------------------------------
NoGroup == /\ member = "none" /\ fault = "none" /\ defect = "none" /\ wr = [phase |-> "none"] /\ group = <<>> /\ push = <<>>
NoStdin == metadata = <<>> /\ archived = <<>> /\ taken = 0
NoIndex == /\ options = <<>> /\ single = FALSE /\ class = 0 /\ members = <<>> /\ parts = <<>> /\ shards = <<>> /\ hints = <<>>
NoEntry == /\ object = <<>> /\ history = {} /\ entry = <<>> /\ changes = 0 /\ refusals = 0 /\ inode = {} /\ diagnostics = {}

MembersInit ==
    /\ part \in Parts
    /\ \/ part = "group" /\ Init /\ NoStdin /\ NoIndex /\ NoEntry
          /\ request = <<>> /\ seen = <<>> /\ pc = "none" /\ outcome = "none" /\ todo = <<>>
       \/ part = "stdin" /\ NoGroup /\ Stdin!Init /\ todo = <<>> /\ NoIndex /\ NoEntry
       \/ part = "index" /\ NoGroup /\ NoStdin /\ Index!Init /\ request = <<>> /\ seen = <<>> /\ NoEntry
       \/ part = "entry" /\ NoGroup /\ NoStdin /\ NoIndex /\ Fidelity!Init /\ pc = "none"

\* The run of the part has come to its end.
Ended ==
    /\ CASE part = "group" -> wr.phase \in {"refused", "failed"} \/ (push # <<>> /\ push.verdict # "reading")
         [] part \in {"stdin", "index"} -> pc = "end"
         [] part = "entry" -> outcome # "open"
    /\ UNCHANGED all

MembersNext ==
    \/ part = "group" /\ Next /\ UNCHANGED <<part, common, ofStdin, ofIndex, ofEntry>>
    \/ part = "stdin" /\ Stdin!Next /\ UNCHANGED <<part, vars, todo, ofIndex, ofEntry>>
    \/ part = "index" /\ Index!Next /\ UNCHANGED <<part, vars, request, seen, ofStdin, ofEntry>>
    \/ part = "entry" /\ Fidelity!Next /\ UNCHANGED <<part, vars, pc, ofStdin, ofIndex>>
    \/ Ended

MembersSpec == MembersInit /\ [][MembersNext]_all

-----------------------------------------------------------------------------
\* TarStdin's property: archiving a tar stream archives its members and nothing
\* else, each with what its own headers say, and succeeds for a complete, sound
\* stream and only for one; a file of declared size is archived only if stdin
\* has exactly that many bytes (stream_tar_stdin_regulars).
ArchivesExactlyTheStream == part = "stdin" => Stdin!ArchivesExactlyTheStream

\* IndexTables' property: whatever was archived and however its rows were
\* partitioned and split, the reader accepts the tables the writer built, and
\* lookups, the list of final entries and directory listings are exact
\* (build_writer_plan_from_payload, locate_index_file, list_directory_contents).
IndexAnswers == part = "index" => Index!IndexAnswers

\* IndexTables' property: after its payload was streamed, a single-pass writer
\* never fails for the class it declared in advance
\* (max_single_pass_index_root_data_shards).
DeclaredClassSuffices == part = "index" => Index!DeclaredClassSuffices

\* EntryFidelity's property: a capture that succeeds while another process
\* changes the object recorded the attributes of one moment
\* (capture_linux_metadata).
CaptureIsConsistent == part = "entry" => Fidelity!CaptureIsConsistent

\* EntryFidelity's property: after a restore that succeeds, what the policy applies
\* of the archived attributes is still on the object or reported: no step undoes
\* another (apply_restored_regular_file_metadata_parts).
AppliedMetadataStands == part = "entry" => Fidelity!AppliedMetadataStands

\* What the specification and the CLI reference say of every restore: metadata that
\* is lost is reported or refused (native_primary_restore_unsupported).
NoSilentLoss == part = "entry" => Fidelity!NoSilentLoss

\* The comment on build_directory_hint_rows and the check of the reader: the
\* directory hints of a written archive are exact.
HintsMatchShards == part = "index" => Index!HintsMatchShards
================================================================================
