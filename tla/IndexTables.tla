----------------------------- MODULE IndexTables -----------------------------
(***************************************************************************)
(* The index of an archive, from both ends: build_writer_plan_from_payload *)
(* (writer/plan.rs) sorts the members, partitions them into IndexShards,   *)
(* splits a shard whose compressed bytes do not fit an object, builds the  *)
(* directory hints and the IndexRoot; the reader (reader/mod.rs,           *)
(* metadata.rs, validation.rs) parses and cross-checks these tables and    *)
(* answers lookups and directory listings from them.                       *)
(*                                                                         *)
(* A path is the sequence of its components, <<>> is the root directory.   *)
(* A member is known by its position in the tar stream, so a row of a file *)
(* table is that position and tar_member_group_start grows with it.        *)
(* hash_prefix is the constant Hash: it may collide, as 8 bytes of SHA-256 *)
(* may.  What zstd makes of a table is not known beforehand: whether a     *)
(* table fits one object is a choice made at every attempt.                *)
(***************************************************************************)
EXTENDS ObjectPlan, Sequences, FiniteSets, SequencesExt

CONSTANTS
    Shapes,          \* the members to consider: path, kind and number of frames
    Hash,            \* hash_prefix of every path and of every ancestor of one
    PathRank,        \* the byte order of the same paths
    MaxMembers,      \* bound on the members of the archive
    FramesPerEnvelope,
    FilesPerShard,   \* DEFAULT_FILES_PER_INDEX_SHARD
    MaxRun,          \* MAX_HASH_PREFIX_RUN_FILES
    MaxFilesPerShard,\* MAX_FILES_PER_INDEX_SHARD
    HintThreshold,   \* DIRECTORY_HINT_REQUIRED_FILE_COUNT
    HintsPerShard,   \* DEFAULT_DIRECTORY_HINT_ENTRIES_PER_SHARD
    ScanCap,         \* max_hash_collision_shard_scan
    Fits,            \* the outcomes of index_object_can_fit to consider
    Options,         \* the WriterOptions to consider
    MinClass,        \* MIN_INDEX_ROOT_FEC_DATA_SHARDS
    BlockLimit,      \* the largest data class a header field can declare
    FieldLimit,      \* u16::MAX: the largest parity a header field can declare
    ClassLimit       \* READER_MAX_INDEX_ROOT_FEC_CLASS_SHARDS

Paths == {s.path : s \in Shapes}
Ancestors(p) == {SubSeq(p, 1, n) : n \in 0 .. Len(p) - 1}
AllPaths == Paths \cup UNION {Ancestors(p) : p \in Paths}

\* The refusal "hash-prefix collision run exceeds max_files_per_index_shard"
\* (envelope.rs:657) cannot happen with the constants of writer/mod.rs.
PartitionAssumption ==
    /\ FilesPerShard \in Nat \ {0} /\ MaxRun \in Nat \ {0}
    /\ FilesPerShard + MaxRun - 1 <= MaxFilesPerShard
HashAssumption ==
    /\ DOMAIN Hash = AllPaths
    /\ \A p, q \in AllPaths : p # q => PathRank[p] # PathRank[q]

VARIABLES
    options,   \* the planned options; a single-pass writer has declared them
    single,    \* whether the header was written before the payload
    class,     \* index_root_fec_data_shards
    pc,        \* how far the plan is
    members,   \* the tar members, in stream order
    parts,     \* shard_file_rows: what partition_file_rows returned
    todo,      \* row lists still to be built, as append_*_for_rows recurses
    shards,    \* the IndexRoot's shard table with the IndexShards it locates
    hints,     \* the IndexRoot's hint table with the tables it locates
    outcome    \* "none", "written" or the refusal

vars == <<options, single, class, pc, members, parts, todo, shards, hints, outcome>>

hash(m) == Hash[members[m].path]

\* The elements of S in the strict order Before.
InOrder(S, Before(_, _)) ==
    [k \in 1 .. Cardinality(S) |->
        CHOOSE x \in S : Cardinality({y \in S : Before(y, x)}) = k - 1]

-----------------------------------------------------------------------------
(***************************************************************************)
(* Writer: rows and shards                                                 *)
(***************************************************************************)

\* The sort key of a file row: (path_hash, path, tar_member_group_start).
RowBefore(m, n) ==
    LET p == members[m].path
        q == members[n].path
    IN  \/ Hash[p] < Hash[q]
        \/ Hash[p] = Hash[q] /\ PathRank[p] < PathRank[q]
        \/ p = q /\ m < n

sorted_file_rows == InOrder(DOMAIN members, RowBefore)

\* Where the shard that starts at row s ends: after FilesPerShard rows, but
\* a run of equal hashes is kept together unless it is longer than MaxRun.
partition_end(rows, s) ==
    LET n   == Len(rows)
        e   == Min({s + FilesPerShard - 1, n})
        run == {k \in 1 .. n : hash(rows[k]) = hash(rows[e])}
        run_start_in_shard == Min({k \in run : k >= s})
    IN  IF e = n \/ hash(rows[e]) # hash(rows[e + 1]) THEN e
        ELSE IF Cardinality(run) <= MaxRun THEN Max(run)
        ELSE Min({run_start_in_shard + MaxRun - 1, Max(run)})

partition_file_rows(rows) ==
    LET from[s \in 1 .. Len(rows) + 1] ==
            IF s > Len(rows) THEN <<>>
            ELSE LET e == partition_end(rows, s)
                 IN  <<SubSeq(rows, s, e)>> \o from[e + 1]
    IN  from[1]

\* How many rows go to the left shard: half of them, moved to the nearer end
\* of the run of equal hashes that the middle would cut.
split_sorted_file_rows_for_object_limit(rows) ==
    LET mid   == Len(rows) \div 2
        run   == {k \in 1 .. Len(rows) : hash(rows[k]) = hash(rows[mid + 1])}
        left  == Min(run) - 1
        right == Max(run)
    IN  IF hash(rows[mid]) # hash(rows[mid + 1]) THEN mid
        ELSE IF left = 0 /\ right = Len(rows) THEN mid
        ELSE IF right = Len(rows) \/ (left > 0 /\ mid - left <= right - mid) THEN left
        ELSE right

\* member_frame_range: the frames of member m; every member starts a frame.
\* A frame holds one unit of the tar stream, so it starts at its own index.
FirstFrame(m) == FoldFunction(+, 0, [k \in 1 .. m - 1 |-> members[k].frames])
FrameCount == FirstFrame(Len(members) + 1)

FileEntry(m) ==
    [path |-> members[m].path, path_hash |-> hash(m), kind |-> members[m].kind,
     first_frame_index |-> FirstFrame(m), frame_count |-> members[m].frames,
     tar_member_group_size |-> members[m].frames]

FrameEntry(f) ==
    [frame_index |-> f, tar_stream_offset |-> f,
     envelope_index |-> f \div FramesPerEnvelope,
     offset_in_envelope |-> f % FramesPerEnvelope]

\* envelope_frame_range: the last envelope may hold fewer frames.
EnvelopeEntry(e) ==
    [envelope_index |-> e, first_frame_index |-> e * FramesPerEnvelope,
     frame_count |-> Min({FramesPerEnvelope, FrameCount - e * FramesPerEnvelope})]

\* An IndexShard and the ShardEntry that locates it.
build_index_shard_plaintext(index, rows) ==
    LET required == UNION {FirstFrame(m) .. FirstFrame(m) + members[m].frames - 1 : m \in Range(rows)}
        frames   == [k \in 1 .. Cardinality(required) |-> FrameEntry(InOrder(required, <)[k])]
        envs     == {f.envelope_index : f \in Range(frames)}
    IN  [entry |-> [shard_index |-> index, file_count |-> Len(rows),
                    first_path_hash |-> hash(rows[1]), last_path_hash |-> hash(rows[Len(rows)])],
         body  |-> [shard_index |-> index, frames |-> frames,
                    files |-> [k \in DOMAIN rows |-> FileEntry(rows[k])],
                    envelopes |-> [k \in 1 .. Cardinality(envs) |-> EnvelopeEntry(InOrder(envs, <)[k])]]]

(***************************************************************************)
(* Writer: directory hints                                                 *)
(***************************************************************************)

\* The directories a row counts for: its ancestors, and itself if it is one.
add_directory_hint_rows(m) ==
    Ancestors(members[m].path)
        \cup (IF members[m].kind = "dir" THEN {members[m].path} ELSE {})

DirBefore(a, b) ==
    \/ Hash[a.dir] < Hash[b.dir]
    \/ Hash[a.dir] = Hash[b.dir] /\ PathRank[a.dir] < PathRank[b.dir]

\* The hint rows of the partition: every directory with the positions of the
\* row lists that hold something of it.
build_directory_hint_rows(lists) ==
    LET dirs == UNION {add_directory_hint_rows(m) : m \in DOMAIN members}
    IN  InOrder({[dir |-> d,
                  rows |-> {k \in DOMAIN lists :
                      \E m \in Range(lists[k]) : d \in add_directory_hint_rows(m)}]
                   : d \in dirs}, DirBefore)

Chunks(s, n) ==
    [k \in 1 .. ceil_div(Len(s), n) |->
        SubSeq(s, (k - 1) * n + 1, Min({k * n, Len(s)}))]

build_directory_hint_plaintext(index, rows) ==
    [hint_shard_index |-> index, entries |-> rows,
     first |-> Hash[rows[1].dir], last |-> Hash[rows[Len(rows)].dir]]

(***************************************************************************)
(* Writer: the IndexRoot class                                             *)
(***************************************************************************)

\* Mutant: the search does not come back to the half above a class that fits.
max_class_stops_early(o) ==
    LET fits(n) == compute_parity(o, n) # NoPlan
                   /\ n + compute_parity(o, n) <= ClassLimit
        search[low \in 0 .. BlockLimit + 1, high \in -1 .. BlockLimit, best \in Nat] ==
            LET mid == low + (high - low) \div 2
            IN  IF low > high THEN best
                ELSE IF fits(mid) THEN mid
                ELSE search[low, mid - 1, best]
    IN  search[MinClass, BlockLimit, MinClass]

\* The binary search for the largest data class whose parity still leaves the
\* class within what a reader accepts.
max_single_pass_index_root_data_shards(o) ==
    LET fits(n) == compute_parity(o, n) # NoPlan
                   /\ n + compute_parity(o, n) <= ClassLimit
        search[low \in 0 .. BlockLimit + 1, high \in -1 .. BlockLimit, best \in Nat] ==
            LET mid == low + (high - low) \div 2
            IN  IF low > high THEN best
                ELSE IF fits(mid) THEN search[mid + 1, high, mid]
                ELSE search[low, mid - 1, best]
    IN  search[MinClass, BlockLimit, MinClass]

\* compute_parity_u16: a parity that its header field can hold.
compute_parity_u16(o, n) ==
    IF compute_parity(o, n) <= FieldLimit THEN compute_parity(o, n) ELSE NoPlan

\* The IndexRoot grows by a row for every shard and every hint shard.
RootBlocks == data_block_count(options, 1 + Len(shards) + Len(hints))

\* plan_index_root_metadata_class: the data class the IndexRoot needs, or
\* NoPlan when it can be no object of any class.
RequiredClass ==
    LET parity   == compute_parity_u16(options, RootBlocks)
        required == Max({class, MinClass, RootBlocks})
    IN  IF \/ parity = NoPlan \/ RootBlocks > FieldLimit
           \/ RootBlocks + parity > options.max_shards
           \/ compute_parity_u16(options, required) = NoPlan
        THEN NoPlan ELSE required

-----------------------------------------------------------------------------
(***************************************************************************)
(* Writer: steps                                                           *)
(***************************************************************************)

\* plan_single_pass_writer_options: the options are planned a second time with
\* the class found, and refused if the parity of that class has no field.
Init ==
    /\ options \in Options
    /\ single \in BOOLEAN
    /\ class = IF single THEN max_single_pass_index_root_data_shards(options)
                         ELSE MinClass
    /\ IF single /\ compute_parity_u16(options, class) = NoPlan
       THEN pc = "end" /\ outcome = "index_root_fec_parity_shards"
       ELSE pc = "payload" /\ outcome = "none"
    /\ members = <<>> /\ parts = <<>> /\ todo = <<>>
    /\ shards = <<>> /\ hints = <<>>

\* The payload stream closes another member (its frames are packed into
\* envelopes as ParallelWriter and SinglePassWriter show).
AddMember ==
    /\ pc = "payload" /\ Len(members) < MaxMembers
    /\ \E s \in Shapes : members' = Append(members, s)
    /\ UNCHANGED <<options, single, class, pc, parts, todo, shards, hints, outcome>>

\* The payload ends; the members are sorted and partitioned.
PlanRows ==
    /\ pc = "payload"
    /\ parts' = partition_file_rows(sorted_file_rows)
    /\ todo' = parts'
    /\ pc' = "shards"
    /\ UNCHANGED <<options, single, class, members, shards, hints, outcome>>

\* append_index_shards_for_rows for the next row list: a shard that fits its
\* object is planned, one of several rows is split, one of one row refused.
AppendShard ==
    /\ pc = "shards" /\ todo # <<>>
    /\ \E fits \in Fits :
           LET rows == Head(todo)
               at   == split_sorted_file_rows_for_object_limit(rows)
           IN  \/ /\ fits
                  /\ shards' = Append(shards, build_index_shard_plaintext(Len(shards), rows))
                  /\ todo' = Tail(todo)
                  /\ UNCHANGED <<pc, outcome>>
               \/ /\ ~fits /\ Len(rows) > 1
                  /\ todo' = <<SubSeq(rows, 1, at), SubSeq(rows, at + 1, Len(rows))>> \o Tail(todo)
                  /\ UNCHANGED <<shards, pc, outcome>>
               \/ /\ ~fits /\ Len(rows) = 1
                  /\ outcome' = "single-file IndexShard exceeds index object limits"
                  /\ pc' = "end"
                  /\ UNCHANGED <<shards, todo>>
    /\ UNCHANGED <<options, single, class, members, parts, hints>>

\* should_emit_directory_hints and build_directory_hint_plaintexts: the hint
\* rows are those of the partition, taken before any shard was split.
PlanHints ==
    /\ pc = "shards" /\ todo = <<>>
    /\ todo' = IF Len(members) > HintThreshold
               THEN Chunks(build_directory_hint_rows(parts), HintsPerShard) ELSE <<>>
    /\ pc' = "hints"
    /\ UNCHANGED <<options, single, class, members, parts, shards, hints, outcome>>

AppendHintShard ==
    /\ pc = "hints" /\ todo # <<>>
    /\ \E fits \in Fits :
           LET rows == Head(todo)
               at   == Len(rows) \div 2
           IN  \/ /\ fits
                  /\ hints' = Append(hints, build_directory_hint_plaintext(Len(hints), rows))
                  /\ todo' = Tail(todo)
                  /\ UNCHANGED <<pc, outcome>>
               \/ /\ ~fits /\ Len(rows) > 1
                  /\ todo' = <<SubSeq(rows, 1, at), SubSeq(rows, at + 1, Len(rows))>> \o Tail(todo)
                  /\ UNCHANGED <<hints, pc, outcome>>
               \/ /\ ~fits /\ Len(rows) = 1
                  /\ outcome' = "single DirectoryHintEntry exceeds index object limits"
                  /\ pc' = "end"
                  /\ UNCHANGED <<hints, todo>>
    /\ UNCHANGED <<options, single, class, members, parts, shards>>

\* plan_index_root_metadata_class, and the comparison with a header that a
\* single-pass writer has already written.
PlanRoot ==
    /\ pc = "hints" /\ todo = <<>>
    /\ pc' = "end"
    /\ outcome' = CASE RequiredClass = NoPlan -> "IndexRoot too large"
                    [] RequiredClass # NoPlan /\ single /\ RequiredClass # class
                         -> "metadata exceeded the predeclared header class"
                    [] OTHER -> "written"
    /\ class' = IF outcome' = "written" THEN RequiredClass ELSE class
    /\ UNCHANGED <<options, single, members, parts, todo, shards, hints>>

Next ==
    \/ AddMember \/ PlanRows \/ AppendShard
    \/ PlanHints \/ AppendHintShard \/ PlanRoot

Spec == Init /\ [][Next]_vars

-----------------------------------------------------------------------------
(***************************************************************************)
(* Reader: the tables a written archive opens with                         *)
(***************************************************************************)

\* parse_shard_entries: rows sorted, hash ranges that meet at most in a hash.
parse_shard_entries(entries) ==
    /\ \A k \in DOMAIN entries :
           entries[k].file_count > 0 /\ entries[k].first_path_hash <= entries[k].last_path_hash
    /\ \A j, k \in DOMAIN entries : j # k => entries[j].shard_index # entries[k].shard_index
    /\ \A k \in 2 .. Len(entries) :
           LET previous == entries[k - 1]
               this     == entries[k]
           IN  /\ previous.last_path_hash <= this.first_path_hash
               /\ \/ previous.first_path_hash < this.first_path_hash
                  \/ previous.last_path_hash < this.last_path_hash
                  \/ previous.shard_index < this.shard_index

parse_directory_hint_shard_entries ==
    /\ \A k \in DOMAIN hints : Len(hints[k].entries) > 0 /\ hints[k].first <= hints[k].last
    /\ \A k \in 2 .. Len(hints) :
           /\ hints[k - 1].last <= hints[k].first
           /\ hints[k - 1].hint_shard_index # hints[k].hint_shard_index

\* IndexRoot::parse and validate_index_root_totals.
IndexRootParses ==
    /\ parse_shard_entries([k \in DOMAIN shards |-> shards[k].entry])
    /\ hints # <<>> => shards # <<>>
    /\ parse_directory_hint_shard_entries
    /\ FoldFunction(+, 0, [k \in DOMAIN shards |-> shards[k].entry.file_count]) = Len(members)

\* Frames sorted; neighbours packed, the others with a gap between them.
validate_frame_table(frames) ==
    \A k \in 2 .. Len(frames) :
        LET end == frames[k - 1].tar_stream_offset + 1
        IN  IF frames[k].frame_index = frames[k - 1].frame_index + 1
            THEN frames[k].tar_stream_offset = end
            ELSE /\ frames[k].frame_index > frames[k - 1].frame_index
                 /\ frames[k].tar_stream_offset > end

validate_envelope_table(envelopes) ==
    /\ \A k \in DOMAIN envelopes : envelopes[k].frame_count > 0
    /\ \A k \in 2 .. Len(envelopes) : envelopes[k - 1].envelope_index < envelopes[k].envelope_index

\* tar_member_group_start: the first frame's place in the tar stream.
StartOf(body, file) ==
    (CHOOSE f \in Range(body.frames) : f.frame_index = file.first_frame_index).tar_stream_offset

EntryBefore(a, aStart, b, bStart) ==
    \/ a.path_hash < b.path_hash
    \/ a.path_hash = b.path_hash /\ PathRank[a.path] < PathRank[b.path]
    \/ a.path = b.path /\ aStart < bStart

validate_file_order(body) ==
    \A k \in 2 .. Len(body.files) :
        EntryBefore(body.files[k - 1], StartOf(body, body.files[k - 1]),
                    body.files[k], StartOf(body, body.files[k]))

\* frame_for_file and validate_file_frame_range: every frame of the range is
\* in the table and the range is the least that holds the group.
validate_file_frame_range(body, file) ==
    /\ file.frame_count > 0
    /\ \A n \in 0 .. file.frame_count - 1 :
           \E f \in Range(body.frames) : f.frame_index = file.first_frame_index + n
    /\ file.frame_count - 1 < file.tar_member_group_size
    /\ file.tar_member_group_size <= file.frame_count

\* validate_frame_envelope_binding and validate_frame_slices_by_envelope: a
\* frame lies in the range of its envelope, slices do not overlap, and those of
\* an envelope with all its frames in the table fill it.
validate_frames_in_envelopes(body) ==
    LET frames == Range(body.frames)
        own(e) == {f \in frames : f.envelope_index = e.envelope_index}
    IN  /\ \A f \in frames : \E e \in Range(body.envelopes) :
               /\ f \in own(e)
               /\ e.first_frame_index <= f.frame_index
               /\ f.frame_index < e.first_frame_index + e.frame_count
               /\ f.offset_in_envelope < e.frame_count
        /\ \A e \in Range(body.envelopes) :
               LET last == e.first_frame_index + e.frame_count - 1
               IN  /\ \A f, g \in own(e) : f.offset_in_envelope = g.offset_in_envelope => f = g
                   /\ e.first_frame_index .. last \subseteq {f.frame_index : f \in own(e)}
                        => {f.offset_in_envelope : f \in own(e)} = 0 .. e.frame_count - 1

\* validate_index_shard_tables: the frames and envelopes are exactly the ones
\* the rows refer to, and the hashes are those of the locating entry.
validate_index_shard_tables(body, entry) ==
    /\ validate_frame_table(body.frames)
    /\ validate_envelope_table(body.envelopes)
    /\ \A k \in DOMAIN body.files :
           /\ entry.first_path_hash <= body.files[k].path_hash
           /\ body.files[k].path_hash <= entry.last_path_hash
           /\ body.files[k].path_hash = Hash[body.files[k].path]
           /\ validate_file_frame_range(body, body.files[k])
    /\ validate_file_order(body)
    /\ {f.frame_index : f \in Range(body.frames)}
         = UNION {file.first_frame_index .. file.first_frame_index + file.frame_count - 1
                    : file \in Range(body.files)}
    /\ {e.envelope_index : e \in Range(body.envelopes)} = {f.envelope_index : f \in Range(body.frames)}
    /\ validate_frames_in_envelopes(body)
    /\ body.files[1].path_hash = entry.first_path_hash
    /\ body.files[Len(body.files)].path_hash = entry.last_path_hash

\* load_index_shard and IndexShard::parse.
IndexShardParses(s) ==
    /\ 0 < Len(s.body.files) /\ Len(s.body.files) <= MaxFilesPerShard
    /\ s.body.shard_index = s.entry.shard_index
    /\ Len(s.body.files) = s.entry.file_count
    /\ validate_index_shard_tables(s.body, s.entry)

\* Every frame is in exactly the envelope whose range it is in, and the
\* frames of an envelope fill it.
validate_envelope_frame_coverage(frames, envelopes) ==
    /\ \A e \in envelopes :
           LET own == {f \in frames : e.first_frame_index <= f.frame_index
                                      /\ f.frame_index < e.first_frame_index + e.frame_count}
           IN  /\ \A f \in own : f.envelope_index = e.envelope_index
               /\ {f.offset_in_envelope : f \in own} = 0 .. e.frame_count - 1
    /\ \A f \in frames : \E e \in envelopes : e.envelope_index = f.envelope_index

validate_global_file_table_order ==
    \A j, k \in DOMAIN shards : j < k =>
        LET a == shards[j].body
            b == shards[k].body
        IN  EntryBefore(a.files[Len(a.files)], StartOf(a, a.files[Len(a.files)]),
                        b.files[1], StartOf(b, b.files[1]))

\* load_payload_index_tables: what every shard says of a frame or envelope
\* agrees, and together they leave no gap.
PayloadTablesLoad ==
    LET bodies    == {shards[k].body : k \in DOMAIN shards}
        frames    == UNION {Range(b.frames) : b \in bodies}
        envelopes == UNION {Range(b.envelopes) : b \in bodies}
    IN  /\ Len(members) > HintThreshold => hints # <<>>
        /\ \A k \in DOMAIN shards : IndexShardParses(shards[k])
        /\ \A f, g \in frames : f.frame_index = g.frame_index => f = g
        /\ \A d, e \in envelopes : d.envelope_index = e.envelope_index => d = e
        /\ validate_global_file_table_order
        /\ {f.frame_index : f \in frames} = 0 .. FrameCount - 1
        /\ {e.envelope_index : e \in envelopes} = 0 .. ceil_div(FrameCount, FramesPerEnvelope) - 1
        /\ validate_envelope_frame_coverage(frames, envelopes)

\* validate_streamed_payload_summary: every row is the member of the decoded
\* tar stream that starts there.
RowsMatchStream ==
    \A k \in DOMAIN shards : \A file \in Range(shards[k].body.files) :
        \E m \in DOMAIN members :
            /\ FirstFrame(m) = StartOf(shards[k].body, file)
            /\ members[m].path = file.path
            /\ members[m].frames = file.tar_member_group_size

\* DirectoryHintTable::parse: entries sorted, row lists not empty and in the
\* shard table.
HintTableParses(t) ==
    /\ t.first = Hash[t.entries[1].dir] /\ t.last = Hash[t.entries[Len(t.entries)].dir]
    /\ \A k \in 2 .. Len(t.entries) : DirBefore(t.entries[k - 1], t.entries[k])
    /\ \A k \in DOMAIN t.entries :
           t.entries[k].rows # {} /\ t.entries[k].rows \subseteq DOMAIN shards

\* add_expected_directory_hint_rows over the shard rows the reader loaded.
expected_directory_hints ==
    LET of(file) == Ancestors(file.path) \cup (IF file.kind = "dir" THEN {file.path} ELSE {})
        all      == UNION {UNION {of(f) : f \in Range(shards[k].body.files)} : k \in DOMAIN shards}
    IN  InOrder({[dir |-> d, rows |-> {k \in DOMAIN shards :
                      \E f \in Range(shards[k].body.files) : d \in of(f)}] : d \in all}, DirBefore)

\* validate_directory_hint_tables_against_expected.
hints_match_expected ==
    /\ \A k \in DOMAIN hints : HintTableParses(hints[k])
    /\ FlattenSeq([k \in DOMAIN hints |-> hints[k].entries]) = expected_directory_hints

verify ==
    /\ IndexRootParses /\ PayloadTablesLoad /\ RowsMatchStream
    /\ hints # <<>> => hints_match_expected

(***************************************************************************)
(* Reader: lookups                                                         *)
(***************************************************************************)

\* Mutant: only the landing shard is searched.
candidates_landing_only(h) ==
    LET below == {k \in DOMAIN shards : shards[k].entry.first_path_hash <= h}
    IN  IF below = {} \/ shards[Max(below)].entry.last_path_hash < h
        THEN {} ELSE {Max(below)}

\* candidate_interval_indexes: the last shard that starts at or below h, and
\* those to its left that reach h; NoPlan when they are more than the cap.
candidate_interval_indexes(h) ==
    LET entry(k) == shards[k].entry
        below    == {k \in DOMAIN shards : entry(k).first_path_hash <= h}
        landing  == Max(below)
        left     == {k \in 1 .. landing - 1 : \A j \in k .. landing - 1 :
                        entry(j).first_path_hash <= h /\ h <= entry(j).last_path_hash}
    IN  IF below = {} \/ entry(landing).last_path_hash < h THEN {}
        ELSE IF Cardinality(left) > ScanCap THEN {NoPlan}
        ELSE left \cup {landing}

\* lookup_file_index: the last row of path p in a shard, if there is one.
lookup_file_index(body, p) ==
    LET own == {k \in DOMAIN body.files : body.files[k].path = p}
    IN  IF own = {} THEN {} ELSE {StartOf(body, body.files[Max(own)])}

\* locate_index_file and lookup_index_entries: the greatest start among the
\* candidates, -1 for none; a run above the cap is an error.
locate_index_file(p) ==
    LET c == candidate_interval_indexes(Hash[p])
    IN  [found |-> c # {NoPlan},
         start |-> IF c = {NoPlan} THEN -1
                   ELSE Max({-1} \cup UNION {lookup_file_index(shards[k].body, p) : k \in c})]

\* final_index_entry_winners of a set of loaded shards: path to start.
final_index_entry_winners(loaded) ==
    LET bodies == {shards[k].body : k \in loaded}
        paths  == UNION {{f.path : f \in Range(b.files)} : b \in bodies}
    IN  [p \in paths |-> Max(UNION {{StartOf(b, f) : f \in {g \in Range(b.files) : g.path = p}} : b \in bodies})]

\* The shard rows list_directory_contents loads: those of the first hint
\* shard whose hash range holds the directory, all of them without hints.
shard_rows_for_directory(d) ==
    LET found == {k \in DOMAIN hints : hints[k].first <= Hash[d] /\ Hash[d] <= hints[k].last}
        entry == {e \in Range(hints[Min(found)].entries) : e.dir = d}
    IN  IF hints = <<>> THEN DOMAIN shards
        ELSE IF found = {} \/ entry = {} THEN {}
        ELSE (CHOOSE e \in entry : TRUE).rows \cap DOMAIN shards

\* What lies directly in directory d: an entry of the index where there is
\* one, an implied directory (-1) where only something below it is archived.
list_directory_contents(d) ==
    LET winners  == final_index_entry_winners(shard_rows_for_directory(d))
        inside   == {p \in DOMAIN winners : d \in Ancestors(p)}
        child(p) == SubSeq(p, 1, Len(d) + 1)
    IN  [c \in {child(p) : p \in inside} |->
            IF c \in DOMAIN winners THEN winners[c] ELSE -1]

\* frame_range_for_file and DecodedTarMemberGroupReader: the units of the tar
\* stream that the reader decodes for the row that starts at start.
DecodedGroup(start) ==
    UNION {UNION {{f.tar_stream_offset : f \in
                      {g \in Range(shards[k].body.frames) :
                          /\ file.first_frame_index <= g.frame_index
                          /\ g.frame_index < file.first_frame_index + file.frame_count
                          /\ \E e \in Range(shards[k].body.envelopes) : e.envelope_index = g.envelope_index}}
                  : file \in {x \in Range(shards[k].body.files) : StartOf(shards[k].body, x) = start}}
           : k \in DOMAIN shards}

-----------------------------------------------------------------------------
(***************************************************************************)
(* Properties                                                              *)
(***************************************************************************)

Written == pc = "end" /\ outcome = "written"
Archived == {members[m].path : m \in DOMAIN members}
WasSplit == Len(shards) # Len(parts)

\* Where the last member of path p starts, -1 if there is none.
LatestStart(p) == Max({-1} \cup {FirstFrame(m) : m \in {n \in DOMAIN members : members[n].path = p}})
GroupAt(start) ==
    UNION {FirstFrame(m) .. FirstFrame(m) + members[m].frames - 1
             : m \in {n \in DOMAIN members : FirstFrame(n) = start}}
Contents(d) ==
    [c \in {SubSeq(p, 1, Len(d) + 1) : p \in {q \in Archived : d \in Ancestors(q)}} |-> LatestStart(c)]

\* Whatever was archived, however its rows were partitioned and split and
\* however path hashes collide: the reader accepts the tables the writer
\* built, a lookup finds the last member of that path and decodes exactly its
\* frames (or is refused because the hash spans more shards than the scan
\* cap), the list of final entries is exact, and the listing of a directory is
\* what is in it, if no two directories have the same hash.  Hints built before
\* a shard was split are left to HintsMatchShards (reader/mod.rs:1690-1866,
\* 2288-2332, 2661-2677).
IndexAnswers ==
    Written /\ (hints = <<>> \/ ~WasSplit) =>
        /\ verify
        /\ \A p \in Paths :
              LET answer == locate_index_file(p)
                  span   == {k \in DOMAIN shards :
                                /\ shards[k].entry.first_path_hash <= Hash[p]
                                /\ Hash[p] <= shards[k].entry.last_path_hash}
              IN  IF answer.found
                  THEN /\ answer.start = LatestStart(p)
                       /\ DecodedGroup(answer.start) = GroupAt(answer.start)
                  ELSE Cardinality(span) > ScanCap + 1
        /\ final_index_entry_winners(DOMAIN shards) = [p \in Archived |-> LatestStart(p)]
        /\ \A d \in AllPaths : list_directory_contents(d) = Contents(d)

\* A single-pass writer that has streamed its payload never fails for the class
\* it declared before it knew the index: whatever the members and the splits,
\* an IndexRoot that can be an object at all fits the class of its header
\* (writer/mod.rs:1524-1545, the refusals at writer/mod.rs:1739 and
\* writer/parallel.rs:292 are never met).
DeclaredClassSuffices == outcome # "metadata exceeded the predeclared header class"

\* The directory hints of a written archive are exact: the reader accepts
\* them against the shard rows it loaded (writer/envelope.rs:971-975,
\* reader/validation.rs:1227-1251).
HintsMatchShards == Written /\ hints # <<>> => hints_match_expected
=============================================================================
