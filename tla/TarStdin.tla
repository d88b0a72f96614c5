------------------------------ MODULE TarStdin ------------------------------
(***************************************************************************)
(* Archiving what comes on stdin: a tar stream (stream_tar_stdin_regulars),*)
(* rewritten member by member, or the bytes of one file of declared size.  *)
(* The producer is free: every step takes one of Items, or stdin ends.  An *)
(* item is one entry of the stream, header to padding, or a zero block.    *)
(* Its fault, if any, is a damaged header, a payload that stdin cuts off,  *)
(* or padding that is not zero.  A name is [dots, base, slashes]: the      *)
(* number of leading "./" and of trailing "/".  What the layout of a       *)
(* member refuses behind this loop is left to TarGroup: no item asks for   *)
(* it.                                                                     *)
(***************************************************************************)
EXTENDS TarMember, TLC

CONSTANTS
    Items,          \* what a producer may send next
    MaxItems,       \* bound: items of a stream
    Requests,       \* [kind, api, stripe_width, tolerance, target, declared, data]
    Unsafe,         \* paths and link targets that are not allowed in an archive
    MaxMetadata,    \* MAX_TAR_STDIN_METADATA_PAYLOAD_BYTES, in records
    MaxExtents      \* MAX_SPARSE_EXTENTS

VARIABLES
    request,
    seen,           \* the items read so far
    metadata,       \* LocalTarMetadata: the fields that are Some, by name
    pc, archived,   \* members handed to the writer
    taken,          \* bytes of raw stdin read
    outcome         \* "open", "ok" or "err"

vars == <<request, seen, metadata, pc, archived, taken, outcome>>

NoMetadata == [k \in {} |-> 0]

Init ==
    /\ request \in Requests /\ seen = <<>> /\ metadata = NoMetadata
    /\ pc = "options" /\ archived = <<>> /\ taken = 0 /\ outcome = "open"

End(result) == pc' = "end" /\ outcome' = result

\* write_tar_stream_archive returns one volume; neither stream can be planned for lost volumes or a volume size.
validate_streaming_create_writer_options ==
    /\ request.api = "archive" => request.stripe_width = 1
    /\ request.tolerance = 0 /\ ~request.target

CheckOptions ==
    /\ pc = "options"
    /\ IF validate_streaming_create_writer_options THEN pc' = request.kind /\ UNCHANGED outcome ELSE End("err")
    /\ UNCHANGED <<request, seen, metadata, archived, taken>>

-----------------------------------------------------------------------------
(* Metadata headers *)

has_pending(md) == DOMAIN md # {}

\* A signed decimal to a timespec; none for one between -1 and 0.
MtimeAccepted(d) == ~(d.neg /\ d.whole = 0 /\ d.frac # 0)
parse_pax_mtime(d) ==
    IF d.neg /\ d.whole > 0 /\ d.frac # 0 THEN [s |-> -d.whole - 1, ns |-> Nanos - d.frac]
    ELSE [s |-> IF d.neg THEN -d.whole ELSE d.whole, ns |-> d.frac]

Kept == {"path", "linkpath", "size", "mode", "mtime", "uid", "gid", "uname", "gname",
         "GNU.sparse.major", "GNU.sparse.minor", "GNU.sparse.name", "GNU.sparse.realsize"}
RecordsAccepted(records) ==
    \A i \in DOMAIN records : /\ records[i].key \notin {"malformed", "GNU.sparse.other"}
                              /\ records[i].key = "mtime" => MtimeAccepted(records[i].time)
\* A record has a name, a text, a number or a time.
Value(record) == record[CHOOSE f \in DOMAIN record : f # "key"]
Field(record) == IF record.key = "mtime" THEN parse_pax_mtime(record.time) ELSE Value(record)
With(md, key, value) == [k \in DOMAIN md \cup {key} |-> IF k = key THEN value ELSE md[k]]
parse_pax_records(records, md) ==
    FoldLeft(LAMBDA acc, r : IF r.key \in Kept THEN With(acc, r.key, Field(r)) ELSE acc, md, records)

MetadataAccepted(item) ==
    /\ item.fault = "none"
    /\ item.type = "x" => Len(item.records) <= MaxMetadata /\ RecordsAccepted(item.records)
Metadata(item, md) ==
    LET pending == With(md, "pending_header", TRUE)
    IN  CASE item.type = "x" -> parse_pax_records(item.records, pending)
          [] item.type = "L" -> With(pending, "gnu_long_name", item.name)
          [] item.type = "K" -> With(pending, "gnu_long_link", item.link)

-----------------------------------------------------------------------------
(* Main entries *)

Either(md, keys, default) ==
    LET some == SelectSeq(keys, LAMBDA k : Has(md, k)) IN IF some = <<>> THEN default ELSE md[Head(some)]

canonical_main_path(name, type) ==
    IF name.slashes = 0 \/ (type = "5" /\ name.slashes = 1) THEN <<name.base>> ELSE <<>>
PathAccepted(path) == path # <<>> /\ path[1] \notin Unsafe

SparseDeclared(md) == DOMAIN md \cap {"GNU.sparse.major", "GNU.sparse.minor", "GNU.sparse.name", "GNU.sparse.realsize"} # {}
SparseComplete(md) ==
    /\ Has(md, "GNU.sparse.major") /\ Has(md, "GNU.sparse.minor") /\ Has(md, "GNU.sparse.name") /\ Has(md, "GNU.sparse.realsize")
    /\ md["GNU.sparse.major"] = 1 /\ md["GNU.sparse.minor"] = 0

\* Mutant: a row without bytes moves the end of the extent before it.
SparseRowAdvances(st, row, logical) ==
    IF row.offset + row.length > logical \/ row.offset < st.end THEN [st EXCEPT !.ok = FALSE]
    ELSE [st EXCEPT !.end = row.offset + row.length, !.extents = IF row.length = 0 THEN @ ELSE Append(@, row)]

\* A row without bytes is dropped, and moves nothing.
SparseRow(st, row, logical) ==
    IF \/ row.offset + row.length > logical \/ row.offset < st.end
       \/ row.length > 0 /\ st.extents # <<>> /\ row.offset = st.end
    THEN [st EXCEPT !.ok = FALSE]
    ELSE IF row.length = 0 THEN st
    ELSE [st EXCEPT !.end = row.offset + row.length, !.extents = Append(@, row)]
\* The extents and the cells of the map, or nothing.
read_gnu_sparse_1_0_map(payload, logical) ==
    LET line(i) == i <= Len(payload) /\ "line" \in DOMAIN payload[i]
        count == IF line(1) THEN payload[1].line ELSE 0
        rows == [e \in 1 .. count |-> [offset |-> payload[2 * e].line, length |-> payload[2 * e + 1].line]]
        map == 2 * count + 1
        padded == map + padding_to_512(map)
        st == FoldLeft(LAMBDA s, row : SparseRow(s, row, logical), [ok |-> TRUE, end |-> 0, extents |-> <<>>], rows)
    IN  IF /\ count <= MaxExtents /\ \A i \in 1 .. map : line(i)
           /\ st.ok /\ padded <= Len(payload) /\ AllZero(SubSeq(payload, map + 1, padded))
           /\ Len(payload) - padded = ExtentSum(st.extents)
        THEN <<[extents |-> st.extents, padded |-> padded]>> ELSE <<>>

\* LimitedTarPayloadReader and drain_tar_padding: whatever follows the header is payload as far as the size says, be it a
\* zero block, and what follows that is the next item; so the payload of an item is as long as its size by definition.
effective_size(item, md) == Either(md, <<"size">>, item.size)
MainPath(item, md) == canonical_main_path(Either(md, <<"GNU.sparse.name", "path", "gnu_long_name">>, item.name), item.type)
LinkTarget(item, md) == IF item.type = "2" THEN Either(md, <<"linkpath", "gnu_long_link">>, item.link) ELSE ""
EntryAccepted(item, md) ==
    /\ item.type \in {"0", "5", "2"} /\ item.fault # "header"
    /\ PathAccepted(MainPath(item, md)) /\ LinkTarget(item, md) \notin Unsafe
    /\ SparseDeclared(md) => item.type = "0" /\ SparseComplete(md)
    /\ item.type # "0" => effective_size(item, md) = 0
    /\ SparseDeclared(md) => read_gnu_sparse_1_0_map(item.payload, md["GNU.sparse.realsize"]) # <<>>

Kind == ("0" :> "regular") @@ ("5" :> "directory") @@ ("2" :> "symlink")
TarStdinRegularMember(item, md) ==
    LET layout == read_gnu_sparse_1_0_map(item.payload, md["GNU.sparse.realsize"])[1]
    IN  [path |-> MainPath(item, md)[1], kind |-> Kind[item.type], link |-> LinkTarget(item, md),
         mode |-> Either(md, <<"mode">>, item.mode), mtime |-> Either(md, <<"mtime">>, [s |-> item.mtime, ns |-> 0]),
         owner |-> <<Either(md, <<"uid">>, item.uid), Either(md, <<"gid">>, item.gid),
                     Either(md, <<"uname">>, item.uname), Either(md, <<"gname">>, item.gname)>>,
         content |-> IF ~SparseDeclared(md) THEN item.payload
                     ELSE Expand(layout.extents, SubSeq(item.payload, layout.padded + 1, Len(item.payload)), md["GNU.sparse.realsize"])]

-----------------------------------------------------------------------------
(* stream_tar_stdin_regulars: one turn of its loop per item *)

Read(item) == Len(seen) < MaxItems /\ seen' = Append(seen, item) /\ UNCHANGED <<request, taken>>

ReadMetadata(item) ==
    /\ pc = "tar" /\ item.type \in {"x", "L", "K"} /\ Read(item)
    /\ IF MetadataAccepted(item)
       THEN metadata' = Metadata(item, metadata) /\ UNCHANGED <<pc, outcome>>
       ELSE End("err") /\ UNCHANGED metadata
    /\ UNCHANGED archived

\* The member is written before its padding is read; the metadata is spent.
ReadMain(item) ==
    /\ pc = "tar" /\ item.type \in {"0", "5", "2", "1"} /\ Read(item)
    /\ item.type = "0" => effective_size(item, metadata) = Len(item.payload)
    /\ metadata' = NoMetadata
    /\ IF EntryAccepted(item, metadata) /\ item.fault # "cut"
       THEN archived' = Append(archived, TarStdinRegularMember(item, metadata)) ELSE UNCHANGED archived
    /\ IF EntryAccepted(item, metadata) /\ item.fault = "none" THEN UNCHANGED <<pc, outcome>> ELSE End("err")

\* Global headers, GNU sparse entries and unknown types.
ReadUnsupported(item) ==
    /\ pc = "tar" /\ item.type \in {"g", "S", "other"} /\ Read(item)
    /\ End("err") /\ UNCHANGED <<metadata, archived>>

\* Two zero blocks end the archive, and only zeros may follow.
ReadZeroBlock(item) ==
    /\ pc \in {"tar", "marker", "drain"} /\ item.type = "zero" /\ Read(item)
    /\ IF pc = "tar" /\ has_pending(metadata) THEN End("err")
       ELSE pc' = (IF pc = "tar" THEN "marker" ELSE "drain") /\ UNCHANGED outcome
    /\ UNCHANGED <<metadata, archived>>
ReadAfterMarker(item) ==
    /\ pc \in {"marker", "drain"} /\ item.type # "zero" /\ Read(item)
    /\ End("err") /\ UNCHANGED <<metadata, archived>>

EndOfInput ==
    /\ \/ pc = "tar" /\ End(IF has_pending(metadata) THEN "err" ELSE "ok")
       \/ pc = "marker" /\ End("err")
       \/ pc = "drain" /\ End("ok")
    /\ UNCHANGED <<request, seen, metadata, archived, taken>>

-----------------------------------------------------------------------------
(* SizedRawPayloadReader, and the byte after the declared size *)

ReadRaw(n) ==
    /\ pc = "raw" /\ taken < request.declared
    /\ \/ taken = Len(request.data) /\ End("err") /\ UNCHANGED taken
       \/ /\ n <= Len(request.data) - taken /\ n <= request.declared - taken
          /\ taken' = taken + n /\ UNCHANGED <<pc, outcome>>
    /\ UNCHANGED <<request, seen, metadata, archived>>

RawMember == [path |-> "stdin", kind |-> "regular", link |-> "", mode |-> 0, mtime |-> [s |-> 0, ns |-> 0],
              owner |-> <<>>, content |-> SubSeq(request.data, 1, taken)]
FinishRaw ==
    /\ pc = "raw" /\ taken = request.declared
    /\ archived' = <<RawMember>> /\ pc' = "trailing"
    /\ UNCHANGED <<request, seen, metadata, taken, outcome>>
reject_trailing_raw_stdin_bytes ==
    /\ pc = "trailing" /\ End(IF taken < Len(request.data) THEN "err" ELSE "ok")
    /\ UNCHANGED <<request, seen, metadata, archived, taken>>

Next ==
    \/ CheckOptions \/ EndOfInput \/ FinishRaw \/ reject_trailing_raw_stdin_bytes
    \/ \E item \in Items : \/ ReadMetadata(item) \/ ReadMain(item) \/ ReadUnsupported(item)
                           \/ ReadZeroBlock(item) \/ ReadAfterMarker(item)
    \/ \E n \in 1 .. Block : ReadRaw(n)
Spec == Init /\ [][Next]_vars

-----------------------------------------------------------------------------
(* What a tar stream says, from the stream alone *)

IsMain(i) == seen[i].type \in {"0", "5", "2"}
Mains == {i \in DOMAIN seen : IsMain(i)}
\* The metadata headers before entry i, back to the entry before it.
Own(i) == {j \in 1 .. i - 1 : ~\E k \in Mains : j <= k /\ k < i}
\* Every value the entry's own headers give a key, as <<item, record>>.
Given(i, key) == {jr \in {<<j, r>> : j \in Own(i), r \in 1 .. MaxMetadata} :
                     /\ seen[jr[1]].type = "x" /\ jr[2] <= Len(seen[jr[1]].records) /\ seen[jr[1]].records[jr[2]].key = key}
LastGiven(i, key) == CHOOSE jr \in Given(i, key) : \A other \in Given(i, key) :
                         other[1] < jr[1] \/ (other[1] = jr[1] /\ other[2] <= jr[2])
Says(i, key, default) ==
    IF Given(i, key) = {} THEN default
    ELSE LET jr == LastGiven(i, key) IN Value(seen[jr[1]].records[jr[2]])
LongHeaders(i, type) == {j \in Own(i) : seen[j].type = type}
LastLong(i, type) == seen[CHOOSE j \in LongHeaders(i, type) : \A k \in LongHeaders(i, type) : k <= j]
SaysName(i) == Says(i, "GNU.sparse.name", Says(i, "path", IF LongHeaders(i, "L") = {} THEN seen[i].name ELSE LastLong(i, "L").name))
SaysLink(i) == Says(i, "linkpath", IF LongHeaders(i, "K") = {} THEN seen[i].link ELSE LastLong(i, "K").link)
\* Seconds and ticks as ticks.
Ticks(t) == t.s * Nanos + t.ns
DecimalTicks(d) == (IF d.neg THEN -1 ELSE 1) * (d.whole * Nanos + d.frac)
SaysSparse(i) == Given(i, "GNU.sparse.realsize") # {}

Reads(m, i) ==
    LET item == seen[i]
        name == SaysName(i)
    IN  /\ m.path = name.base /\ m.kind = Kind[item.type]
        /\ item.type = "2" => m.link = SaysLink(i)
        /\ m.mode = Says(i, "mode", item.mode)
        /\ Ticks(m.mtime) = IF Given(i, "mtime") = {} THEN item.mtime * Nanos ELSE DecimalTicks(Says(i, "mtime", 0))
        /\ m.owner = <<Says(i, "uid", item.uid), Says(i, "gid", item.gid), Says(i, "uname", item.uname), Says(i, "gname", item.gname)>>
        /\ m.content = IF SaysSparse(i) THEN Expand(item.rows, item.data, Says(i, "GNU.sparse.realsize", 0)) ELSE item.payload

\* GNU's sparse map: rows with bytes in order, apart and within the file; a row without bytes after all before it.
Mapped(rows, logical, data) ==
    /\ \A e \in DOMAIN rows : rows[e].offset + rows[e].length <= logical
    /\ \A d, e \in DOMAIN rows : d < e /\ rows[d].length > 0 =>
          IF rows[e].length = 0 THEN rows[e].offset >= rows[d].offset + rows[d].length
                                ELSE rows[e].offset > rows[d].offset + rows[d].length
    /\ Len(data) = ExtentSum(rows)
EntryIsSound(i) ==
    LET item == seen[i]
        name == SaysName(i)
        sparse == {k \in {"GNU.sparse.major", "GNU.sparse.minor", "GNU.sparse.name", "GNU.sparse.realsize"} : Given(i, k) # {}}
    IN  /\ item.fault = "none" /\ name.base \notin Unsafe
        /\ name.slashes = 0 \/ (item.type = "5" /\ name.slashes = 1)
        /\ item.type = "2" => SaysLink(i) \notin Unsafe
        /\ Says(i, "size", item.size) = Len(item.payload)
        /\ item.type # "0" => item.payload = <<>> /\ sparse = {}
        /\ Cardinality(sparse) \in {0, 4}
        /\ sparse # {} => /\ Says(i, "GNU.sparse.major", 0) = 1 /\ Says(i, "GNU.sparse.minor", 0) = 0
                          /\ item.rows # <<>> /\ Mapped(item.rows, Says(i, "GNU.sparse.realsize", 0), item.data)
HeaderIsSound(i) ==
    /\ seen[i].fault = "none"
    /\ seen[i].type = "x" => Len(seen[i].records) <= MaxMetadata /\ RecordsAccepted(seen[i].records)

\* Entries, then nothing, or two zero blocks and no more than zeros.
Prefix == CHOOSE n \in 0 .. Len(seen) : /\ \A i \in 1 .. n : seen[i].type # "zero"
                                        /\ n < Len(seen) => seen[n + 1].type = "zero"
SoundSoFar ==
    /\ \A i \in 1 .. Prefix : (IsMain(i) /\ EntryIsSound(i)) \/ (seen[i].type \in {"x", "L", "K"} /\ HeaderIsSound(i))
    /\ \A i \in Prefix + 1 .. Len(seen) : seen[i].type = "zero"
    /\ Prefix < Len(seen) /\ Prefix > 0 => IsMain(Prefix)
Complete == SoundSoFar /\ Len(seen) - Prefix # 1 /\ (Prefix > 0 => IsMain(Prefix))

\* Archiving a tar stream from stdin archives its members and nothing else: each one with its own path, target, mode,
\* time, owner and content, wherever in the headers before it each of them is given, holes included, and nothing of the
\* headers of another; it succeeds for a complete, sound stream and only for one.  A file of declared size is archived
\* only if stdin has exactly that many bytes (public-docs/tzap-operational-boundaries.md).
ArchivesExactlyTheStream ==
    /\ request.kind = "tar" /\ outcome # "err" =>
          /\ SoundSoFar /\ Len(archived) = Cardinality(Mains)
          /\ \A i \in Mains : Reads(archived[Cardinality({j \in Mains : j <= i})], i)
    /\ request.kind = "tar" /\ outcome = "ok" => Complete
    /\ request.kind = "tar" /\ outcome = "err" /\ validate_streaming_create_writer_options => ~Complete
    /\ request.kind = "raw" /\ pc = "end" /\ validate_streaming_create_writer_options =>
          /\ (outcome = "ok") = (Len(request.data) = request.declared)
          /\ outcome = "ok" => Len(archived) = 1 /\ archived[1].content = request.data
=============================================================================
