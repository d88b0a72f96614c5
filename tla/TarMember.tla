----------------------------- MODULE TarMember -----------------------------
(***************************************************************************)
(* The tar encoding of one archive member (a member group): auxiliary      *)
(* entries, then the primary entry, each preceded by a local PAX header.   *)
(* Here are the pure parts: what the writer lays out for a member and what *)
(* the readers demand of headers, PAX records and sparse maps.  TarGroup   *)
(* runs the writer's sections and the readers over them.                   *)
(*                                                                         *)
(* A group is a sequence of cells.  A header fills a block of Block cells; *)
(* a PAX record, a line of a sparse map, a row of a capture report and a   *)
(* byte of data is one cell.  A name is a string; the ones in LongNames    *)
(* do not fit their header field.  An optional value is a sequence of      *)
(* length at most one.  Hash values are the hashed cells themselves.       *)
(***************************************************************************)
EXTENDS Integers, Sequences, FiniteSets, SequencesExt

CONSTANTS
    Block,          \* cells of a tar block (512 bytes)
    LongNames,      \* names that do not fit the ustar field for them
    SizeMax,        \* largest value of a 12-byte octal field
    IdMax,          \* largest value of an 8-byte octal field
    Nanos,          \* ticks of a second (10^9)
    MaxPax,         \* MAX_LOCAL_PAX_PAYLOAD, in cells
    MaxAggregate    \* MAX_AGGREGATE_PAX_PAYLOAD, in cells

ASSUME LayoutAssumption ==
    /\ {Block, SizeMax, IdMax, MaxPax, MaxAggregate} \subseteq Nat \ {0}
    /\ Nanos \in Nat /\ Nanos > 1

-----------------------------------------------------------------------------
(* Cells *)

Zero == [zero |-> TRUE]
Byte(b) == [byte |-> b]
Line(n) == [line |-> n]
Row(profile) == [row |-> profile]
Zeros(n) == [i \in 1 .. n |-> Zero]
AllZero(s) == \A i \in DOMAIN s : s[i] = Zero
HeaderCells(h) == [i \in 1 .. Block |-> [header |-> h, at |-> i]]
padding_to_512(n) == (Block - (n % Block)) % Block
Padded(s) == s \o Zeros(padding_to_512(Len(s)))
Concat(ss) == FoldLeft(\o, <<>>, ss)
Only(condition, value) == IF condition THEN {value} ELSE {}

\* A block that carries one whole header, checksum included.
verify_tar_checksum(block) ==
    \A i \in 1 .. Block : "header" \in DOMAIN block[i] /\ block[i].at = i /\ block[i].header = block[1].header

-----------------------------------------------------------------------------
(* Timestamps: a timespec [s, ns], ns never negative, in memory; a signed   *)
(* decimal in a PAX record.                                                *)

\* Mutant: no borrow for a fraction before the epoch.
canonical_pax_value_unborrowed(t) ==
    <<[neg |-> t.s < 0, whole |-> IF t.s < 0 THEN -t.s ELSE t.s, frac |-> t.ns]>>

\* The last second before the epoch would need the integer part -0.
canonical_pax_value(t) ==
    IF t.ns = 0 THEN <<[neg |-> t.s < 0, whole |-> IF t.s < 0 THEN -t.s ELSE t.s, frac |-> 0]>>
    ELSE IF t.s >= 0 THEN <<[neg |-> FALSE, whole |-> t.s, frac |-> t.ns]>>
    ELSE IF t.s = -1 THEN <<>>
    ELSE <<[neg |-> TRUE, whole |-> -t.s - 1, frac |-> Nanos - t.ns]>>

CanonicalDecimal(d) == ~(d.neg /\ d.whole = 0) /\ d.frac < Nanos

parse_timestamp(d) ==
    IF d.neg /\ d.frac # 0 THEN [s |-> -d.whole - 1, ns |-> Nanos - d.frac]
    ELSE [s |-> IF d.neg THEN -d.whole ELSE d.whole, ns |-> d.frac]

-----------------------------------------------------------------------------
(* PAX records: a function from keys to values.  GNU.sparse, TZAP.aux,      *)
(* TZAP.metadata and TZAP.portable stand for the keys with that prefix.     *)

KeyOrder == <<"GNU.sparse", "LIBARCHIVE.creationtime", "LIBARCHIVE.xattr.security", "LIBARCHIVE.xattr.user",
              "TZAP.aux", "TZAP.linux.fsflags", "TZAP.metadata", "TZAP.other", "TZAP.portable",
              "TZAP.unix.ctime-observed", "atime", "gid", "gname", "linkpath", "mtime", "path", "size", "uid", "uname">>
Rank(k) == CHOOSE i \in DOMAIN KeyOrder : KeyOrder[i] = k
PrimaryKeys == Range(KeyOrder) \ {"TZAP.aux", "TZAP.other"}
TimeKeys == {"mtime", "atime", "LIBARCHIVE.creationtime", "TZAP.unix.ctime-observed"}
XattrName == [k \in {"LIBARCHIVE.xattr.security", "LIBARCHIVE.xattr.user"} |->
                 IF k = "LIBARCHIVE.xattr.user" THEN "user" ELSE "security"]
Has(r, k) == k \in DOMAIN r

encode_canonical_pax(r) ==
    LET keys == SelectSeq(KeyOrder, LAMBDA k : Has(r, k))
    IN  [i \in DOMAIN keys |-> [key |-> keys[i], value |-> r[keys[i]]]]

\* Whole records only, in strictly ascending order of their keys.
CanonicalPax(payload) ==
    /\ payload # <<>> /\ Len(payload) <= MaxPax
    /\ \A i \in DOMAIN payload : "key" \in DOMAIN payload[i]
    /\ \A i \in 1 .. Len(payload) - 1 : Rank(payload[i].key) < Rank(payload[i + 1].key)
parse_canonical_pax(payload) ==
    [k \in {payload[i].key : i \in DOMAIN payload} |-> payload[CHOOSE i \in DOMAIN payload : payload[i].key = k].value]

-----------------------------------------------------------------------------
(* Metadata rules that both sides apply *)

source_os_requires_posix_profile(os) == os = "other-unix"
source_profile(os) == CASE os = "linux" -> "linux" [] os = "macos" -> "macos" [] os = "other-unix" -> "posix" [] OTHER -> ""
system_xattr_namespace(name, os) == name = "security" \/ (os = "linux" /\ name # "user")
xattr_owner_profile(name, os) == IF os = "linux" /\ system_xattr_namespace(name, os) THEN "linux" ELSE "posix"

\* The profile that owns a key, or "".
OwnerProfile(k, os) ==
    CASE k = "TZAP.linux.fsflags" -> "linux"
      [] k \in DOMAIN XattrName -> xattr_owner_profile(XattrName[k], os)
      [] k \in {"LIBARCHIVE.creationtime", "TZAP.unix.ctime-observed"} -> source_profile(os)
      [] OTHER -> ""

validate_profile_sets(profiles) == "portable" \in profiles /\ "core" \notin profiles
validate_profile_dependencies(profiles, os) ==
    /\ profiles \cap {"linux", "macos"} # {} => "posix" \in profiles
    /\ "linux" \in profiles => os = "linux"
    /\ "macos" \in profiles => os = "macos"
ModeLimit == 8
AttributeLimit == 16
PortableFieldsSound(p) ==
    /\ p.owner \in {"none", "posix"} /\ p.origin \in {"native", "projected"} /\ p.mode < ModeLimit
    /\ \A a \in Range(p.attributes) : a < AttributeLimit
validate_owner_fields(r) == r["TZAP.portable"].owner = "none" => DOMAIN r \cap {"uid", "gid", "uname", "gname"} = {}
validate_scalar_encodings(r) == \A k \in TimeKeys \cap DOMAIN r : CanonicalDecimal(r[k])
validate_profile_owned_primary_fields(r) ==
    \A k \in DOMAIN r : OwnerProfile(k, r["TZAP.metadata"].os) \in r["TZAP.metadata"].profiles \cup {""}

parse_primary_metadata(r) ==
    /\ DOMAIN r \subseteq PrimaryKeys
    /\ Has(r, "TZAP.metadata") /\ Has(r, "TZAP.portable")
    /\ validate_profile_sets(r["TZAP.metadata"].profiles)
    /\ validate_profile_dependencies(r["TZAP.metadata"].profiles, r["TZAP.metadata"].os)
    /\ PortableFieldsSound(r["TZAP.portable"])
    /\ validate_owner_fields(r) /\ validate_scalar_encodings(r) /\ validate_profile_owned_primary_fields(r)

is_native_primary_key(k) == k \in {"LIBARCHIVE.creationtime", "TZAP.linux.fsflags", "TZAP.unix.ctime-observed"} \cup DOMAIN XattrName
has_no_change_flags(r) == Has(r, "TZAP.linux.fsflags") /\ r["TZAP.linux.fsflags"] = "immutable"
SetId(mode) == mode >= 4
RequiresSystem(r) ==
    \/ r["TZAP.portable"].owner = "posix" \/ SetId(r["TZAP.portable"].mode) \/ has_no_change_flags(r)
    \/ \E k \in DOMAIN XattrName \cap DOMAIN r : system_xattr_namespace(XattrName[k], r["TZAP.metadata"].os)

validate_builtin_auxiliary(a) ==
    CASE a.kind = "capture-report" -> a.profile = "core" /\ a.class = "none" /\ ~a.native
      [] a.kind = "resource-fork" -> a.profile = "macos" /\ a.class = "same-os" /\ a.native
      [] a.kind = "xattr" -> a.native
      [] OTHER -> FALSE
validate_generic_xattr_declaration(a, os) ==
    /\ a.profile = xattr_owner_profile(a.name, os)
    /\ a.class = IF system_xattr_namespace(a.name, os) THEN "system" ELSE "same-os"
parse_capture_report(payload, profiles) ==
    payload # <<>> /\ \A i \in DOMAIN payload : "row" \in DOMAIN payload[i] /\ payload[i].row \in profiles

\* An auxiliary record against its declaration; declared and stored size agree because no modelled kind is sparse.
parse_auxiliary_declaration(r, stored) ==
    /\ DOMAIN r \subseteq {"TZAP.aux", "size"} /\ Has(r, "TZAP.aux")
    /\ Has(r, "size") => r["size"] = stored
    /\ r["TZAP.aux"].logical = stored
    /\ validate_builtin_auxiliary(r["TZAP.aux"])
AuxiliaryMatches(r, payload) == r["TZAP.aux"].sha256 = payload

\* aux: a sequence of [declaration, payload].
validate_group_metadata(r, aux) ==
    LET meta == r["TZAP.metadata"]
        reports == {i \in DOMAIN aux : aux[i].declaration.kind = "capture-report"}
    IN  /\ \A i \in DOMAIN aux \ reports : aux[i].declaration.profile \in meta.profiles
        /\ \A i \in DOMAIN aux : aux[i].declaration.kind = "xattr" => validate_generic_xattr_declaration(aux[i].declaration, meta.os)
        /\ \A i, j \in DOMAIN aux : i # j =>
              <<aux[i].declaration.kind, aux[i].declaration.name>> # <<aux[j].declaration.kind, aux[j].declaration.name>>
        /\ Cardinality(reports) = IF meta.status = "partial" THEN 1 ELSE 0
        /\ \A i \in reports : parse_capture_report(aux[i].payload, meta.profiles)

\* The FileEntry flags a reader derives from the group.
v45_group_flags(r, aux) ==
    {"extended"}
    \cup Only(aux # <<>>, "auxiliary")
    \cup Only(\/ r["TZAP.metadata"].profiles # {"portable"} \/ \E k \in DOMAIN r : is_native_primary_key(k)
              \/ \E i \in DOMAIN aux : aux[i].declaration.native, "native")
    \cup Only(Has(r, "GNU.sparse"), "sparse")
    \cup Only(r["TZAP.metadata"].status = "partial", "partial")
    \cup Only(RequiresSystem(r) \/ \E i \in DOMAIN aux : aux[i].declaration.class = "system", "system")

-----------------------------------------------------------------------------
(* Headers *)

tar_octal_fits(max, n) == n >= 0 /\ n <= max
build_ustar_header(name, size, mode, mtime, type) ==
    [type |-> type, name |-> name, mode |-> mode, uid |-> 0, gid |-> 0, size |-> size, mtime |-> mtime,
     link |-> "", uname |-> "", gname |-> ""]

AuxPaxLabel == <<"TZAP-PAX/AUX/00000000", "TZAP-PAX/AUX/00000001", "TZAP-PAX/AUX/00000002">>
AuxLabel == <<"TZAP-AUX/00000000", "TZAP-AUX/00000001", "TZAP-AUX/00000002">>
Typeflag == [regular |-> "0", directory |-> "5", symlink |-> "2", hardlink |-> "1"]
EntryKind(type) == CHOOSE k \in DOMAIN Typeflag : Typeflag[k] = type

validate_v45_metadata_header(h) ==
    h.mode = 0 /\ h.uid = 0 /\ h.gid = 0 /\ h.mtime = 0 /\ h.link = "" /\ h.uname = "" /\ h.gname = ""
validate_v45_auxiliary_header(h, ordinal, size) ==
    validate_v45_metadata_header(h) /\ h.name = AuxLabel[ordinal + 1] /\ h.size \in {size, 0}

validate_numeric_pax_header_match(r, k, field) == Has(r, k) => field \in {0, r[k]}
validate_string_pax_header_match(r, k, field) == Has(r, k) => field \in {"", r[k]}
validate_v45_primary_header(h, r, size) ==
    /\ h.mode = r["TZAP.portable"].mode
    /\ IF Has(r, "size") THEN h.size \in {0, size} ELSE h.size = size
    /\ IF r["TZAP.portable"].owner = "none" THEN h.uid = 0 /\ h.gid = 0 /\ h.uname = "" /\ h.gname = ""
       ELSE /\ validate_numeric_pax_header_match(r, "uid", h.uid) /\ validate_numeric_pax_header_match(r, "gid", h.gid)
            /\ validate_string_pax_header_match(r, "uname", h.uname) /\ validate_string_pax_header_match(r, "gname", h.gname)
    /\ Has(r, "mtime") /\ h.mtime # 0 => parse_timestamp(r["mtime"]).s = h.mtime

v45_primary_path(h, r) ==
    IF Has(r, "GNU.sparse") THEN r["GNU.sparse"].name ELSE IF Has(r, "path") THEN r["path"] ELSE h.name
PathFramed(h, r) ==
    IF Has(r, "GNU.sparse") THEN ~Has(r, "path") /\ h.name = "GNUSparseFile.0/TZAP"
    ELSE Has(r, "path") => h.name = "TZAP-PRIMARY"
v45_primary_link_target(h, r) == IF Has(r, "linkpath") THEN r["linkpath"] ELSE h.link
LinkFramed(h, r, kind) ==
    IF kind \in {"symlink", "hardlink"}
    THEN (Has(r, "linkpath") => h.link = "") /\ v45_primary_link_target(h, r) # ""
    ELSE ~Has(r, "linkpath") /\ h.link = ""

decoded_mtime(h, r) == IF Has(r, "mtime") THEN parse_timestamp(r["mtime"]) ELSE [s |-> h.mtime, ns |-> 0]
\* What a hardlink and its target must have in common; an empty name is no name.
portable_metadata_mirror(h, r) ==
    LET field(k, v) == IF Has(r, k) THEN r[k] ELSE v
        p == r["TZAP.portable"]
    IN  [origin |-> p.origin, mode |-> p.mode, attributes |-> p.attributes, mtime |-> decoded_mtime(h, r),
         owner |-> IF p.owner = "none" THEN <<>>
                   ELSE <<[uid |-> field("uid", h.uid), gid |-> field("gid", h.gid),
                           uname |-> field("uname", h.uname), gname |-> field("gname", h.gname)]>>]

validate_v45_primary_cross_fields(r, aux, kind, path, link) ==
    /\ kind = "hardlink" => /\ r["TZAP.metadata"].profiles = {"portable"} /\ ~Has(r, "GNU.sparse") /\ link # path
                            /\ \A i \in DOMAIN aux : aux[i].declaration.kind = "capture-report"
    /\ Has(r, "GNU.sparse") => kind = "regular"
    /\ \A i \in DOMAIN aux : aux[i].declaration.kind = "xattr" =>
          aux[i].declaration.name \notin {XattrName[k] : k \in DOMAIN XattrName \cap DOMAIN r}

\* What a reader reports of a member, and when it accepts the primary entry.
MemberOf(h, r, aux, size) ==
    LET kind == EntryKind(h.type)
        time(k) == IF Has(r, k) THEN <<parse_timestamp(r[k])>> ELSE <<>>
    IN  [path |-> v45_primary_path(h, r), kind |-> kind, link |-> v45_primary_link_target(h, r), mode |-> h.mode,
         mtime |-> decoded_mtime(h, r), mirror |-> portable_metadata_mirror(h, r),
         created |-> time("LIBARCHIVE.creationtime"), accessed |-> time("atime"),
         aux |-> aux, flags |-> v45_group_flags(r, aux),
         size |-> IF kind # "regular" THEN 0 ELSE IF Has(r, "GNU.sparse") THEN r["GNU.sparse"].realsize ELSE size]
PrimaryAccepted(h, r, aux, size) ==
    /\ parse_primary_metadata(r)
    /\ validate_v45_primary_header(h, r, size) /\ PathFramed(h, r) /\ LinkFramed(h, r, EntryKind(h.type))
    /\ EntryKind(h.type) # "regular" => size = 0
    /\ validate_group_metadata(r, aux)
    /\ validate_v45_primary_cross_fields(r, aux, EntryKind(h.type), v45_primary_path(h, r), v45_primary_link_target(h, r))

-----------------------------------------------------------------------------
(* Sparse maps: an extent is [offset, length]. *)

ExtentSum(extents) == FoldLeft(LAMBDA n, e : n + e.length, 0, extents)
ExtentsInOrder(extents, logical) ==
    \A i \in DOMAIN extents :
        /\ extents[i].length > 0 /\ extents[i].offset + extents[i].length <= logical
        /\ i > 1 => extents[i].offset > extents[i - 1].offset + extents[i - 1].length
encode_v45_sparse_map(extents) ==
    Padded(<<Line(Len(extents))>> \o Concat([i \in DOMAIN extents |-> <<Line(extents[i].offset), Line(extents[i].length)>>]))

\* The whole payload at once.
parse_sparse_payload(payload, logical) ==
    LET line(i) == i <= Len(payload) /\ "line" \in DOMAIN payload[i]
        count == IF line(1) THEN payload[1].line ELSE 0
        read == \A i \in 1 .. 2 * count + 1 : line(i)
        extents == [e \in 1 .. count |-> [offset |-> payload[2 * e].line, length |-> payload[2 * e + 1].line]]
        mapped == 2 * count + 1 + padding_to_512(2 * count + 1)
    IN  IF /\ read /\ ExtentsInOrder(extents, logical)
           /\ mapped <= Len(payload) /\ AllZero(SubSeq(payload, 2 * count + 2, mapped))
           /\ Len(payload) - mapped = ExtentSum(extents)
        THEN <<[extents |-> extents, padded |-> mapped]>> ELSE <<>>

\* The same map line by line, as bytes arrive.
SparseStreamValidator ==
    [ok |-> TRUE, position |-> 0, count |-> <<>>, left |-> 0, offset |-> <<>>, extents |-> <<>>, padded |-> <<>>]

SparseLine(v, value, logical) ==
    LET moved == [v EXCEPT !.position = @ + 1, !.left = @ - 1]
        extent == [offset |-> v.offset[1], length |-> value]
    IN  IF v.count = <<>> THEN [moved EXCEPT !.count = <<value>>, !.left = 2 * value]
        ELSE IF v.offset = <<>> THEN [moved EXCEPT !.offset = <<value>>]
        ELSE [moved EXCEPT !.offset = <<>>, !.extents = Append(@, extent),
                           !.ok = ExtentsInOrder(Append(v.extents, extent), logical)]
SparseCell(v, cell, logical) ==
    IF ~v.ok THEN v
    ELSE IF v.padded # <<>>
    THEN [v EXCEPT !.position = @ + 1, !.ok = v.position < v.padded[1] => cell = Zero]
    ELSE IF "line" \notin DOMAIN cell THEN [v EXCEPT !.ok = FALSE]
    ELSE LET next == SparseLine(v, cell.line, logical)
         IN  IF next.left = 0 THEN [next EXCEPT !.padded = <<next.position + padding_to_512(next.position)>>] ELSE next
SparseObserve(v, cells, logical) == FoldLeft(LAMBDA w, c : SparseCell(w, c, logical), v, cells)
SparseFinished(v) ==
    v.ok /\ v.padded # <<>> /\ v.position >= v.padded[1] /\ v.position - v.padded[1] = ExtentSum(v.extents)

\* The logical content: the stored cells at their offsets, zeros elsewhere.
Expand(extents, stored, logical) ==
    LET before(e) == ExtentSum(SubSeq(extents, 1, e - 1))
        inside(p) == {e \in DOMAIN extents : extents[e].offset < p /\ p <= extents[e].offset + extents[e].length}
    IN  [p \in 1 .. logical |-> IF inside(p) = {} THEN Zero
                                ELSE LET e == CHOOSE e \in inside(p) : TRUE IN stored[before(e) + p - extents[e].offset]]
=============================================================================
