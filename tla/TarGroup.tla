------------------------------ MODULE TarGroup ------------------------------
(***************************************************************************)
(* One member from its source to the readers.  The writer lays the member  *)
(* out, streams the sections of the layout from sources that may shrink,   *)
(* grow or change meanwhile, and records a FileEntry for it.  The push     *)
(* reader (TarStreamSummaryValidator) is then fed the group in pieces cut  *)
(* anywhere; the pull reader (stream_tar_member_group) and the slice       *)
(* reader (parse_tar_member_group) take it whole.  A defect turns the      *)
(* group into one that another writer could have produced by breaking one  *)
(* rule of the format.                                                     *)
(***************************************************************************)
EXTENDS TarMember, TLC

CONSTANTS
    Members,        \* source members
    Faults,         \* what happens to a source while it is read: [source, what]
    Defects,        \* rules broken in the group handed to the readers
    ParentDirs      \* for a path that has any, its proper ancestors from the top

VARIABLES
    member,         \* the member being archived
    fault,          \* what its sources do
    defect,         \* the rule its group breaks
    wr,             \* StreamingMemberReader and its driver
    group,          \* the cells handed to the readers
    push            \* TarStreamSummaryValidator and its observer

vars == <<member, fault, defect, wr, group, push>>

-----------------------------------------------------------------------------
(* Laying a member out *)

Sparse(m) == m.extents # <<>>
NativeEmpty(m) == m.profiles = {} /\ DOMAIN m.records = {} /\ m.aux = <<>>
Stored(m) == IF Sparse(m) THEN Concat([i \in DOMAIN m.extents[1] |->
                 SubSeq(m.data, m.extents[1][i].offset + 1, m.extents[1][i].offset + m.extents[1][i].length)])
             ELSE m.data
MapCells(m) == IF Sparse(m) THEN encode_v45_sparse_map(m.extents[1]) ELSE <<>>
StoredSize(m) == Len(MapCells(m)) + Len(Stored(m))
UsePathOverride(m) == ~Sparse(m) /\ m.path \in LongNames

KindIsSound(m) ==
    /\ m.kind # "regular" => m.data = <<>> /\ ~Sparse(m)
    /\ m.kind = "symlink" => m.link # ""
    /\ m.kind = "hardlink" => m.link # m.path /\ NativeEmpty(m)
    /\ m.kind \notin {"symlink", "hardlink"} => m.link = ""

Optional(condition, key, value) == IF condition THEN key :> value ELSE <<>>
NativeTime(m, key, time) == time # <<>> /\ Has(m.records, key)
PortableTime(m, key, time) == time # <<>> /\ ~Has(m.records, key)
TimesAreSound(m) ==
    \A kt \in {<<"LIBARCHIVE.creationtime", m.created>>, <<"atime", m.accessed>>} :
        /\ kt[2] # <<>> => canonical_pax_value(kt[2][1]) # <<>>
        /\ NativeTime(m, kt[1], kt[2]) => m.records[kt[1]] = canonical_pax_value(kt[2][1])[1]
MtimeInHeader(m) == m.mtime.ns = 0 /\ tar_octal_fits(SizeMax, m.mtime.s)

\* The profiles a member without native metadata declares give way to the native ones.
RequiredProfiles(m) ==
    IF ~NativeEmpty(m) THEN m.profiles \cup {"portable"}
    ELSE {"portable"} \cup Only(PortableTime(m, "LIBARCHIVE.creationtime", m.created)
                                /\ source_os_requires_posix_profile(m.os), "posix")
CaptureStatus(m) == IF \E i \in DOMAIN m.aux : m.aux[i].kind = "capture-report" THEN "partial" ELSE "complete"

portable_primary_pax(m) ==
    ("TZAP.metadata" :> [profiles |-> RequiredProfiles(m), os |-> m.os, status |-> CaptureStatus(m)])
    @@ ("TZAP.portable" :> [mode |-> m.mode, origin |-> m.origin, attributes |-> m.attributes, owner |-> IF m.owner = <<>> THEN "none" ELSE "posix"])
    @@ Optional(UsePathOverride(m), "path", m.path)
    @@ Optional(PortableTime(m, "LIBARCHIVE.creationtime", m.created), "LIBARCHIVE.creationtime", canonical_pax_value(m.created[1])[1])
    @@ Optional(PortableTime(m, "atime", m.accessed), "atime", canonical_pax_value(m.accessed[1])[1])
    @@ Optional(Sparse(m), "GNU.sparse", [name |-> m.path, realsize |-> Len(m.data)])

WriterKeys == {"path", "linkpath", "size", "uid", "gid", "uname", "gname", "mtime", "TZAP.metadata", "TZAP.portable"}
NativeCollides(m) == DOMAIN m.records \cap (DOMAIN portable_primary_pax(m) \cup WriterKeys) # {}

prepare_primary_tar_identity(m) ==
    LET o == m.owner[1]
    IN  IF m.owner = <<>> THEN <<>>
        ELSE Optional(~tar_octal_fits(IdMax, o.uid), "uid", o.uid) @@ Optional(~tar_octal_fits(IdMax, o.gid), "gid", o.gid)
             @@ Optional(o.uname \in LongNames, "uname", o.uname) @@ Optional(o.gname \in LongNames, "gname", o.gname)

PrimaryRecords(m) ==
    portable_primary_pax(m) @@ m.records @@ prepare_primary_tar_identity(m)
    @@ Optional(m.link \in LongNames, "linkpath", m.link)
    @@ Optional(~MtimeInHeader(m), "mtime", canonical_pax_value(m.mtime)[1])
    @@ Optional(~tar_octal_fits(SizeMax, StoredSize(m)), "size", StoredSize(m))

Fitting(max, n) == IF tar_octal_fits(max, n) THEN n ELSE 0
Short(name) == IF name \in LongNames THEN "" ELSE name
HeaderPath(m) == IF Sparse(m) THEN "GNUSparseFile.0/TZAP" ELSE IF UsePathOverride(m) THEN "TZAP-PRIMARY" ELSE m.path
apply_primary_tar_identity(h, m) ==
    IF m.owner = <<>> THEN h
    ELSE [h EXCEPT !.uid = Fitting(IdMax, m.owner[1].uid), !.gid = Fitting(IdMax, m.owner[1].gid),
                   !.uname = Short(m.owner[1].uname), !.gname = Short(m.owner[1].gname)]
PrimaryHeader(m) ==
    apply_primary_tar_identity(
        [build_ustar_header(HeaderPath(m), Fitting(SizeMax, StoredSize(m)), m.mode,
                            IF MtimeInHeader(m) THEN m.mtime.s ELSE 0, Typeflag[m.kind])
            EXCEPT !.link = Short(m.link)], m)

\* The declaration of an auxiliary record is made from the payload captured for it.
Declaration(a) == [kind |-> a.kind, profile |-> a.profile, class |-> a.class, native |-> a.native, name |-> a.name,
                   logical |-> Len(a.payload), sha256 |-> a.payload]
AuxRecords(a) == ("TZAP.aux" :> Declaration(a)) @@ Optional(~tar_octal_fits(SizeMax, Len(a.payload)), "size", Len(a.payload))
PaxEntry(label, payload) ==
    HeaderCells(build_ustar_header(label, Len(payload), 0, 0, "x")) \o Padded(payload)
build_native_auxiliary_member_prefix(a, ordinal) ==
    PaxEntry(AuxPaxLabel[ordinal + 1], encode_canonical_pax(AuxRecords(a)))
        \o HeaderCells(build_ustar_header(AuxLabel[ordinal + 1], Fitting(SizeMax, Len(a.payload)), 0, 0, "Z"))
PrimaryPrefix(m) ==
    PaxEntry("TZAP-PAX/PRIMARY", encode_canonical_pax(PrimaryRecords(m))) \o HeaderCells(PrimaryHeader(m)) \o MapCells(m)

validate_portable_file_metadata(m) == \A a \in Range(m.attributes) : a < AttributeLimit
Captured(m) == [i \in DOMAIN m.aux |-> [declaration |-> Declaration(m.aux[i]), payload |-> m.aux[i].payload]]
LayoutAccepted(m) ==
    /\ KindIsSound(m) /\ validate_portable_file_metadata(m) /\ TimesAreSound(m) /\ ~NativeCollides(m)
    /\ Sparse(m) => ExtentsInOrder(m.extents[1], Len(m.data))
    /\ MtimeInHeader(m) \/ canonical_pax_value(m.mtime) # <<>>
    /\ parse_primary_metadata(PrimaryRecords(m))
    /\ \A i \in DOMAIN m.aux : parse_auxiliary_declaration(AuxRecords(m.aux[i]), Len(m.aux[i].payload))
    /\ validate_group_metadata(PrimaryRecords(m), Captured(m))
    /\ Len(encode_canonical_pax(PrimaryRecords(m))) <= MaxPax

native_metadata_requires_system_restore(m) ==
    \/ has_no_change_flags(m.records)
    \/ \E k \in DOMAIN m.records \cap DOMAIN XattrName : system_xattr_namespace(XattrName[k], m.os)

\* The FileEntry flags the writer predicts from the metadata.
v45_portable_file_entry_flags(m) ==
    {"extended"}
    \cup Only(CaptureStatus(m) = "partial", "partial")
    \cup Only(m.aux # <<>>, "auxiliary")
    \cup Only(\/ m.profiles \ {"portable"} # {} \/ DOMAIN m.records # {} \/ \E i \in DOMAIN m.aux : m.aux[i].native
              \/ m.created # <<>> /\ ~Has(m.records, "LIBARCHIVE.creationtime") /\ source_os_requires_posix_profile(m.os), "native")
    \cup Only(Sparse(m), "sparse")
    \cup Only(\/ SetId(m.mode) \/ m.owner # <<>> \/ native_metadata_requires_system_restore(m)
              \/ \E i \in DOMAIN m.aux : m.aux[i].class = "system", "system")

FileEntry(m) == [path |-> m.path, size |-> Len(m.data), flags |-> v45_portable_file_entry_flags(m)]

-----------------------------------------------------------------------------
(* The writer's sections: bytes it built, or a payload read from a source   *)

\* What the source delivers when it is read; sources are numbered, the file itself is 0.
Delivered(source, cells) ==
    CASE fault.source # source -> cells
      [] fault.what = "short" /\ cells # <<>> -> Front(cells)
      [] fault.what = "grown" -> Append(cells, Byte(-1))
      [] fault.what = "changed" -> [i \in DOMAIN cells |-> Byte(-2)]
      [] OTHER -> cells

bytes(cells) == [source |-> cells, remaining |-> Len(cells), padding |-> 0, sha256 |-> <<>>, seen |-> <<>>, checked |-> FALSE]
payload(source, cells, sha256) ==
    [source |-> Delivered(source, cells), remaining |-> Len(cells), padding |-> padding_to_512(Len(cells)),
     sha256 |-> sha256, seen |-> <<>>, checked |-> FALSE]
Sections(m) ==
    Concat([i \in DOMAIN m.aux |->
        <<bytes(build_native_auxiliary_member_prefix(m.aux[i], i - 1)),
          payload(IF m.aux[i].streamed THEN i ELSE -1, m.aux[i].payload, <<m.aux[i].payload>>)>>])
    \o <<bytes(PrimaryPrefix(m)), payload(0, Stored(m), <<>>)>>
primary_member_layout_size(m) == LET s == Sections(m)
                                 IN  FoldLeft(LAMBDA n, x : n + x.remaining + x.padding, 0, s)

Idle == [phase |-> "plan", sections |-> <<>>, index |-> 0, size |-> 0]

Init ==
    /\ member \in Members /\ fault \in Faults /\ defect \in Defects
    /\ fault.what # "none" => defect = "none"
    /\ fault.source = 0 => member.kind = "regular"
    /\ wr = Idle /\ group = <<>> /\ push = <<>>

PlanMember ==
    /\ wr.phase = "plan"
    /\ wr' = IF LayoutAccepted(member)
             THEN [phase |-> "write", sections |-> Sections(member), index |-> 1, size |-> primary_member_layout_size(member)]
             ELSE [wr EXCEPT !.phase = "refused"]
    /\ UNCHANGED <<member, fault, defect, group, push>>

Section == wr.sections[wr.index]
Wanting == wr.phase = "write" /\ Len(group) < wr.size
Fail == wr' = [wr EXCEPT !.phase = "failed"] /\ UNCHANGED group

\* StreamingMemberSection::read: payload first, then the check of the source, then the padding.
ReadPayload(n) ==
    /\ Wanting /\ Section.remaining > 0 /\ n <= Section.remaining /\ n <= wr.size - Len(group)
    /\ \/ Section.source = <<>> /\ Fail
       \/ /\ n <= Len(Section.source)
          /\ group' = group \o SubSeq(Section.source, 1, n)
          /\ wr' = [wr EXCEPT !.sections[wr.index].remaining = @ - n,
                              !.sections[wr.index].source = SubSeq(@, n + 1, Len(@)),
                              !.sections[wr.index].seen = @ \o SubSeq(Section.source, 1, n)]
    /\ UNCHANGED <<member, fault, defect, push>>

SourceIsAsDeclared(s) == s.source = <<>> /\ (s.sha256 # <<>> => s.sha256[1] = s.seen)
CheckSource ==
    /\ Wanting /\ Section.remaining = 0 /\ ~Section.checked
    /\ IF SourceIsAsDeclared(Section)
       THEN wr' = [wr EXCEPT !.sections[wr.index].checked = TRUE] /\ UNCHANGED group
       ELSE Fail
    /\ UNCHANGED <<member, fault, defect, push>>

PadSection(n) ==
    /\ Wanting /\ Section.remaining = 0 /\ Section.checked /\ n <= Section.padding
    /\ group' = group \o Zeros(n)
    /\ wr' = [wr EXCEPT !.sections[wr.index].padding = @ - n]
    /\ UNCHANGED <<member, fault, defect, push>>

NextSection ==
    /\ Wanting /\ Section.remaining = 0 /\ Section.checked /\ Section.padding = 0
    /\ wr' = [wr EXCEPT !.index = @ + 1]
    /\ UNCHANGED <<member, fault, defect, group, push>>

-----------------------------------------------------------------------------
(* The group the readers get: the one written, or one that breaks a rule.   *)

Is(cell, field) == field \in DOMAIN cell
IsPrimary(h) == h.type \in Range(Typeflag)
FirstAt(g, P(_)) == {i \in DOMAIN g : P(g[i]) /\ \A j \in 1 .. i - 1 : ~P(g[j])}
Without(g, from, to) == SubSeq(g, 1, from - 1) \o SubSeq(g, to + 1, Len(g))
OnHeaders(g, which(_), f(_)) ==
    [i \in DOMAIN g |-> IF Is(g[i], "header") /\ which(g[i].header) THEN [g[i] EXCEPT !.header = f(@)] ELSE g[i]]
OnFirst(g, P(_), f(_)) == [i \in DOMAIN g |-> IF i \in FirstAt(g, P) THEN f(g[i]) ELSE g[i]]
\* The cells of the first PAX entry: its header, and all up to the next header.
FirstPax(g) == LET next == {i \in Block + 1 .. Len(g) : Is(g[i], "header")} IN IF next = {} THEN Len(g) ELSE CHOOSE i \in next : \A j \in next : i <= j

Broken(g) ==
    CASE defect = "truncated" -> SubSeq(g, 1, Len(g) - Block)
      [] defect = "trailing" -> g \o Zeros(Block)
      [] defect = "padding" -> OnFirst(g, LAMBDA c : c = Zero, LAMBDA c : Byte(-3))
      [] defect = "checksum" -> OnFirst(g, LAMBDA c : Is(c, "header") /\ IsPrimary(c.header), LAMBDA c : [c EXCEPT !.at = 0])
      [] defect = "no_pax" -> Without(g, 1, FirstPax(g) - 1)
      [] defect = "two_pax" -> SubSeq(g, 1, FirstPax(g) - 1) \o g
      [] defect = "label" -> OnHeaders(g, LAMBDA h : h.type = "x", LAMBDA h : [h EXCEPT !.name = AuxPaxLabel[2]])
      [] defect = "global" -> OnHeaders(g, LAMBDA h : h.type = "x", LAMBDA h : [h EXCEPT !.type = "g"])
      [] defect = "mode" -> OnHeaders(g, IsPrimary, LAMBDA h : [h EXCEPT !.mode = @ + 1])
      [] defect = "size" -> OnHeaders(g, IsPrimary, LAMBDA h : [h EXCEPT !.size = @ + 1])
      [] defect = "mtime" -> OnHeaders(g, IsPrimary, LAMBDA h : [h EXCEPT !.mtime = @ + 1])
      [] defect = "owner" -> OnHeaders(g, IsPrimary, LAMBDA h : [h EXCEPT !.uid = @ + 1])
      [] defect = "origin" -> OnFirst(g, LAMBDA c : Is(c, "key") /\ c.key = "TZAP.portable",
                                      LAMBDA c : [c EXCEPT !.value.origin = IF @ = "native" THEN "projected" ELSE "native"])
      [] defect = "attributes" -> OnFirst(g, LAMBDA c : Is(c, "key") /\ c.key = "TZAP.portable",
                                          LAMBDA c : [c EXCEPT !.value.attributes = <<AttributeLimit>>])
      [] defect = "link" -> OnHeaders(g, IsPrimary, LAMBDA h : [h EXCEPT !.link = "x"])
      [] defect = "kind" -> OnHeaders(g, IsPrimary, LAMBDA h : [h EXCEPT !.type = "5"])
      [] defect = "record" -> OnFirst(g, LAMBDA c : Is(c, "key"), LAMBDA c : [c EXCEPT !.key = "TZAP.other"])
      [] defect = "profile" -> OnFirst(g, LAMBDA c : Is(c, "key") /\ c.key = "TZAP.metadata", LAMBDA c : [c EXCEPT !.value.profiles = {"portable"}])
      [] defect = "hash" -> OnFirst(g, LAMBDA c : Is(c, "key") /\ c.key = "TZAP.aux", LAMBDA c : [c EXCEPT !.value.sha256 = <<>>])
      [] defect = "map" -> OnFirst(g, LAMBDA c : Is(c, "line") /\ c.line > 0, LAMBDA c : Line(c.line + 1))
      [] defect = "map_cut" -> OnFirst(g, LAMBDA c : Is(c, "line") /\ c.line > 0, LAMBDA c : Line(c.line - 1))
      [] OTHER -> g
Entry == CASE defect = "flags" -> [FileEntry(member) EXCEPT !.flags = @ \ {"extended"}]
           [] defect = "entry_size" -> [FileEntry(member) EXCEPT !.size = @ + 1]
           [] defect = "path" -> [FileEntry(member) EXCEPT !.path = "elsewhere"]
           [] OTHER -> FileEntry(member)

-----------------------------------------------------------------------------
(* What all readers do with one entry *)

effective_size(h, pending) == IF pending # <<>> /\ Has(pending[1].records, "size") THEN pending[1].records["size"] ELSE h.size

\* A PAX label names the primary or the next auxiliary ordinal.
PaxLabels(aux) == {"TZAP-PAX/PRIMARY", AuxPaxLabel[Len(aux) + 1]}
PaxHeaderAccepted(h, st) == st.pending = <<>> /\ validate_v45_metadata_header(h) /\ h.size <= MaxPax /\ h.name \in PaxLabels(st.aux)
PaxAccepted(p, st) == st.pax + Len(p) <= MaxAggregate /\ CanonicalPax(p)
Pending(h, p) == <<[kind |-> IF h.name = "TZAP-PAX/PRIMARY" THEN "primary" ELSE "auxiliary", records |-> parse_canonical_pax(p)]>>

PendingIs(st, kind) == st.pending # <<>> /\ st.pending[1].kind = kind
AuxiliaryHeaderAccepted(h, st, size) ==
    /\ PendingIs(st, "auxiliary") /\ validate_v45_auxiliary_header(h, Len(st.aux), size)
    /\ parse_auxiliary_declaration(st.pending[1].records, size)
Auxiliary(records, p) == [declaration |-> records["TZAP.aux"], payload |-> p]
Expected(m) == m.path = Entry.path /\ m.size = Entry.size /\ m.flags = Entry.flags

-----------------------------------------------------------------------------
(* The push reader *)

StreamingSparsePrimary == [v |-> SparseStreamValidator, index |-> 1, consumed |-> 0, cursor |-> 0]
TarStreamSummaryValidator(native) ==
    [state |-> "header", header |-> <<>>, pending |-> <<>>, aux |-> <<>>, pax |-> 0, entry |-> <<>>, remaining |-> 0,
     padding |-> 0, fed |-> 0, native |-> native, out |-> <<>>, done |-> <<>>, verdict |-> "reading"]
Refuse(p) == [p EXCEPT !.verdict = "error"]

Deliver ==
    /\ wr.phase = "write" /\ Len(group) = wr.size
    /\ wr' = [wr EXCEPT !.phase = "written"]
    /\ group' = Broken(group)
    /\ \E native \in BOOLEAN : push' = TarStreamSummaryValidator(native)
    /\ UNCHANGED <<member, fault, defect>>

\* StreamingSparsePrimary::observe for the cells after the map: holes become zeros, or stay holes of a native sparse file.
EmitExtentCell(q, cell, extents, native) ==
    LET e == extents[q.index]
        zeros == IF q.consumed = 0 THEN Zeros(e.offset - q.cursor) ELSE <<>>
        last == q.consumed + 1 = e.length
    IN  IF q.index > Len(extents) THEN [q EXCEPT !.ok = FALSE]
        ELSE [q EXCEPT !.out = IF native THEN [@ EXCEPT ![e.offset + q.consumed + 1] = cell] ELSE Append(@ \o zeros, cell),
                       !.index = IF last THEN @ + 1 ELSE @,
                       !.consumed = IF last THEN 0 ELSE @ + 1,
                       !.cursor = IF last THEN e.offset + e.length ELSE @]

ObserveSparse(p, cells) ==
    LET sp == p.entry[1].sparse[1]
        logical == p.entry[1].member.size
        v == SparseObserve(sp.v, cells, logical)
        skip == IF sp.v.position >= v.padded[1] THEN 0 ELSE v.padded[1] - sp.v.position
        data == IF v.padded = <<>> THEN <<>> ELSE SubSeq(cells, skip + 1, Len(cells))
        out == IF p.native /\ sp.v.padded = <<>> /\ v.padded # <<>> THEN Zeros(logical) ELSE p.out
        q == FoldLeft(LAMBDA r, c : IF r.ok THEN EmitExtentCell(r, c, v.extents, p.native) ELSE r,
                      [ok |-> v.ok, index |-> sp.index, consumed |-> sp.consumed, cursor |-> sp.cursor, out |-> out],
                      IF v.ok THEN data ELSE <<>>)
    IN  IF q.ok THEN [p EXCEPT !.out = q.out, !.entry[1].sparse =
                         <<[v |-> v, index |-> q.index, consumed |-> q.consumed, cursor |-> q.cursor]>>]
        ELSE Refuse(p)

SparsePrimaryFinished(sp) == SparseFinished(sp.v) /\ sp.index = Len(sp.v.extents) + 1 /\ sp.consumed = 0

FinishPax(p) ==
    LET e == p.entry[1]
    IN  IF PaxAccepted(e.payload, p)
        THEN [p EXCEPT !.state = "header", !.header = <<>>, !.entry = <<>>, !.pax = @ + Len(e.payload), !.pending = Pending(e.header, e.payload)]
        ELSE Refuse(p)
FinishAuxiliary(p) ==
    LET e == p.entry[1]
    IN  IF AuxiliaryMatches(e.records, e.payload)
        THEN [p EXCEPT !.state = "header", !.header = <<>>, !.entry = <<>>, !.aux = Append(@, Auxiliary(e.records, e.payload))]
        ELSE Refuse(p)
FinishMain(p) ==
    LET e == p.entry[1]
        tail == IF e.sparse = <<>> \/ p.native THEN <<>> ELSE Zeros(e.member.size - e.sparse[1].cursor)
    IN  IF e.sparse # <<>> /\ ~SparsePrimaryFinished(e.sparse[1]) THEN Refuse(p)
        ELSE [TarStreamSummaryValidator(p.native) EXCEPT !.fed = p.fed, !.done = Append(p.done, [member |-> e.member, content |-> p.out \o tail])]
finish_entry_parts(p) ==
    CASE p.entry[1].kind = "pax" -> FinishPax(p)
      [] p.entry[1].kind = "aux" -> FinishAuxiliary(p)
      [] p.entry[1].kind = "main" -> FinishMain(p)

resolve_ready_state(p) ==
    CASE p.verdict = "error" \/ p.state = "header" \/ p.remaining > 0 -> p
      [] p.padding > 0 -> [p EXCEPT !.state = "padding"]
      [] OTHER -> finish_entry_parts(p)

StartEntry(p, size, entry) ==
    [p EXCEPT !.state = "payload", !.header = <<>>, !.entry = <<entry>>, !.remaining = size, !.padding = padding_to_512(size)]
state_after_header(p) ==
    LET h == p.header[1].header
        size == effective_size(h, p.pending)
        records == p.pending[1].records
        taken == [p EXCEPT !.pending = <<>>]
        m == MemberOf(h, records, p.aux, size)
    IN  IF ~verify_tar_checksum(p.header) THEN Refuse(p)
        ELSE CASE h.type = "x" /\ PaxHeaderAccepted(h, p) ->
                    StartEntry(p, size, [kind |-> "pax", header |-> h, payload |-> <<>>])
               [] h.type = "Z" /\ AuxiliaryHeaderAccepted(h, p, size) ->
                    StartEntry(taken, size, [kind |-> "aux", records |-> records, payload |-> <<>>])
               [] IsPrimary(h) /\ PendingIs(p, "primary") /\ PrimaryAccepted(h, records, p.aux, size) /\ Expected(m) ->
                    StartEntry(taken, size, [kind |-> "main", member |-> m,
                                             sparse |-> IF Has(records, "GNU.sparse") THEN <<StreamingSparsePrimary>> ELSE <<>>])
               [] OTHER -> Refuse(p)

\* One turn of the loop in observe: n cells of the input consumed in the current state.
Needed(p) == CASE p.state = "header" -> Block - Len(p.header) [] p.state = "payload" -> p.remaining [] p.state = "padding" -> p.padding
ConsumeHeader(p, cells) ==
    LET q == [p EXCEPT !.header = @ \o cells] IN IF Len(q.header) = Block THEN state_after_header(q) ELSE q
ConsumePayload(p, cells) ==
    LET q == [p EXCEPT !.remaining = @ - Len(cells)]
    IN  IF p.entry[1].kind # "main" THEN [q EXCEPT !.entry[1].payload = @ \o cells]
        ELSE IF p.entry[1].sparse # <<>> THEN ObserveSparse(q, cells)
        ELSE [q EXCEPT !.out = @ \o cells]
ConsumePadding(p, cells) == IF AllZero(cells) THEN [p EXCEPT !.padding = @ - Len(cells)] ELSE Refuse(p)
consume_state(p, cells) ==
    CASE p.state = "header" -> ConsumeHeader(p, cells)
      [] p.state = "payload" -> ConsumePayload(p, cells)
      [] p.state = "padding" -> ConsumePadding(p, cells)

Reading == wr.phase = "written" /\ push.verdict = "reading"
Observe(n) ==
    /\ Reading /\ n <= Needed(push) /\ n <= Len(group) - push.fed
    /\ push' = resolve_ready_state(consume_state([push EXCEPT !.fed = @ + n], SubSeq(group, push.fed + 1, push.fed + n)))
    /\ UNCHANGED <<member, fault, defect, wr, group>>

\* Of the last member of each path: the target of a hardlink is a regular file with the link's portable metadata, and
\* what is archived above a member is a directory.
selected(members) == {i \in DOMAIN members : \A j \in i + 1 .. Len(members) : members[j].path # members[i].path}
AncestorsOf(path) == IF path \in DOMAIN ParentDirs THEN ParentDirs[path] ELSE <<>>
validate_v45_member_graph(members) ==
    \A i \in selected(members) :
        /\ members[i].kind = "hardlink" =>
              \E j \in selected(members) : /\ members[j].path = members[i].link /\ members[j].kind = "regular"
                                           /\ members[j].mirror = members[i].mirror
        /\ \A j \in selected(members) :
              members[j].path \in Range(AncestorsOf(members[i].path)) => members[j].kind = "directory"

\* The archive around the group: the directories above it and, for a hardlink, an old and the final member at its target.
Mirror(m) == [origin |-> m.origin, mode |-> m.mode, attributes |-> m.attributes, mtime |-> m.mtime, owner |-> m.owner]
Others ==
    LET above == AncestorsOf(member.path)
        other(path, kind, mirror) == [path |-> path, kind |-> kind, link |-> "", mirror |-> mirror]
    IN  [i \in DOMAIN above |->
            other(above[i], CASE defect = "ancestor_link" /\ i = 1 -> "symlink"
                              [] defect = "ancestor_file" /\ i = Len(above) -> "regular"
                              [] OTHER -> "directory", Mirror(member))]
        \o IF member.kind # "hardlink" THEN <<>>
            ELSE <<other(member.link, "symlink", [Mirror(member) EXCEPT !.mode = @ + 1]),
                   other(member.link, IF defect = "target" THEN "directory" ELSE "regular", Mirror(member))>>

Finish ==
    /\ Reading /\ push.fed = Len(group)
    /\ LET ended == push.state = "header" /\ push.header = <<>> /\ push.pending = <<>> /\ push.aux = <<>>
           graph == validate_v45_member_graph(Others \o [i \in DOMAIN push.done |-> push.done[i].member])
       IN  push' = [push EXCEPT !.verdict = IF ~ended THEN "error" ELSE IF graph THEN "ok" ELSE "graph"]
    /\ UNCHANGED <<member, fault, defect, wr, group>>

Next ==
    \/ PlanMember \/ CheckSource \/ NextSection \/ Deliver \/ Finish
    \/ \E n \in 1 .. Block : ReadPayload(n) \/ PadSection(n) \/ Observe(n)
Spec == Init /\ [][Next]_vars

-----------------------------------------------------------------------------
(* The readers that take the whole group *)

Start == [cursor |-> 0, pending |-> <<>>, aux |-> <<>>, pax |-> 0, verdict |-> "more", member |-> <<>>, content |-> <<>>]
BlockAt(g, c) == SubSeq(g, c + 1, c + Block)
EntryFits(g, st) ==
    /\ st.cursor + Block <= Len(g) /\ verify_tar_checksum(BlockAt(g, st.cursor))
    /\ LET size == effective_size(g[st.cursor + 1].header, st.pending)
       IN  st.cursor + Block + size + padding_to_512(size) <= Len(g)
\* The header, payload, padding and end of the entry at the cursor.
EntryAt(g, st) ==
    LET h == g[st.cursor + 1].header
        size == effective_size(h, st.pending)
        from == st.cursor + Block
    IN  [header |-> h, size |-> size, payload |-> SubSeq(g, from + 1, from + size),
         padding |-> SubSeq(g, from + size + 1, from + size + padding_to_512(size)), end |-> from + size + padding_to_512(size)]

TakePax(st, x) ==
    IF PaxHeaderAccepted(x.header, st) /\ PaxAccepted(x.payload, st) /\ AllZero(x.padding)
    THEN [st EXCEPT !.cursor = x.end, !.pax = @ + Len(x.payload), !.pending = Pending(x.header, x.payload)] ELSE Refuse(st)
TakeAuxiliary(st, x) ==
    IF /\ AuxiliaryHeaderAccepted(x.header, st, x.size) /\ AllZero(x.padding)
       /\ AuxiliaryMatches(st.pending[1].records, x.payload)
    THEN [st EXCEPT !.cursor = x.end, !.aux = Append(@, Auxiliary(st.pending[1].records, x.payload)), !.pending = <<>>] ELSE Refuse(st)
PrimaryTaken(st, x) == PendingIs(st, "primary") /\ PrimaryAccepted(x.header, st.pending[1].records, st.aux, x.size)
Accept(st, m, content) == [st EXCEPT !.verdict = "ok", !.member = <<m>>, !.content = content]

\* stream_sparse_primary_payload: whole blocks of the map until it is complete, then the extents.
MapBlocks(p, logical) ==
    {b \in 0 .. Len(p) \div Block : LET v == SparseObserve(SparseStreamValidator, SubSeq(p, 1, b * Block), logical)
                                    IN  v.ok /\ v.padded = <<b * Block>>}
stream_sparse_primary_payload(p, logical) ==
    LET b == CHOOSE b \in MapBlocks(p, logical) : TRUE
        extents == SparseObserve(SparseStreamValidator, SubSeq(p, 1, b * Block), logical).extents
    IN  IF MapBlocks(p, logical) = {} \/ b * Block + ExtentSum(extents) # Len(p) THEN <<>>
        ELSE <<Expand(extents, SubSeq(p, b * Block + 1, Len(p)), logical)>>

TakeStreamed(st, x, g) ==
    LET records == st.pending[1].records
        m == MemberOf(x.header, records, st.aux, x.size)
        content == IF Has(records, "GNU.sparse") THEN stream_sparse_primary_payload(x.payload, m.size) ELSE <<x.payload>>
    IN  IF PrimaryTaken(st, x) /\ Expected(m) /\ content # <<>> /\ AllZero(x.padding) /\ x.end = Len(g)
        THEN Accept(st, m, content[1]) ELSE Refuse(st)

\* Mutant: bytes after the primary entry are ignored.
TakeSlicedNoEnd(st, x, g) ==
    LET m == MemberOf(x.header, st.pending[1].records, st.aux, x.size)
    IN  IF PrimaryTaken(st, x) /\ Expected(m) /\ AllZero(x.padding) THEN Accept(st, m, x.payload) ELSE Refuse(st)

\* The slice reader leaves the comparison with the FileEntry to its callers.
TakeSliced(st, x, g) ==
    LET records == st.pending[1].records
        m == MemberOf(x.header, records, st.aux, x.size)
        layout == parse_sparse_payload(x.payload, m.size)
    IN  IF PrimaryTaken(st, x) /\ Expected(m) /\ AllZero(x.padding) /\ x.end = Len(g) /\ (Has(records, "GNU.sparse") => layout # <<>>)
        THEN Accept(st, m, IF ~Has(records, "GNU.sparse") THEN x.payload
                           ELSE Expand(layout[1].extents, SubSeq(x.payload, layout[1].padded + 1, Len(x.payload)), m.size))
        ELSE Refuse(st)

Turn(g, st, take(_, _, _)) ==
    LET x == EntryAt(g, st)
    IN  CASE st.verdict # "more" -> st
          [] st.verdict = "more" /\ ~EntryFits(g, st) -> Refuse(st)
          [] OTHER -> CASE x.header.type = "x" -> TakePax(st, x)
                        [] x.header.type = "Z" -> TakeAuxiliary(st, x)
                        [] IsPrimary(x.header) -> take(st, x, g)
                        [] OTHER -> Refuse(st)
Entries(g) == Len(g) \div Block
Run(g, take(_, _, _)) ==
    LET turn[n \in 0 .. Entries(g)] == IF n = 0 THEN Start ELSE Turn(g, turn[n - 1], take)
    IN  IF Len(g) < 3 * Block \/ Len(g) % Block # 0 \/ turn[Entries(g)].verdict = "more" THEN Refuse(Start) ELSE turn[Entries(g)]
stream_tar_member_group(g) == Run(g, TakeStreamed)
parse_tar_member_group(g) == Run(g, TakeSliced)

\* Where the group at the start of a stream ends: 0 while the stream is too short to tell, -1 when it is malformed.
EndTurn(s, st) ==
    LET x == EntryAt(s, st)
    IN  CASE st.verdict # "more" -> st
          [] st.verdict = "more" /\ st.cursor + Block > Len(s) -> [st EXCEPT !.verdict = "short"]
          [] st.verdict = "more" /\ ~verify_tar_checksum(BlockAt(s, st.cursor)) -> Refuse(st)
          [] st.verdict = "more" /\ ~EntryFits(s, st) -> [st EXCEPT !.verdict = "short"]
          [] OTHER -> CASE x.header.type = "x" -> TakePax(st, x)
                        [] x.header.type = "Z" -> IF /\ PendingIs(st, "auxiliary") /\ validate_v45_auxiliary_header(x.header, Len(st.aux), x.size)
                                                     /\ AllZero(x.padding)
                                                  THEN [st EXCEPT !.cursor = x.end, !.aux = Append(@, x.header), !.pending = <<>>] ELSE Refuse(st)
                        [] IsPrimary(x.header) -> IF PendingIs(st, "primary") /\ AllZero(x.padding)
                                                  THEN [st EXCEPT !.cursor = x.end, !.verdict = "end"] ELSE Refuse(st)
                        [] OTHER -> Refuse(st)
try_tar_member_group_end(s) ==
    LET turn[n \in 0 .. Entries(s) + 1] == IF n = 0 THEN Start ELSE EndTurn(s, turn[n - 1])
        last == turn[Entries(s) + 1]
    IN  CASE last.verdict = "end" -> last.cursor [] last.verdict = "short" -> 0 [] OTHER -> -1

-----------------------------------------------------------------------------
(* Properties *)

\* What the source says of a member, in the words of a reader's report.
NativeOr(time, m, key) == IF time = <<>> /\ Has(m.records, key) THEN <<parse_timestamp(m.records[key])>> ELSE time
Said(m) == [path |-> m.path, kind |-> m.kind, link |-> m.link, mode |-> m.mode, mtime |-> m.mtime, mirror |-> Mirror(m),
            created |-> NativeOr(m.created, m, "LIBARCHIVE.creationtime"), accessed |-> NativeOr(m.accessed, m, "atime"),
            size |-> Len(m.data)]
SaysSo(report, m) ==
    /\ \A f \in DOMAIN Said(m) : report[f] = Said(m)[f]
    /\ Len(report.aux) = Len(m.aux)
    /\ \A i \in DOMAIN m.aux : /\ report.aux[i].payload = m.aux[i].payload
                               /\ \A f \in {"kind", "profile", "class", "native", "name"} : report.aux[i].declaration[f] = m.aux[i][f]

\* The content its source delivered; a hole stays a hole.
Hole(m, p) == Sparse(m) /\ \A i \in DOMAIN m.extents[1] :
                  p <= m.extents[1][i].offset \/ p > m.extents[1][i].offset + m.extents[1][i].length
Content(m) == IF fault.source = 0 /\ fault.what = "changed"
              THEN [p \in DOMAIN m.data |-> IF Hole(m, p) THEN Zero ELSE Byte(-2)] ELSE m.data

InLastSecond(t) == t.s = -1 /\ t.ns # 0
Unencodable(m) ==
    \/ \E t \in {m.mtime} \cup Range(m.created) \cup Range(m.accessed) : InLastSecond(t)
    \/ m.kind = "hardlink" /\ m.link = m.path
    \/ \E a \in Range(m.attributes) : a >= AttributeLimit
Disturbed(m) ==
    \/ fault.source = 0 /\ (fault.what = "grown" \/ (fault.what \in {"short", "changed"} /\ Stored(m) # <<>>))
    \/ fault.source \in DOMAIN m.aux /\ m.aux[fault.source].streamed /\ fault.what # "none"

\* A member that is written reads back as its source: no piece of the group makes the push reader refuse or deliver a
\* cell the file does not have at that place, all three readers report the path, kind, target, times, portable metadata,
\* auxiliary records, flags of the FileEntry and content (holes included), and the end of the group is found from the
\* group alone and from no prefix of it.  A member is refused only if a time of it lies in the last second before the
\* epoch, a hardlink names itself or its attributes have a reserved bit, and it fails only if a source moved.  A source that moved is noticed, but for
\* a file rewritten in place, and a file that grew when its stored size needs no padding (StreamingMemberSection::read).
GroupRoundTrip ==
    /\ wr.phase = "refused" => Unencodable(member)
    /\ wr.phase = "failed" => Disturbed(member)
    /\ wr.phase = "written" => ~Unencodable(member)
    /\ wr.phase = "written" /\ Disturbed(member) =>
          fault.source = 0 /\ (fault.what = "changed" \/ (fault.what = "grown" /\ StoredSize(member) % Block = 0))
    /\ wr.phase = "written" /\ defect = "none" =>
          /\ push.verdict \notin {"error", "graph"}
          /\ ~push.native /\ push.done = <<>> => IsPrefix(push.out, Content(member))
          /\ push.verdict = "ok" =>
                LET whole == {stream_tar_member_group(group), parse_tar_member_group(group)}
                IN  /\ Len(push.done) = 1 /\ SaysSo(push.done[1].member, member) /\ push.done[1].content = Content(member)
                    /\ \A st \in whole : st.verdict = "ok" /\ SaysSo(st.member[1], member) /\ st.content = Content(member)
                    /\ \A n \in 0 .. Len(group) - 1 : try_tar_member_group_end(SubSeq(group, 1, n)) = 0
                    /\ \A next \in {<<>>, group} : try_tar_member_group_end(group \o next) = Len(group)

\* Whatever a group breaks, and wherever it is cut into pieces, the push reader (verify and extract from a stream), the
\* pull reader and the slice reader (restore from the index) accept the same groups and report the same of them.
\* What only the push reader sees, at the end of the stream (validate_v45_member_graph), is a hardlink of which the link,
\* the target or one of the portable fields it shares with the target was altered, and an ancestor that is no directory;
\* of such members it lets none pass, an older member at the same path notwithstanding.
GraphBroken(report) ==
    \/ /\ report.kind = "hardlink"
       /\ report.link # member.link \/ defect = "target" \/ report.mirror # Mirror(member)
    \/ defect \in {"ancestor_link", "ancestor_file"} /\ AncestorsOf(report.path) # <<>>
ReadersAgree ==
    push # <<>> /\ push.verdict # "reading" =>
        /\ push.verdict # "error" => (push.verdict = "graph") = GraphBroken(push.done[1].member)
        /\ \A st \in {stream_tar_member_group(group), parse_tar_member_group(group)} :
            /\ (st.verdict = "ok") = (push.verdict # "error")
            /\ st.verdict = "ok" => push.done = <<[member |-> st.member[1], content |-> st.content]>>

\* writer/tests.rs:731: "the writer's predicted flags must agree with what the reader recomputes from the written
\* header": a reader refuses a member whose flags differ from those of its FileEntry.
PredictedFlagsAgree ==
    wr.phase = "written" => FileEntry(member).flags = v45_group_flags(PrimaryRecords(member), Captured(member))
=============================================================================
