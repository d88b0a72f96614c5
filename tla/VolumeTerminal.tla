--------------------------- MODULE VolumeTerminal ---------------------------
(***************************************************************************)
(* How a volume's terminal is found again: the critical metadata recovery  *)
(* area (CMRA) and its two locators at the end of a volume (written by     *)
(* writer/plan.rs and writer/envelope.rs), and the search of               *)
(* reader/cmra.rs and reader/volume.rs for them in a file that has         *)
(* rotted, was cut short, has something behind it, or holds parts of       *)
(* another archive: inside a block, appended, or left over from a longer   *)
(* file that was written over.                                             *)
(*                                                                         *)
(* A file is a sequence of cells, one per structure; a cell names the      *)
(* archive it belongs to and its offset in that archive's volume.  Damage  *)
(* turns a cell into Junk: no CRC, magic or digest matches.  A volume's    *)
(* ManifestFooter, RootAuthFooter and VolumeTrailer are never read where   *)
(* they stand, only from the image in the CMRA.                            *)
(***************************************************************************)
EXTENDS Integers, Sequences, FiniteSets, FiniteSetsExt

CONSTANTS
    Cases,          \* [volumes : [this, other], place]: the volume in the file,
                    \* another archive, and where cells of that one are
    Readers,        \* the ways to read: records mode, api, keys
    MaxFaults,      \* bound: cells damaged, cut off or appended
    ScanCells       \* max_critical_recovery_scan, in cells

VARIABLES
    volumes, reader, place,
    file,           \* the cells of the file
    faults,
    pc,
    authority,      \* TRUE while no parsed prefix is relied on
    cursor,         \* where the backward scan stands
    candidates,     \* the terminals found so far
    result          \* [status, of]: what the reader returns

input == <<volumes, reader, place, file, faults>>
vars == <<input, pc, authority, cursor, candidates, result>>

Junk == [of |-> "none", at |-> 0]

-----------------------------------------------------------------------------
(***************************************************************************)
(* The writer                                                              *)
(***************************************************************************)

cmra_min_parity_shards(v) ==
    LET by_pct == (v.data_shards * v.bit_rot_buffer_pct + 99) \div 100
    IN  IF by_pct > 2 THEN by_pct ELSE 2

times(n, x) == [i \in 1 .. n |-> x]

\* The structures of a volume, in the order they are written.
structures(v) ==
    <<"VolumeHeader", "CryptoHeader">>
    \o times(IF v.key_wrap THEN 1 ELSE 0, "KeyWrapTable")
    \o times(v.blocks, "BlockRecord")
    \o <<"ManifestFooter">>
    \o times(IF v.root_auth THEN 1 ELSE 0, "RootAuthFooter")
    \o <<"VolumeTrailer", "CmraHeader">>
    \o times(v.data_shards, "DataShard")
    \o times(cmra_min_parity_shards(v), "ParityShard")
    \o <<"Locator1", "Locator0">>

\* The CriticalMetadataImage: where everything is, from what was written so far.
build_v45_cmra(v) ==
    LET wrap   == IF v.key_wrap THEN 1 ELSE 0
        auth   == IF v.root_auth THEN 1 ELSE 0
        footer == 2 + wrap + v.blocks
    IN  [key_wrap_present      |-> v.key_wrap,
         root_auth_present     |-> v.root_auth,
         key_wrap_table_offset |-> IF v.key_wrap THEN 2 ELSE 0,
         block_records_offset  |-> 2 + wrap,
         block_count           |-> v.blocks,
         block_records_length  |-> v.blocks,
         manifest_footer_offset |-> footer,
         root_auth_footer_offset |-> IF v.root_auth THEN footer + 1 ELSE 0,
         volume_trailer_offset |-> footer + 1 + auth,
         body_bytes_before_cmra |-> footer + 2 + auth]

image(a) == build_v45_cmra(volumes[a])
shard_count(a) == volumes[a].data_shards + cmra_min_parity_shards(volumes[a])

\* The header and every shard.
cmra_serialized_length(a) == 1 + shard_count(a)

\* What CriticalRecoveryLocator says, the same in the mirror (sequence 1) and in
\* the final one (sequence 0).
locator(a, sequence) ==
    [locator_sequence       |-> sequence,
     cmra_offset            |-> image(a).body_bytes_before_cmra,
     cmra_length            |-> cmra_serialized_length(a),
     volume_trailer_offset  |-> image(a).volume_trailer_offset,
     body_bytes_before_cmra |-> image(a).body_bytes_before_cmra,
     of                     |-> a]

cells(v, name) == [i \in 1 .. Len(structures(v)) |-> [of |-> name, at |-> i - 1]]

-----------------------------------------------------------------------------
(***************************************************************************)
(* The file                                                                *)
(***************************************************************************)

\* The other archive's terminal, as a payload block holds it verbatim.
terminal_cells(v, name) ==
    SubSeq(cells(v, name), build_v45_cmra(v).body_bytes_before_cmra + 1, Len(structures(v)))

file_with(v, where) ==
    LET own   == cells(v.this, "this")
        other == cells(v.other, "other")
        inner == terminal_cells(v.other, "other")
        first == build_v45_cmra(v.this).block_records_offset + 1
    IN  CASE where = "absent" -> own
          [] where = "appended" -> own \o other
          [] where = "stale" -> own \o SubSeq(other, Len(own) + 1, Len(other))
          [] where = "embedded" ->
                [i \in DOMAIN own |-> IF i - first + 1 \in DOMAIN inner /\ v.this.blocks >= Len(inner)
                                      THEN inner[i - first + 1] ELSE own[i]]

cell(p) == IF p + 1 \in DOMAIN file THEN file[p + 1] ELSE Junk
structure(p) ==
    LET c == cell(p)
    IN  IF c = Junk THEN "Junk" ELSE structures(volumes[c.of])[c.at + 1]

NotFound == [status |-> "open", of |-> "none"]

Init ==
    /\ \E c \in Cases : volumes = c.volumes /\ place = c.place
    /\ reader \in Readers
    /\ file = file_with(volumes, place)
    /\ faults = 0
    /\ pc = "prefix" /\ authority = FALSE /\ cursor = 0
    /\ candidates = {} /\ result = NotFound

Untouched == UNCHANGED <<volumes, reader, place, pc, authority, cursor, candidates, result>>

Fault == pc = "prefix" /\ faults < MaxFaults /\ faults' = faults + 1

Rot == /\ Fault
       /\ \E i \in DOMAIN file : file[i] # Junk /\ file' = [file EXCEPT ![i] = Junk]
       /\ Untouched

Truncate == /\ Fault
            /\ file # <<>> /\ file' = SubSeq(file, 1, Len(file) - 1)
            /\ Untouched

AppendJunk == /\ Fault
              /\ file' = Append(file, Junk)
              /\ Untouched

-----------------------------------------------------------------------------
(***************************************************************************)
(* The prefix                                                              *)
(***************************************************************************)

KeyHolding == reader.mode \in {"master", "wrap", "stream"}

\* recipient_wrap_subkeys_from_table: records in order, the first candidate key
\* whose CryptoHeader HMAC verifies; an error of the resolver ends it.
recipient_wrap_subkeys(a) ==
    LET records == volumes[a].records
    IN  \E i \in DOMAIN records :
           /\ records[i] = "right"
           /\ \A j \in 1 .. i - 1 : records[j] # "error"

\* Whether the CryptoHeader of archive a verifies with what the reader holds.
subkeys_for_open(a) ==
    IF reader.mode = "wrap" THEN recipient_wrap_subkeys(a)
    ELSE reader.mode \in {"public", "inspect"} \/ a \in reader.keys

\* VolumeHeader and CryptoHeader parse; a is the archive they name.
headers_of(a) ==
    /\ cell(0) = [of |-> a, at |-> 0] /\ structure(0) = "VolumeHeader"
    /\ cell(1) = [of |-> a, at |-> 1] /\ structure(1) = "CryptoHeader"

startup_key_wrap_table(a) ==
    volumes[a].key_wrap => cell(2).of = a /\ structure(2) = "KeyWrapTable"

\* parse_open_prefix, its recipient-wrap and its public counterparts.
parse_open_prefix(a) ==
    /\ headers_of(a)
    /\ reader.mode = "wrap" => volumes[a].key_wrap
    /\ reader.mode \in {"master", "stream"} => ~volumes[a].key_wrap
    /\ KeyHolding => startup_key_wrap_table(a)
    /\ subkeys_for_open(a)

Fail == result' = [status |-> "err", of |-> "none"] /\ pc' = "done"

\* No usable prefix: a key holder goes on without it, unless the volume is shorter
\* than its header and trailer, or an intact prefix says that its key is wrapped
\* (the in-memory reader stops there).
PrefixFails ==
    /\ pc = "prefix"
    /\ ~\E a \in DOMAIN volumes : parse_open_prefix(a)
    /\ IF \/ reader.mode \notin {"master", "wrap"} \/ Len(file) < 2
          \/ /\ reader.mode = "master" /\ reader.api = "bytes"
             /\ \E a \in DOMAIN volumes : headers_of(a) /\ volumes[a].key_wrap
       THEN Fail /\ UNCHANGED authority
       ELSE pc' = "final" /\ authority' = TRUE /\ UNCHANGED result
    /\ UNCHANGED <<input, cursor, candidates>>

PrefixParses ==
    /\ pc = "prefix"
    /\ \E a \in DOMAIN volumes : parse_open_prefix(a)
    /\ pc' = "final"
    /\ UNCHANGED <<input, authority, cursor, candidates, result>>

-----------------------------------------------------------------------------
(***************************************************************************)
(* One candidate                                                           *)
(***************************************************************************)

\* recover_cmra_header_tuple: the archive whose decoder tuple is used for the
\* CMRA at p; a readable header must agree with the locator.
recover_cmra_header_tuple(p, located) ==
    LET header == IF structure(p) = "CmraHeader" THEN {cell(p).of} ELSE {}
    IN  IF located = {} THEN header
        ELSE IF header \in {{}, located} THEN located ELSE {}

\* A shard that parses must be the one that belongs there; one that does not is an
\* erasure.
validate_cmra_shard(a, p, i) ==
    structure(p) \in {"DataShard", "ParityShard"} =>
        cell(p) = [of |-> a, at |-> image(a).body_bytes_before_cmra + 1 + i]

\* recover_cmra_from_bytes: the image of archive a comes out of the CMRA at p.
recover_cmra(a, p) ==
    /\ p + cmra_serialized_length(a) <= Len(file)
    /\ \A i \in 0 .. shard_count(a) - 1 : validate_cmra_shard(a, p + 1 + i, i)
    /\ Cardinality({i \in 0 .. shard_count(a) - 1 : structure(p + 1 + i) # "Junk"
                       /\ cell(p + 1 + i).of = a
                       /\ structure(p + 1 + i) \in {"DataShard", "ParityShard"}})
         >= volumes[a].data_shards

\* The reader's own equations over the image, ...
validate_critical_metadata_image(m) ==
    /\ m.block_records_offset = IF m.key_wrap_present THEN m.key_wrap_table_offset + 1 ELSE 2
    /\ m.key_wrap_table_offset = IF m.key_wrap_present THEN 2 ELSE 0
    /\ KeyHolding => m.block_records_length = m.block_count
    /\ m.manifest_footer_offset = m.block_records_offset + m.block_records_length
    /\ m.body_bytes_before_cmra = m.volume_trailer_offset + 1

\* ... and those that tie the footers to the trailer.
validate_v45_trailer_equations(m) ==
    LET manifest_end == m.manifest_footer_offset + 1
    IN  IF m.root_auth_present
        THEN /\ m.root_auth_footer_offset = manifest_end
             /\ m.volume_trailer_offset = m.root_auth_footer_offset + 1
        ELSE m.root_auth_footer_offset = 0 /\ m.volume_trailer_offset = manifest_end

validate_locator_position(p, l) ==
    /\ l.cmra_offset = l.body_bytes_before_cmra
    /\ l.volume_trailer_offset + 1 = l.cmra_offset
    /\ p = l.cmra_offset + l.cmra_length + (IF l.locator_sequence = 1 THEN 0 ELSE 1)

\* validate_recovered_terminal_inner with the parsed prefix.
validate_recovered_terminal(a) == headers_of(a)

\* Mutant: without a prefix the bit-rot budget is not asked for.
validate_recovered_terminal_authority_any(a) ==
    subkeys_for_open(a) /\ (reader.mode = "wrap" => volumes[a].key_wrap)

\* ... and without one: the image's own headers, under the reader's keys.
validate_recovered_terminal_authority(a) ==
    /\ reader.mode = "wrap" => volumes[a].key_wrap
    /\ subkeys_for_open(a)
    /\ volumes[a].bit_rot_buffer_pct # 0

validate_recovered_public_terminal(a) == volumes[a].root_auth /\ headers_of(a)

validate_terminal(a) ==
    /\ validate_critical_metadata_image(image(a)) /\ validate_v45_trailer_equations(image(a))
    /\ IF authority THEN validate_recovered_terminal_authority(a)
       ELSE validate_recovered_terminal(a)

validate_public_terminal(a) ==
    /\ validate_critical_metadata_image(image(a)) /\ validate_v45_trailer_equations(image(a))
    /\ validate_recovered_public_terminal(a)

candidate(a, p, anchor, sequence) ==
    [of |-> a, offset |-> p, length |-> cmra_serialized_length(a), anchor |-> anchor,
     sequence |-> sequence]

\* The locator at p, if there is one.
locators_at(p) ==
    {locator(cell(p).of, s) : s \in {s \in {0, 1} :
        structure(p) = IF s = 0 THEN "Locator0" ELSE "Locator1"}}

located(p, l) == {a \in recover_cmra_header_tuple(l.cmra_offset, {l.of}) :
                     validate_locator_position(p, l) /\ recover_cmra(a, l.cmra_offset)}

\* The CMRA a locator leads to, in all five searches of a key holder ...
parse_locator_cmra_candidate(p, l) ==
    {candidate(a, l.cmra_offset, p + 1, l.locator_sequence) :
        a \in {a \in located(p, l) : KeyHolding /\ validate_terminal(a)}}

\* ... and in the two without a key.
parse_public_locator_cmra_candidate(p, l) ==
    {candidate(a, l.cmra_offset, p + 1, l.locator_sequence) :
        a \in {a \in located(p, l) : ~KeyHolding /\ validate_public_terminal(a)}}

\* Any locator (sequence 2 in the code), or only the one expected at its place.
collect_v45_locator_candidate(p, sequences) ==
    UNION {parse_locator_cmra_candidate(p, l) \cup parse_public_locator_cmra_candidate(p, l) :
              l \in {l \in locators_at(p) : l.locator_sequence \in sequences}}

\* A CMRA found by its own header must be where its image says it is.
locatorless(p) ==
    {a \in recover_cmra_header_tuple(p, {}) :
        /\ recover_cmra(a, p)
        /\ image(a).body_bytes_before_cmra = p
        /\ image(a).volume_trailer_offset + 1 = p}

parse_locatorless_cmra_candidate(p) ==
    {candidate(a, p, p + cmra_serialized_length(a), 2) :
        a \in {a \in locatorless(p) : KeyHolding /\ validate_terminal(a)}}

parse_public_locatorless_cmra_candidate(p) ==
    {candidate(a, p, p + cmra_serialized_length(a), 2) :
        a \in {a \in locatorless(p) : ~KeyHolding /\ validate_public_terminal(a)}}

-----------------------------------------------------------------------------
(***************************************************************************)
(* The search                                                              *)
(***************************************************************************)

TryFinal ==
    /\ pc = "final"
    /\ candidates' = collect_v45_locator_candidate(Len(file) - 1, {0})
    /\ pc' = "mirror"
    /\ UNCHANGED <<input, authority, cursor, result>>

\* Only when neither locator leads to a terminal is the tail searched; a pipe
\* that was spooled to disk is never searched.
TryMirror ==
    /\ pc = "mirror"
    /\ candidates' = candidates \cup collect_v45_locator_candidate(Len(file) - 2, {1})
    /\ IF candidates' = {} /\ (reader.mode = "stream" => reader.api = "bytes")
       THEN pc' = "scan" /\ cursor' = Len(file) - 1
       ELSE pc' = "choose" /\ UNCHANGED cursor
    /\ UNCHANGED <<input, authority, result>>

scan_start == IF Len(file) > ScanCells THEN Len(file) - ScanCells ELSE 0

\* One step of the backward scan over "TZCL" and "TZCR".
Scan ==
    /\ pc = "scan"
    /\ candidates' = candidates
         \cup collect_v45_locator_candidate(cursor, {0, 1})
         \cup parse_locatorless_cmra_candidate(cursor)
         \cup parse_public_locatorless_cmra_candidate(cursor)
    /\ IF cursor <= scan_start THEN pc' = "choose" /\ UNCHANGED cursor
       ELSE cursor' = cursor - 1 /\ UNCHANGED pc
    /\ UNCHANGED <<input, authority, result>>

\* The candidate that ends last; two at the same place must agree.
choose_v45_terminal_candidate ==
    LET last == {c \in candidates : \A d \in candidates : d.anchor <= c.anchor}
    IN  IF \E c, d \in last : c.offset # d.offset \/ c.length # d.length
        THEN {} ELSE last

\* terminal_candidate_reaches_eof: what was piped in ends with its terminal.
reaches_eof(c) ==
    Len(file) = c.anchor + (CASE c.sequence = 0 -> 0 [] c.sequence = 1 -> 1 [] OTHER -> 2)

\* finish_parse_seekable_volume and the checks before it: the in-memory reader
\* also parses the block region, where a readable record must be in its slot.
finish_parse(c) ==
    /\ reader.mode = "master" /\ volumes[c.of].key_wrap =>
          authority /\ reader.api = "bytes" /\ startup_key_wrap_table(c.of)
    /\ reader.mode = "stream" => reaches_eof(c)
    /\ reader.mode \in {"master", "wrap"} /\ reader.api = "bytes" =>
          \A p \in image(c.of).block_records_offset .. image(c.of).manifest_footer_offset - 1 :
              structure(p) = "BlockRecord" =>
                  p - image(c.of).block_records_offset
                    = cell(p).at - image(cell(p).of).block_records_offset

\* The prefix did not lead to a terminal: once more without it, and what is found
\* must have the CryptoHeader of the prefix.
retry == ~authority /\ reader.mode \in {"master", "wrap"}
agrees_with_prefix(c) == \A a \in DOMAIN volumes : parse_open_prefix(a) => c.of = a

\* public_no_key_layout_flags: the first of the two locators at the end of the
\* file that leads to an image, wherever it stands.
layout_flags ==
    LET at(p, s) == {l.of : l \in {l \in locators_at(p) :
                        /\ l.locator_sequence = s
                        /\ recover_cmra_header_tuple(l.cmra_offset, {l.of}) # {}
                        /\ recover_cmra(l.of, l.cmra_offset)}}
    IN  IF at(Len(file) - 1, 0) # {} THEN at(Len(file) - 1, 0) ELSE at(Len(file) - 2, 1)

Choose ==
    /\ pc = "choose"
    /\ LET found == {c \in choose_v45_terminal_candidate : finish_parse(c) /\ agrees_with_prefix(c)}
       IN  IF found # {}
           THEN \E c \in found :
                   /\ result' = [status |-> "ok", of |-> c.of]
                   /\ pc' = "done" /\ UNCHANGED <<authority, candidates>>
           ELSE IF retry
           THEN authority' = TRUE /\ candidates' = {} /\ pc' = "final" /\ UNCHANGED result
           ELSE /\ IF reader.mode = "inspect" /\ \E a \in layout_flags : ~volumes[a].root_auth
                   THEN result' = [status |-> "unsigned", of |-> "none"] /\ pc' = "done"
                   ELSE Fail
                /\ UNCHANGED <<authority, candidates>>
    /\ UNCHANGED <<input, cursor>>

Finished == pc = "done" /\ UNCHANGED vars

Next == \/ Rot \/ Truncate \/ AppendJunk
        \/ PrefixParses \/ PrefixFails
        \/ TryFinal \/ TryMirror \/ Scan \/ Choose
        \/ Finished

Spec == Init /\ [][Next]_vars

-----------------------------------------------------------------------------
(***************************************************************************)
(* Properties                                                              *)
(***************************************************************************)

own == cells(volumes.this, "this")
intact(p) == cell(p) = own[p + 1]
own_cmra == image("this").body_bytes_before_cmra
own_end == Len(own) - 2
own_shards == own_cmra + 1 .. own_end - 1

PrefixIntact == \A p \in 0 .. IF KeyHolding /\ volumes.this.key_wrap THEN 2 ELSE 1 : intact(p)

\* As many shards are lost as there is parity, and the file still spans the CMRA.
CmraSurvives ==
    /\ own_end <= Len(file)
    /\ Cardinality({p \in own_shards : ~intact(p)}) <= cmra_min_parity_shards(volumes.this)

\* A locator or the CMRA header is left, not too far from the end of the file.
AnchorSurvives ==
    IF reader.mode = "stream"
    THEN /\ Len(file) = Len(own)
         /\ \E p \in {own_end, own_end + 1} \cup (IF reader.api = "bytes" THEN {own_cmra} ELSE {}) :
               intact(p)
    ELSE \E p \in {own_cmra, own_end, own_end + 1} : intact(p) /\ p >= Len(file) - ScanCells

\* The damage a volume is written to survive, for this reader.  A raw master key
\* opens a volume with wrapped keys only in the in-memory reader, and only when
\* its headers are damaged: an intact prefix ends the attempt.
Tolerable ==
    /\ CmraSurvives /\ AnchorSurvives
    /\ CASE reader.mode \in {"public", "inspect"} -> PrefixIntact /\ volumes.this.root_auth
         [] reader.mode = "stream" -> PrefixIntact /\ ~volumes.this.key_wrap /\ "this" \in reader.keys
         [] reader.mode = "wrap" ->
               /\ volumes.this.key_wrap /\ recipient_wrap_subkeys("this")
               /\ PrefixIntact \/ volumes.this.bit_rot_buffer_pct # 0
         [] reader.mode = "master" ->
               /\ "this" \in reader.keys
               /\ IF volumes.this.key_wrap
                  THEN /\ reader.api = "bytes" /\ volumes.this.bit_rot_buffer_pct # 0
                       /\ ~(intact(0) /\ intact(1)) /\ intact(2)
                  ELSE PrefixIntact \/ volumes.this.bit_rot_buffer_pct # 0

\* A volume is opened exactly when its damage is tolerable: rot of the headers,
\* of the footers, of up to its parity of CMRA shards and of all but one of its
\* three anchors, bytes behind it within the scan limit.  And it is opened by its
\* own terminal: one of another archive, inside a payload block, appended, or left
\* over behind the end, is taken for it only where the prefix is of no use to the
\* reader (damaged, or under another key) and the other archive's tail lies at its own offsets, under a key the reader holds
\* (locate_v45_terminal and its seven variants).
OpensExactlyTheTolerable ==
    pc = "done" =>
        IF place = "stale" /\ ~\E a \in DOMAIN volumes : parse_open_prefix(a)
        THEN result = [status |-> "ok", of |-> "this"] => Tolerable
        ELSE /\ result.of \in {"none", "this"}
             /\ result.status = "ok" <=> Tolerable
=============================================================================
