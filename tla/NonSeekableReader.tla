-------------------------- MODULE NonSeekableReader --------------------------
(***************************************************************************)
(* Reading a single-volume archive from a pipe.  The index comes last, so  *)
(* the reader finds the payload envelopes by the block kinds and the last- *)
(* data flag alone, decodes each one before it knows whether the archive   *)
(* is complete, and compares what it found with the index at the end.      *)
(*                                                                         *)
(* There are two such readers with the same shape: the live one            *)
(* (non_seekable_reader.rs) behind list, verify and extract, which keeps   *)
(* the metadata blocks and checks the index, and the whole-buffer one      *)
(* (sequential_extract_tar_stream, reader/validation.rs), which does not.  *)
(*                                                                         *)
(* The pipe may deliver a record that fails its CRC, a record without its  *)
(* magic, too few or too many records, or a damaged tail.                  *)
(***************************************************************************)
EXTENDS ObjectPlan, Sequences, FiniteSets

CONSTANTS
    Requests,      \* archives: options, data blocks of envelopes and metadata
    RetainedCap,   \* max_retained_metadata_bytes, in blocks
    MaxFaults      \* bound: what goes wrong on the pipe

ASSUME RequestAssumption ==
    /\ \A r \in Requests :
          /\ ValidOptions(r.options)
          /\ r.options.stripe_width = 1
          /\ r.encrypted \in BOOLEAN
          /\ \A d \in {r.payload[k] : k \in DOMAIN r.payload}
                      \cup {r.metadata[k] : k \in DOMAIN r.metadata} :
                /\ d \in 1 .. r.options.fec_data_shards
                /\ compute_parity(r.options, d) # NoPlan
          /\ r.payload \in Seq(Nat) /\ r.metadata \in Seq(Nat) /\ r.metadata # <<>>
    /\ RetainedCap \in Nat /\ MaxFaults \in Nat

VARIABLES
    reader,             \* "live" or "buffer"
    archive,            \* what was written: options and objects
    pos,                \* the record the pipe delivers next
    faults,             \* how often the pipe has misbehaved
    intact,             \* whether all magics and the tail are there
    erased,             \* the positions at which a record failed its CRC
    observed_block_count,
    pending,            \* PendingLiveEnvelope, PendingSequentialEnvelope
    metadata_seen,
    metadata_blocks,    \* the metadata records kept
    decoded,            \* the envelopes decoded so far
    status

pipe == <<pos, faults, intact>>
vars == <<reader, archive, pos, faults, intact, erased, observed_block_count,
          pending, metadata_seen, metadata_blocks, decoded, status>>

-----------------------------------------------------------------------------
\* The sum of the first k numbers of a sequence, for every k.
running_totals(s) ==
    LET total[k \in 0 .. Len(s)] == IF k = 0 THEN 0 ELSE total[k - 1] + s[k]
    IN  total

\* The objects of an archive, one after the other from block 0: first the
\* payload envelopes, then the metadata with the IndexRoot at the end.
lay_out(r) ==
    LET sizes   == r.payload \o r.metadata
        lengths == [k \in 1 .. Len(sizes) |-> sizes[k] + compute_parity(r.options, sizes[k])]
        first   == running_totals(lengths)
    IN  [k \in 1 .. Len(sizes) |->
            [first |-> first[k - 1], data |-> sizes[k],
             parity |-> compute_parity(r.options, sizes[k])]]

written(r) ==
    [options |-> r.options, encrypted |-> r.encrypted,
     envelopes |-> SubSeq(lay_out(r), 1, Len(r.payload)),
     metadata |-> SubSeq(lay_out(r), Len(r.payload) + 1, Len(lay_out(r))),
     required_parity |-> [d \in 0 .. r.options.fec_data_shards |->
                             compute_parity(r.options, d)]]

objects == archive.envelopes \o archive.metadata
block_count == next_block_index(objects[Len(objects)])

\* The record written at a position: its kind and its last-data flag.
record(b) ==
    LET k == CHOOSE i \in DOMAIN objects :
                objects[i].first <= b /\ b < next_block_index(objects[i])
        e == objects[k]
    IN  [block_index |-> b,
         kind |-> IF k > Len(archive.envelopes) THEN "Metadata"
                  ELSE IF b < e.first + e.data THEN "PayloadData" ELSE "PayloadParity",
         last_data |-> b = e.first + e.data - 1]

Erased == -1
NoEnvelope == [data_shards |-> <<>>, parity_shards |-> <<>>,
               saw_last_data |-> FALSE, awaiting_tentative_parity |-> FALSE,
               first_block_index |-> Erased]

Init ==
    /\ reader \in {"live", "buffer"}
    /\ archive \in {written(r) : r \in Requests}
    /\ pos = 0 /\ faults = 0 /\ intact = TRUE
    /\ erased = {}
    /\ observed_block_count = 0
    /\ pending = NoEnvelope
    /\ metadata_seen = FALSE /\ metadata_blocks = {}
    /\ decoded = <<>>
    /\ status = "headers"

\* The headers, the key wrap table and the sidecar come first.  The stream may
\* be damaged there, be one of several volumes, need a dictionary the sidecar
\* does not have, or not open with the key that was given.
ReadHeaders ==
    /\ status = "headers"
    /\ \/ status' = "records" /\ UNCHANGED <<faults, intact>>
       \/ /\ faults < MaxFaults /\ faults' = faults + 1
          /\ intact' = FALSE
          /\ status' = "failed"
    /\ UNCHANGED <<reader, archive, pos, erased, observed_block_count, pending,
                   metadata_seen, metadata_blocks, decoded>>

-----------------------------------------------------------------------------
(***************************************************************************)
(* Envelopes                                                               *)
(***************************************************************************)
is_empty(p) == p.data_shards = <<>> /\ p.parity_shards = <<>>

note_block(p, b) ==
    [p EXCEPT !.first_block_index = IF @ = Erased THEN b ELSE @]

required_object_parity(p) == archive.required_parity[Len(p.data_shards)]

\* Mutant: the parity may fall short of what the options ask for.
finalizable_any_parity(p) ==
    /\ p.saw_last_data
    /\ Len(p.data_shards) <= archive.options.fec_data_shards
    /\ Len(p.parity_shards) <= archive.options.fec_parity_shards
    /\ Cardinality({i \in DOMAIN p.data_shards : p.data_shards[i] = Erased})
           <= Len(p.parity_shards)

\* The checks of finalize_live_envelope, and whether the erasure code has enough
\* shards.
finalizable(p) ==
    /\ p.saw_last_data
    /\ Len(p.data_shards) <= archive.options.fec_data_shards
    /\ Len(p.parity_shards) <= archive.options.fec_parity_shards
    /\ required_object_parity(p) # NoPlan
    /\ Len(p.parity_shards) >= required_object_parity(p)
    /\ Cardinality({i \in DOMAIN p.data_shards : p.data_shards[i] = Erased})
           <= Len(p.parity_shards)

\* The shards of envelope k, and if some must be repaired its parity in order.
are_shards_of(p, k) ==
    LET e == archive.envelopes[k]
    IN  /\ Len(p.data_shards) = e.data
        /\ \A i \in 1 .. e.data : p.data_shards[i] \in {Erased, e.first + i - 1}
        /\ \/ \A i \in 1 .. e.data : p.data_shards[i] # Erased
           \/ \A i \in DOMAIN p.parity_shards :
                 p.parity_shards[i] = e.first + e.data + i - 1

\* What the repaired shards hold: an envelope that was written, or something
\* else.
Garbage == 0
content(p) ==
    IF \E k \in DOMAIN archive.envelopes : are_shards_of(p, k)
    THEN CHOOSE k \in DOMAIN archive.envelopes : are_shards_of(p, k)
    ELSE Garbage

next_envelope_index == Len(decoded)

\* decrypt_padded_aead_object and decode_envelope: the counter is part of the
\* nonce, so an encrypted archive only opens the envelope whose turn it is.
\* Without encryption garbage may or may not look like zstd frames.
opens(p) ==
    finalizable(p) /\ (archive.encrypted => content(p) = next_envelope_index + 1)
may_not_open(p) == ~opens(p) \/ content(p) = Garbage

summary(p) ==
    [first |-> p.first_block_index, data |-> Len(p.data_shards),
     parity |-> Len(p.parity_shards), content |-> content(p)]

Fail ==
    /\ status' = "failed"
    /\ UNCHANGED <<pending, metadata_seen, metadata_blocks, decoded>>

\* finalize_live_envelope, finalize_sequential_envelope, then the rest of the
\* caller.
Finalize(then) ==
    \/ opens(pending) /\ decoded' = Append(decoded, summary(pending)) /\ then
    \/ may_not_open(pending) /\ Fail

push_data(p, b, shard, last) ==
    [note_block(p, b) EXCEPT !.data_shards = Append(@, shard),
                             !.saw_last_data = last]

\* The caps are checked after the push.
KeepPending(p) ==
    IF /\ Len(p.data_shards) <= archive.options.fec_data_shards
       /\ Len(p.parity_shards) <= archive.options.fec_parity_shards
    THEN pending' = p /\ UNCHANGED <<metadata_seen, metadata_blocks, status>>
    ELSE status' = "failed" /\ UNCHANGED <<pending, metadata_seen, metadata_blocks>>

-----------------------------------------------------------------------------
(***************************************************************************)
(* handle_live_record                                                      *)
(***************************************************************************)
PayloadData(r) ==
    /\ r.kind = "PayloadData"
    /\ \/ (metadata_seen \/ pending.awaiting_tentative_parity) /\ Fail
       \/ /\ ~metadata_seen /\ ~pending.awaiting_tentative_parity
          /\ pending.saw_last_data
          /\ Finalize(KeepPending(push_data(NoEnvelope, r.block_index,
                                            r.block_index, r.last_data)))
       \/ /\ ~metadata_seen /\ ~pending.awaiting_tentative_parity
          /\ ~pending.saw_last_data
          /\ KeepPending(push_data(pending, r.block_index, r.block_index, r.last_data))
          /\ UNCHANGED decoded

PayloadParity(r) ==
    /\ r.kind = "PayloadParity"
    /\ LET unexpected == \/ metadata_seen
                         \/ /\ ~pending.awaiting_tentative_parity
                            /\ pending.data_shards = <<>> \/ ~pending.saw_last_data
       IN \/ unexpected /\ Fail
          \/ /\ ~unexpected
             /\ KeepPending([note_block(pending, r.block_index) EXCEPT
                    !.awaiting_tentative_parity = FALSE,
                    !.saw_last_data = TRUE,
                    !.parity_shards = Append(@, r.block_index)])
             /\ UNCHANGED decoded

\* retain_metadata_record: the live reader keeps the record, up to its cap.
Retain(r) ==
    /\ metadata_seen' = TRUE
    /\ IF reader = "live" /\ Cardinality(metadata_blocks) = RetainedCap
       THEN status' = "failed" /\ UNCHANGED <<pending, metadata_blocks>>
       ELSE /\ metadata_blocks' = metadata_blocks \cup
                    IF reader = "live" THEN {r.block_index} ELSE {}
            /\ pending' = NoEnvelope
            /\ UNCHANGED status

Metadata(r) ==
    /\ r.kind = "Metadata"
    /\ \/ ~is_empty(pending) /\ Finalize(Retain(r))
       \/ is_empty(pending) /\ Retain(r) /\ UNCHANGED decoded

\* Both readers tell the records apart in the same way.
HandleRecord(r) == PayloadData(r) \/ PayloadParity(r) \/ Metadata(r)

\* A record whose CRC holds: its index must be the one its position asks for.
ReadRecord ==
    /\ status = "records" /\ pos < block_count
    /\ pos' = pos + 1
    /\ observed_block_count' = observed_block_count + 1
    /\ LET r == record(pos)
       IN  \/ r.block_index # observed_block_count /\ Fail
           \/ /\ r.block_index = observed_block_count
              /\ HandleRecord(r)
    /\ UNCHANGED <<reader, archive, faults, intact, erased>>

-----------------------------------------------------------------------------
(***************************************************************************)
(* handle_live_erasure, handle_sequential_payload_erasure                  *)
(***************************************************************************)
parity_is_guaranteed ==
    /\ archive.options.fec_parity_shards > 0
    /\ \/ archive.options.volume_loss_tolerance > 0
       \/ archive.options.bit_rot_buffer_pct > 0

\* Mutant: one parity block more than required is waited for.
envelope_is_complete_and_more ==
    /\ pending.saw_last_data
    /\ required_object_parity(pending) # NoPlan
    /\ Len(pending.parity_shards) > required_object_parity(pending)

\* The envelope is complete, so what is missing is taken for metadata.
envelope_is_complete ==
    /\ pending.saw_last_data
    /\ required_object_parity(pending) # NoPlan
    /\ Len(pending.parity_shards) >= required_object_parity(pending)

\* The erased block may be the last data block; the next record will tell.
GuessData(b) ==
    \/ /\ ~pending.saw_last_data /\ parity_is_guaranteed
       /\ KeepPending([push_data(pending, b, Erased, FALSE) EXCEPT
                          !.awaiting_tentative_parity = TRUE])
       /\ UNCHANGED decoded
    \/ (pending.saw_last_data \/ ~parity_is_guaranteed) /\ Fail

LiveErasure(b) ==
    /\ reader = "live"
    /\ \/ metadata_seen /\ UNCHANGED <<pending, metadata_seen, metadata_blocks, decoded, status>>
       \/ /\ ~metadata_seen /\ envelope_is_complete
          /\ Finalize(/\ metadata_seen' = TRUE /\ pending' = NoEnvelope
                      /\ UNCHANGED <<metadata_blocks, status>>)
       \/ ~metadata_seen /\ ~envelope_is_complete /\ GuessData(b)

BufferErasure(b) ==
    /\ reader = "buffer"
    /\ \/ metadata_seen /\ Fail
       \/ ~metadata_seen /\ GuessData(b)

ReadErasure ==
    /\ status = "records" /\ pos < block_count
    /\ faults < MaxFaults /\ faults' = faults + 1
    /\ pos' = pos + 1
    /\ observed_block_count' = observed_block_count + 1
    /\ erased' = erased \cup {observed_block_count}
    /\ LiveErasure(observed_block_count) \/ BufferErasure(observed_block_count)
    /\ UNCHANGED <<reader, archive, intact>>

-----------------------------------------------------------------------------
(***************************************************************************)
(* The end of the stream                                                   *)
(***************************************************************************)

\* Anything but the magic of a record starts the terminal tail.  What follows
\* up to the end of the stream is buffered.
ReachTail ==
    /\ status = "records" /\ pos = block_count
    /\ status' = "tail"
    /\ \/ UNCHANGED <<intact, faults>>
       \/ faults < MaxFaults /\ faults' = faults + 1 /\ intact' = FALSE
    /\ UNCHANGED <<reader, archive, pos, erased, observed_block_count, pending,
                   metadata_seen, metadata_blocks, decoded>>

\* A record lost its magic, or the buffer ends before it: the rest is the tail.
ReadBadMagic ==
    /\ status = "records" /\ pos < block_count
    /\ faults < MaxFaults /\ faults' = faults + 1
    /\ intact' = FALSE
    /\ status' = "tail"
    /\ UNCHANGED <<reader, archive, pos, erased, observed_block_count,
                   pending, metadata_seen, metadata_blocks, decoded>>

\* read_exact_stream: the stream ends within a record, or, for the live reader,
\* where a record or the tail should start; or max_terminal_tail_size is exceeded.
StreamEnds ==
    /\ status = "records"
    /\ reader = "live" \/ pos < block_count
    /\ faults < MaxFaults /\ faults' = faults + 1
    /\ intact' = FALSE
    /\ Fail
    /\ UNCHANGED <<reader, archive, pos, erased, observed_block_count>>

\* An envelope may still be pending.
FinishPayload ==
    /\ status = "tail"
    /\ \/ /\ ~is_empty(pending)
          /\ Finalize(/\ status' = "terminal" /\ pending' = NoEnvelope
                      /\ UNCHANGED <<metadata_seen, metadata_blocks>>)
       \/ /\ is_empty(pending)
          /\ status' = "terminal"
          /\ UNCHANGED <<pending, metadata_seen, metadata_blocks, decoded>>
    /\ UNCHANGED <<reader, archive, pipe, erased, observed_block_count>>

\* The trailer is found from the end of the stream; its ManifestFooter must start
\* where the tail does and its block count be the observed one.
terminal_is_valid == intact /\ observed_block_count = block_count

\* parse_terminal_material.  The whole-buffer reader is done.
CheckTerminal ==
    /\ status = "terminal"
    /\ status' = IF ~terminal_is_valid THEN "failed"
                 ELSE IF reader = "buffer" THEN "succeeded" ELSE "index"
    /\ UNCHANGED <<reader, archive, pipe, erased, observed_block_count, pending,
                   metadata_seen, metadata_blocks, decoded>>

\* Loading the IndexRoot and the tables from the blocks that were kept.
metadata_loads(e) ==
    LET kept == metadata_blocks \cap (e.first .. next_block_index(e) - 1)
    IN  Cardinality(kept) >= e.data

\* Mutant: only what was decoded is looked up.
summary_matches_decoded ==
    \A k \in DOMAIN decoded :
        /\ k \in DOMAIN archive.envelopes
        /\ decoded[k].first = archive.envelopes[k].first

data_block_sum(s) == running_totals([k \in DOMAIN s |-> s[k].data])[Len(s)]

\* validate_streamed_payload_summary: the data blocks in all, the hash of the
\* content, and every EnvelopeEntry.
summary_matches ==
    /\ data_block_sum(decoded) = data_block_sum(archive.envelopes)
    /\ [k \in DOMAIN decoded |-> decoded[k].content] = [k \in DOMAIN archive.envelopes |-> k]
    /\ \A k \in DOMAIN archive.envelopes :
          /\ k \in DOMAIN decoded
          /\ decoded[k].first = archive.envelopes[k].first
          /\ decoded[k].data = archive.envelopes[k].data
          /\ decoded[k].parity = archive.envelopes[k].parity

\* from_streamed_parts, verify_streamed_payload_summary.
CheckIndex ==
    /\ status = "index"
    /\ status' = IF /\ \A k \in DOMAIN archive.metadata : metadata_loads(archive.metadata[k])
                    /\ summary_matches
                 THEN "succeeded" ELSE "failed"
    /\ UNCHANGED <<reader, archive, pipe, erased, observed_block_count, pending,
                   metadata_seen, metadata_blocks, decoded>>

\* The pipe drops a record, or delivers one again.
PipeSlips ==
    /\ status = "records"
    /\ faults < MaxFaults /\ faults' = faults + 1
    /\ \/ pos < block_count /\ pos' = pos + 1
       \/ pos > 0 /\ pos' = pos - 1
    /\ UNCHANGED <<reader, archive, intact, erased, observed_block_count,
                   pending, metadata_seen, metadata_blocks, decoded, status>>

Ended == {"succeeded", "failed"}
Finished == status \in Ended /\ UNCHANGED vars

Next ==
    \/ ReadHeaders \/ ReadRecord \/ ReadErasure \/ ReachTail \/ ReadBadMagic \/ StreamEnds
    \/ FinishPayload \/ CheckTerminal \/ CheckIndex
    \/ PipeSlips \/ Finished

Spec == Init /\ [][Next]_vars

-----------------------------------------------------------------------------
\* What has been decoded, and may already be staged on disk, is at every moment
\* the beginning of what was written: no erasure, lost or repeated record makes
\* the reader take shards of one envelope for another's or repair garbage, not
\* even where no AEAD tag would notice.
DecodedIsPrefix ==
    /\ Len(decoded) <= Len(archive.envelopes)
    /\ \A k \in DOMAIN decoded :
          /\ decoded[k].content = k
          /\ decoded[k].first = archive.envelopes[k].first
          /\ decoded[k].data = archive.envelopes[k].data

\* A reader reports success only for the whole archive.
SuccessIsComplete ==
    status = "succeeded" => Len(decoded) = Len(archive.envelopes)

erased_in(e) == erased \cap (e.first .. next_block_index(e) - 1)

\* In an envelope only the last data blocks may be missing, with parity to repair
\* them, and a data block of that envelope must have come before them, unless it
\* is the first envelope: otherwise the live reader takes the gap for the start of
\* the metadata.
EnvelopeTolerable(k) ==
    LET e == archive.envelopes[k]
    IN  \/ erased_in(e) = {}
        \/ \E b \in e.first .. e.first + e.data - 1 :
              /\ erased_in(e) = b .. e.first + e.data - 1
              /\ Cardinality(erased_in(e)) <= e.parity
              /\ k = 1 \/ b > e.first

\* In a metadata object as much may be missing as its parity repairs, but not the
\* very first block of the stream; the whole-buffer reader wants all of it.
MetadataTolerable(k) ==
    LET e == archive.metadata[k]
    IN  \/ erased_in(e) = {}
        \/ /\ reader = "live"
           /\ archive.envelopes # <<>> \/ 0 \notin erased
           /\ Cardinality(erased_in(e)) <= e.parity

metadata_received == {b \in archive.metadata[1].first .. block_count - 1 : b \notin erased}

\* The damage a reader can go on with.
Tolerable ==
    /\ intact /\ pos = observed_block_count
    /\ \A k \in DOMAIN archive.envelopes : EnvelopeTolerable(k)
    /\ \A k \in DOMAIN archive.metadata : MetadataTolerable(k)
    /\ reader = "live" => Cardinality(metadata_received) <= RetainedCap

\* Neither reader gives up on a stream it could have read, and neither accepts
\* any other: an intact stream always passes, and so does one whose only damage
\* is tolerable.
AcceptsTheTolerable ==
    status \in Ended => (status = "succeeded" <=> Tolerable)
===============================================================================
