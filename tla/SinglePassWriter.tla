--------------------------- MODULE SinglePassWriter ---------------------------
(***************************************************************************)
(* The single-pass archive writer, StreamingArchiveWriter (writer/mod.rs): *)
(* one thread reads, compresses, packs, encrypts and writes.  Unlike the   *)
(* parallel writer it retries a chunk whose frame no envelope can hold     *)
(* with half of it, and gives the rest back to the member's reader.        *)
(***************************************************************************)
EXTENDS PayloadFrames

CONSTANTS
    GroupSizes,     \* sizes a tar member group may have
    FrameLens,      \* lengths a compressed frame may have
    MaxMembers,     \* bound: members per archive
    Options         \* the planned WriterOptions, a record of ObjectPlan

ASSUME InputAssumption ==
    /\ GroupSizes \subseteq Nat \ {0}
    /\ FrameLens \subseteq Nat \ {0}
    /\ MaxMembers \in Nat
ASSUME OptionsAssumption == ValidOptions(Options)

VARIABLES
    pc,              \* where the writer is
    input,           \* the member being read: start, group size, offset
    taken,           \* bytes of the member its reader has handed out
    chunk,           \* the chunk read: where in the stream, how many bytes,
                     \* how many of them are being tried, compressed length
    tar_members, tar_total_size, frames,
    contents,        \* the stretch of the tar stream each frame holds
    envelope, payload_objects, next_block,
    emitted          \* the block records written to the volumes, in order

reading == <<input, taken, chunk, tar_members, tar_total_size>>
packing == <<frames, contents, envelope>>
sealing == <<payload_objects, next_block, emitted>>
vars == <<pc, reading, packing, sealing>>

NoInput == [start |-> 0, group |-> 0, offset |-> 0]
NoChunk == [from |-> 0, size |-> 0, len |-> 0, frame_len |-> 0]

Init ==
    /\ pc = "member"
    /\ input = NoInput /\ taken = 0 /\ chunk = NoChunk
    /\ tar_members = <<>> /\ tar_total_size = 0
    /\ frames = <<>> /\ contents = <<>> /\ envelope = EmptyEnvelope(0)
    /\ payload_objects = <<>> /\ next_block = 0 /\ emitted = <<>>

-----------------------------------------------------------------------------
\* drive_members starts another member: its TarMember is recorded first.
BeginMember ==
    /\ pc = "member"
    /\ Len(tar_members) < MaxMembers
    /\ \E size \in GroupSizes :
          /\ input' = [start |-> tar_total_size, group |-> size, offset |-> 0]
          /\ tar_members' = Append(tar_members,
                                   [start |-> tar_total_size, group |-> size])
    /\ taken' = 0
    /\ pc' = "read"
    /\ UNCHANGED <<chunk, tar_total_size, packing, sealing>>

\* read_exact takes the whole chunk from the member's reader.
ReadChunk ==
    LET remaining == input.group - input.offset
        size == IF remaining < Options.chunk_size THEN remaining ELSE Options.chunk_size
    IN  /\ pc = "read"
        /\ input.offset < input.group
        /\ chunk' = [from |-> input.start + taken, size |-> size, len |-> size,
                     frame_len |-> 0]
        /\ taken' = taken + size
        /\ pc' = "compress"
        /\ UNCHANGED <<input, tar_members, tar_total_size, packing, sealing>>

\* The source fails or ends early, or compression fails.
InputFails ==
    /\ pc \in {"read", "compress"}
    /\ input.offset < input.group
    /\ pc' = "err"
    /\ UNCHANGED <<reading, packing, sealing>>

\* Mutant: what was not tried is not pushed back.
CompressFits_loses_rest ==
    /\ pc = "compress"
    /\ \E len \in FrameLens :
          /\ payload_object_can_fit(Options, len)
          /\ chunk' = [chunk EXCEPT !.frame_len = len]
    /\ pc' = "append"
    /\ UNCHANGED <<input, taken, tar_members, tar_total_size, packing, sealing>>

\* The frame fits an envelope of its own: what was not tried is pushed back.
CompressFits ==
    /\ pc = "compress"
    /\ \E len \in FrameLens :
          /\ payload_object_can_fit(Options, len)
          /\ chunk' = [chunk EXCEPT !.frame_len = len]
    /\ taken' = taken - (chunk.size - chunk.len)
    /\ pc' = "append"
    /\ UNCHANGED <<input, tar_members, tar_total_size, packing, sealing>>

\* It does not: try half of the chunk.
CompressTooLarge ==
    /\ pc = "compress"
    /\ \E len \in FrameLens : ~payload_object_can_fit(Options, len)
    /\ chunk.len > 1
    /\ chunk' = [chunk EXCEPT !.len = @ \div 2]
    /\ UNCHANGED <<pc, input, taken, tar_members, tar_total_size, packing, sealing>>

SingleByteTooLarge ==
    /\ pc = "compress"
    /\ \E len \in FrameLens : ~payload_object_can_fit(Options, len)
    /\ chunk.len = 1
    /\ pc' = "err"
    /\ UNCHANGED <<reading, packing, sealing>>

-----------------------------------------------------------------------------
needs_flush(len) == payload_envelope_needs_flush(Options, envelope, len)

\* append_payload_frame, the chunk's part of write_prebuilt_member included.
AppendFrame ==
    LET tried == [member |-> Len(tar_members) - 1, start |-> input.start,
                  offset |-> input.offset, group |-> input.group, size |-> chunk.len]
    IN  /\ pc = "append"
        /\ ~needs_flush(chunk.frame_len)
        /\ frames' = Append(frames, payload_frame_metadata(Len(frames), envelope,
                                                           tried, chunk.frame_len))
        /\ contents' = Append(contents, [from |-> chunk.from, size |-> chunk.len])
        /\ envelope' = extend_envelope(envelope, Len(frames), chunk.frame_len)
        /\ input' = [input EXCEPT !.offset = @ + chunk.len]
        /\ tar_total_size' = tar_total_size + chunk.len
        /\ chunk' = NoChunk
        /\ pc' = "read"
        /\ UNCHANGED <<taken, tar_members, sealing>>

MemberDone ==
    /\ pc = "read"
    /\ input.offset = input.group
    /\ pc' = "member"
    /\ UNCHANGED <<reading, packing, sealing>>

EndMembers ==
    /\ pc = "member"
    /\ pc' = "finish"
    /\ UNCHANGED <<reading, packing, sealing>>

\* Mutant: the next object is planned over this one.
Flush_in_place ==
    LET object == payload_object(Options, next_block, envelope)
    IN  /\ envelope.plaintext # <<>>
        /\ emitted' = emitted \o
             block_records(envelope.index, envelope.plaintext, object.extent)
        /\ payload_objects' = Append(payload_objects, object)
        /\ envelope' = EmptyEnvelope(envelope.index + 1)
        /\ UNCHANGED <<pc, reading, frames, contents, next_block>>

\* flush_payload_envelope: the object's blocks are written, then it is recorded.
Flush ==
    LET object == payload_object(Options, next_block, envelope)
    IN  /\ envelope.plaintext # <<>>
        /\ emitted' = emitted \o
             block_records(envelope.index, envelope.plaintext, object.extent)
        /\ payload_objects' = Append(payload_objects, object)
        /\ next_block' = next_block_index(object.extent)
        /\ envelope' = EmptyEnvelope(envelope.index + 1)
        /\ UNCHANGED <<pc, reading, frames, contents>>

FlushForAppend == pc = "append" /\ needs_flush(chunk.frame_len) /\ Flush

FinalFlush == pc = "finish" /\ Flush

\* A write fails: some blocks of the object are there, the object is not
\* recorded.
SinkFails ==
    LET object == payload_object(Options, next_block, envelope)
        recs   == block_records(envelope.index, envelope.plaintext, object.extent)
    IN  /\ \/ pc = "append" /\ needs_flush(chunk.frame_len)
           \/ pc = "finish"
        /\ envelope.plaintext # <<>>
        /\ \E n \in 0 .. Len(recs) - 1 : emitted' = emitted \o SubSeq(recs, 1, n)
        /\ next_block' = next_block_index(object.extent)
        /\ pc' = "err"
        /\ UNCHANGED <<reading, packing, payload_objects>>

\* Mutant: the last envelope is not flushed.
Finish_unflushed == pc = "finish" /\ pc' = "ok" /\ UNCHANGED <<reading, packing, sealing>>

Finish ==
    /\ pc = "finish"
    /\ envelope.plaintext = <<>>
    /\ pc' = "ok"
    /\ UNCHANGED <<reading, packing, sealing>>

\* The writer has returned.
Finished == pc \in {"ok", "err"} /\ UNCHANGED vars

Next ==
    \/ BeginMember \/ EndMembers \/ ReadChunk \/ InputFails \/ MemberDone
    \/ CompressFits \/ CompressTooLarge \/ SingleByteTooLarge
    \/ AppendFrame \/ FlushForAppend \/ FinalFlush \/ SinkFails \/ Finish
    \/ Finished

Spec == Init /\ [][Next]_vars

-----------------------------------------------------------------------------
(***************************************************************************)
(* Properties                                                              *)
(***************************************************************************)

\* A frame holds the bytes its index entry places in the tar stream, although
\* a chunk may be cut short and its rest pushed back: no byte is skipped or
\* archived twice.  The frames tile the tar stream and their flags mark the
\* member boundaries, whatever the halving did to the chunks.  Every frame that
\* reaches an envelope can be sealed: a flush never fails to plan its object, and
\* append_payload_frame's own limit check never fires.
FramesHoldTheirBytes ==
    /\ \A i \in DOMAIN frames : /\ contents[i].from = frames[i].tar_offset
                                /\ contents[i].size = frames[i].size
    /\ TilesStream(frames, tar_members)
    /\ envelope.plaintext # <<>> => payload_object_can_fit(Options, envelope.len)
    /\ pc = "append" => payload_object_can_fit(Options, chunk.frame_len)

\* A successful return means a complete payload: every byte of every member is
\* in a frame, every frame is in an object that was written, and the index
\* describes what is in each block.
SuccessIsComplete ==
    pc = "ok" =>
        /\ tar_members # <<>> =>
              LET m == tar_members[Len(tar_members)]
                  f == frames[Len(frames)]
              IN  f.tar_offset + f.size = m.start + m.group
        /\ TilesEnvelopes(frames, payload_objects)
        /\ \A i \in DOMAIN frames : frames[i].envelope < Len(payload_objects)
        /\ DescribesBlocks(frames, payload_objects, emitted)

stream_objects ==
    [k \in DOMAIN payload_objects |->
        [first |-> payload_objects[k].extent.first,
         size  |-> payload_objects[k].extent.data + payload_objects[k].extent.parity]]

Stream == INSTANCE PayloadStream WITH
    Sizes   <- 1 .. Options.max_shards,
    objects <- stream_objects,
    written <- Len(emitted),
    status  <- IF pc = "ok" THEN "ok" ELSE IF pc = "err" THEN "failed" ELSE "open"

\* The single-pass writer implements the same payload stream as the parallel
\* one: the metadata writer that follows cannot tell them apart.
ImplementsStream == Stream!Spec
===============================================================================
