---------------------------- MODULE PayloadFrames ----------------------------
(***************************************************************************)
(* Frames, envelopes and their records: the operations the three payload   *)
(* writers share (writer/mod.rs, writer/envelope.rs), and what the index   *)
(* they leave behind must satisfy.                                         *)
(*                                                                         *)
(* A chunk is a record with the member it was cut from, the member's start *)
(* in the tar stream, its group size, and the chunk's offset and size.  An *)
(* envelope's plaintext is the sequence of the indices of the frames in it.*)
(***************************************************************************)
EXTENDS ObjectPlan, Sequences

EmptyEnvelope(index) == [index |-> index, plaintext |-> <<>>, len |-> 0]

payload_envelope_needs_flush(o, e, len) ==
    /\ e.plaintext # <<>>
    /\ \/ e.len + len > o.envelope_target_size
       \/ ~payload_object_can_fit(o, e.len + len)

extend_envelope(e, frame, len) ==
    [e EXCEPT !.plaintext = Append(@, frame), !.len = @ + len]

\* The FrameEntry of a chunk compressed to len bytes, appended to envelope e.
payload_frame_metadata(frame, e, chunk, len) ==
    [frame |-> frame, envelope |-> e.index, member |-> chunk.member,
     offset |-> e.len, len |-> len, size |-> chunk.size,
     first |-> chunk.offset = 0,
     last  |-> chunk.offset + chunk.size = chunk.group,
     tar_offset |-> chunk.start + chunk.offset]

PayloadFrameRecords ==
    [frame : Nat, envelope : Nat, member : Nat, offset : Nat, len : Nat,
     size : Nat, first : BOOLEAN, last : BOOLEAN, tar_offset : Nat]

\* The PayloadObject of envelope e sealed at block first.
payload_object(o, first, e) ==
    [index |-> e.index, len |-> e.len, extent |-> object_extent(o, first, e.len)]

Extents == [first : Nat, data : Nat, parity : Nat]
PayloadObjects == [index : Nat, len : Nat, extent : Extents]

\* The block records encrypt_object makes of a sealed envelope: the data
\* blocks, then the parity blocks.
block_records(index, plaintext, extent) ==
    [i \in 1 .. extent.data + extent.parity |->
        [block |-> extent.first + i - 1, data |-> i <= extent.data,
         index |-> index, plaintext |-> plaintext]]

BlockRecords == [block : Nat, data : BOOLEAN, index : Nat, plaintext : Seq(Nat)]

-----------------------------------------------------------------------------
(***************************************************************************)
(* What an index must say of the payload                                   *)
(***************************************************************************)

\* The places in the index of the frames recorded for envelope k.
frames_in(frames, k) == {i \in DOMAIN frames : frames[i].envelope = k}

\* Whether frame i is the first one of its envelope, or the last one recorded
\* for it.
starts_envelope(frames, i) == i = 1 \/ frames[i - 1].envelope # frames[i].envelope
ends_envelope(frames, i) ==
    i = Len(frames) \/ frames[i + 1].envelope # frames[i].envelope

\* Block i is the i-th record written.
InBlockOrder(blocks) == \A i \in 1 .. Len(blocks) : blocks[i].block = i - 1

\* A block lies in the extent of its envelope, is a data block exactly in the
\* first part of it, and was cut from the frames recorded for that envelope, in
\* order.
DescribesBlocks(frames, objects, blocks) ==
    \A i \in DOMAIN blocks :
        LET r == blocks[i]
            e == objects[r.index + 1].extent
        IN  /\ r.index < Len(objects)
            /\ r.block \in e.first .. next_block_index(e) - 1
            /\ r.data <=> r.block < e.first + e.data
            /\ \A k \in 2 .. Len(r.plaintext) : r.plaintext[k] = r.plaintext[k - 1] + 1
            /\ {r.plaintext[k] : k \in DOMAIN r.plaintext}
                 = {frames[k].frame : k \in frames_in(frames, r.index)}

\* The frames of a sealed envelope are next to each other in the index and tile
\* its plaintext.
TilesEnvelopes(frames, objects) ==
    /\ \A k \in DOMAIN objects : frames_in(frames, k - 1) # {}
    /\ \A i \in DOMAIN frames :
          LET f == frames[i]
          IN  /\ IF starts_envelope(frames, i)
                 THEN f.offset = 0 /\ f.envelope = IF i = 1 THEN 0
                                                  ELSE frames[i - 1].envelope + 1
                 ELSE f.offset = frames[i - 1].offset + frames[i - 1].len
              /\ f.envelope < Len(objects) /\ ends_envelope(frames, i)
                   => objects[f.envelope + 1].len = f.offset + f.len

\* The frames tile the tar stream, each inside its member, and the flags mark
\* the first and the last frame of a member.
TilesStream(frames, members) ==
    \A i \in DOMAIN frames :
        LET f == frames[i]
            m == members[f.member + 1]
        IN  /\ f.frame = i - 1
            /\ f.tar_offset = IF i = 1 THEN 0
                              ELSE frames[i - 1].tar_offset + frames[i - 1].size
            /\ f.first <=> f.tar_offset = m.start
            /\ f.last <=> f.tar_offset + f.size = m.start + m.group
            /\ f.tar_offset >= m.start
            /\ f.tar_offset + f.size <= m.start + m.group

\* The first frame of an envelope would not have fitted the one before.
PackedGreedily(o, frames, objects) ==
    \A i \in DOMAIN frames :
        starts_envelope(frames, i) /\ i > 1
          => LET len == objects[frames[i - 1].envelope + 1].len + frames[i].len
             IN  len > o.envelope_target_size \/ ~payload_object_can_fit(o, len)
=============================================================================
