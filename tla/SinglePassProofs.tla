-------------------------- MODULE SinglePassProofs --------------------------
(***************************************************************************)
(* Proofs about the single-pass writer, for any members, any frame lengths *)
(* and any valid options: frames hold the bytes the index says, a success  *)
(* is complete, and the payload stream is implemented.                     *)
(***************************************************************************)
EXTENDS SinglePassWriter, PayloadFramesProofs

Spans == [from : Int, size : Nat]
TarMembers == [start : Nat, group : Nat]

\* Every variable holds a value of its kind.
TypeOK ==
    /\ pc \in {"member", "read", "compress", "append", "finish", "ok", "err"}
    /\ input \in [start : Nat, group : Nat, offset : Nat]
    /\ taken \in Int
    /\ chunk \in [from : Int, size : Nat, len : Nat, frame_len : Nat]
    /\ tar_members \in Seq(TarMembers) /\ tar_total_size \in Nat
    /\ contents \in Seq(Spans)
    /\ next_block \in Nat
    /\ emitted \in Seq(BlockRecords)

\* The reader of the member stands where the next chunk starts, a chunk that is
\* being tried starts where the tar stream ends so far, and what is beyond the
\* part that is tried has been taken from the reader, until it is pushed back.
ReadingInPlace ==
    /\ tar_total_size = input.start + input.offset
    /\ input.offset <= input.group
    /\ tar_members # <<>> =>
          /\ tar_members[Len(tar_members)] = [start |-> input.start, group |-> input.group]
          /\ input.group > 0
    /\ pc \in {"read", "compress", "append"} => tar_members # <<>>
    /\ pc \in {"member", "finish", "ok"} => input.offset = input.group
    /\ pc = "read" => taken = input.offset
    /\ pc = "compress" => taken = input.offset + chunk.size
    /\ pc = "append" => /\ taken = input.offset + chunk.len
                        /\ payload_object_can_fit(Options, chunk.frame_len)
    /\ pc \in {"compress", "append"} =>
          /\ chunk.from = input.start + input.offset
          /\ chunk.len <= chunk.size
          /\ input.offset + chunk.size <= input.group

\* A recorded frame lies in its member, with flags for its two ends.
InMember(members, f) ==
    /\ f.member < Len(members)
    /\ LET m == members[f.member + 1]
       IN  /\ f.first <=> f.tar_offset = m.start
           /\ f.last <=> f.tar_offset + f.size = m.start + m.group
           /\ f.tar_offset >= m.start
           /\ f.tar_offset + f.size <= m.start + m.group

\* Where a frame starts in the tar stream: where the one before it ends.
StartsAt(fs, i) == IF i = 1 THEN 0 ELSE fs[i - 1].tar_offset + fs[i - 1].size

FramesInPlace ==
    /\ Len(contents) = Len(frames)
    /\ \A i \in 1 .. Len(frames) :
          /\ contents[i].from = frames[i].tar_offset
          /\ contents[i].size = frames[i].size
          /\ frames[i].tar_offset = StartsAt(frames, i)
          /\ InMember(tar_members, frames[i])
    /\ StartsAt(frames, Len(frames) + 1) = tar_total_size

\* Unless a write failed, everything sealed is written and described.
WrittenOut ==
    /\ pc = "ok" => envelope.plaintext = <<>>
    /\ pc # "err" =>
          /\ Len(emitted) = next_block
          /\ payload_objects = <<>> => next_block = 0
          /\ payload_objects # <<>>
                => next_block_index(payload_objects[Len(payload_objects)].extent) = next_block
          /\ DescribesBlocks(frames, payload_objects, emitted)

SinglePassInv ==
    /\ TypeOK /\ ReadingInPlace /\ FramesInPlace
    /\ PackedSoFar(Options, frames, payload_objects, envelope)
    /\ WrittenOut

-----------------------------------------------------------------------------
USE DEF vars, reading, packing, sealing

\* The operations that touch the index, and what the others leave alone.
Flushes == FlushForAppend \/ FinalFlush

LEMMA Effects ==
    ASSUME [Next]_vars
    PROVE  \/ AppendFrame \/ Flushes \/ SinkFails
           \/ UNCHANGED <<packing, sealing>>
  BY DEF Next, BeginMember, EndMembers, ReadChunk, InputFails, MemberDone, CompressFits,
         CompressTooLarge, SingleByteTooLarge, Finish, Finished, Flushes

\* Packing a chunk records a frame for the part of it that was tried.
LEMMA Packs ==
    ASSUME SinglePassInv, AppendFrame
    PROVE  \E f \in PayloadFrameRecords :
             /\ frames' = Append(frames, f)
             /\ GoesTo(frames, envelope, f)
             /\ f.len = chunk.frame_len /\ payload_object_can_fit(Options, f.len)
             /\ ~payload_envelope_needs_flush(Options, envelope, f.len)
             /\ envelope' = extend_envelope(envelope, Len(frames), f.len)
             /\ f.size = chunk.len /\ f.tar_offset = input.start + input.offset
             /\ InMember(tar_members, f)
  <1> DEFINE c == [member |-> Len(tar_members) - 1, start |-> input.start,
                   offset |-> input.offset, group |-> input.group, size |-> chunk.len]
             f == payload_frame_metadata(Len(frames), envelope, c, chunk.frame_len)
  <1>1. /\ TypeOK /\ ReadingInPlace /\ PackedSoFar(Options, frames, payload_objects, envelope)
    BY DEF SinglePassInv
  <1>2. pc = "append" /\ tar_members # <<>>
    BY <1>1 DEF AppendFrame, ReadingInPlace
  <1>3. /\ input.start \in Nat /\ input.offset \in Nat /\ input.group \in Nat
        /\ chunk.len \in Nat /\ chunk.frame_len \in Nat /\ chunk.size \in Nat
        /\ Len(frames) \in Nat /\ envelope.index \in Nat /\ envelope.len \in Nat
    BY <1>1, IndexTypes DEF TypeOK
  <1>4. /\ Len(tar_members) \in Nat /\ Len(tar_members) - 1 \in Nat
        /\ tar_members[Len(tar_members)] = [start |-> input.start, group |-> input.group]
        /\ input.offset + chunk.len <= input.group
        /\ payload_object_can_fit(Options, chunk.frame_len)
    <2>1. tar_members \in Seq(TarMembers)
      BY <1>1 DEF TypeOK
    <2>2. Len(tar_members) \in Nat /\ Len(tar_members) # 0
      BY <1>2, <2>1, EmptySeq, LenProperties
    <2>3. /\ chunk.len <= chunk.size /\ input.offset + chunk.size <= input.group
      BY <1>1, <1>2 DEF ReadingInPlace
    <2>4. input.offset + chunk.len <= input.group
      BY <1>3, <2>3
    <2> QED  BY <1>1, <1>2, <2>2, <2>4 DEF ReadingInPlace
  <1>5. /\ frames' = Append(frames, f)
        /\ ~payload_envelope_needs_flush(Options, envelope, chunk.frame_len)
        /\ envelope' = extend_envelope(envelope, Len(frames), chunk.frame_len)
    BY DEF AppendFrame, needs_flush
  <1>6. /\ f.frame = Len(frames) /\ f.envelope = envelope.index /\ f.member = Len(tar_members) - 1
        /\ f.offset = envelope.len /\ f.len = chunk.frame_len /\ f.size = chunk.len
        /\ f.tar_offset = input.start + input.offset
    BY DEF payload_frame_metadata
  <1>7. /\ f.first <=> input.offset = 0
        /\ f.last <=> input.offset + chunk.len = input.group
    <2> DEFINE a == input.offset = 0
               z == input.offset + chunk.len = input.group
    <2>1. f = [frame |-> Len(frames), envelope |-> envelope.index,
               member |-> Len(tar_members) - 1,
               offset |-> envelope.len, len |-> chunk.frame_len, size |-> chunk.len,
               first |-> a, last |-> z, tar_offset |-> input.start + input.offset]
      BY DEF payload_frame_metadata
    <2> HIDE DEF a, z, f
    <2>2. f.first = a /\ f.last = z
      BY <2>1
    <2> QED  BY <2>2 DEF a, z
  <1>8. f \in PayloadFrameRecords
    <2>1. (input.offset = 0) \in BOOLEAN /\ (input.offset + chunk.len = input.group) \in BOOLEAN
      OBVIOUS
    <2>2. input.start + input.offset \in Nat
      BY <1>3
    <2> QED  BY <1>3, <1>4, <2>1, <2>2 DEF payload_frame_metadata, PayloadFrameRecords
  <1> HIDE DEF f
  <1>9. InMember(tar_members, f)
    <2> DEFINE m == tar_members[f.member + 1]
    <2>1. f.member + 1 = Len(tar_members) /\ f.member < Len(tar_members)
      BY <1>4, <1>6
    <2>2. m.start = input.start /\ m.group = input.group
      BY <1>4, <2>1
    <2> HIDE DEF m
    <2>3. /\ f.tar_offset = m.start <=> input.offset = 0
          /\ f.tar_offset + f.size = m.start + m.group
               <=> input.offset + chunk.len = input.group
          /\ f.tar_offset >= m.start
          /\ f.tar_offset + f.size <= m.start + m.group
      <3>1. f.tar_offset = input.start + input.offset /\ f.size = chunk.len
        BY <1>6
      <3> QED  BY <1>3, <1>4, <2>2, <3>1, SMTT(40)
    <2>4. /\ f.first <=> f.tar_offset = m.start
          /\ f.last <=> f.tar_offset + f.size = m.start + m.group
      BY <1>7, <2>3
    <2> QED  BY <2>1, <2>3, <2>4 DEF InMember, m
  <1> QED  BY <1>4, <1>5, <1>6, <1>8, <1>9 DEF GoesTo

\* Flushing writes the blocks of the envelope and records its object.
LEMMA FlushPlans ==
    ASSUME SinglePassInv, Flushes \/ SinkFails
    PROVE  LET b == payload_object(Options, next_block, envelope)
           IN  /\ envelope.plaintext # <<>> /\ pc \in {"append", "finish"}
               /\ b \in PayloadObjects /\ b.extent \in Extents /\ b.extent.first = next_block
               /\ b.extent.data + b.extent.parity \in 1 .. Options.max_shards
               /\ next_block_index(b.extent) = next_block + (b.extent.data + b.extent.parity)
               /\ next_block_index(b.extent) \in Nat
               /\ next_block' = next_block_index(b.extent)
               /\ Flushes => /\ payload_objects' = Append(payload_objects, b)
                             /\ emitted' = emitted \o block_records(envelope.index,
                                                        envelope.plaintext, b.extent)
                             /\ envelope' = EmptyEnvelope(envelope.index + 1)
                             /\ UNCHANGED <<pc, reading, frames, contents>>
  <1>1. envelope.plaintext # <<>> /\ pc \in {"append", "finish"}
    BY DEF Flushes, FlushForAppend, FinalFlush, Flush, SinkFails
  <1>2. /\ envelope \in Envelopes /\ payload_object_can_fit(Options, envelope.len)
        /\ next_block \in Nat
    BY <1>1 DEF SinglePassInv, PackedSoFar, TypeOK
  <1> DEFINE b == payload_object(Options, next_block, envelope)
  <1>3. /\ b \in PayloadObjects /\ b.extent \in Extents /\ b.extent.first = next_block
        /\ b.extent.data + b.extent.parity \in 1 .. Options.max_shards
        /\ next_block_index(b.extent) = next_block + (b.extent.data + b.extent.parity)
        /\ next_block_index(b.extent) \in Nat
    BY <1>2, OptionsAssumption, PlannedObject
  <1>4. /\ next_block' = next_block_index(b.extent)
        /\ Flushes => /\ payload_objects' = Append(payload_objects, b)
                      /\ emitted' = emitted \o block_records(envelope.index,
                                                 envelope.plaintext, b.extent)
                      /\ envelope' = EmptyEnvelope(envelope.index + 1)
                      /\ UNCHANGED <<pc, reading, frames, contents>>
    BY DEF Flushes, FlushForAppend, FinalFlush, Flush, SinkFails
  <1> HIDE DEF b
  <1> QED  BY <1>1, <1>3, <1>4 DEF b

\* The index and the envelope being filled stay together.
LEMMA PackedStep ==
    ASSUME SinglePassInv, [Next]_vars
    PROVE  PackedSoFar(Options, frames', payload_objects', envelope')
  <1>0. PackedSoFar(Options, frames, payload_objects, envelope) /\ next_block \in Nat
    BY DEF SinglePassInv, TypeOK
  <1>1. CASE AppendFrame
    <2>1. PICK f \in PayloadFrameRecords :
             /\ frames' = Append(frames, f)
             /\ GoesTo(frames, envelope, f)
             /\ payload_object_can_fit(Options, f.len)
             /\ ~payload_envelope_needs_flush(Options, envelope, f.len)
             /\ envelope' = extend_envelope(envelope, Len(frames), f.len)
      BY <1>1, Packs
    <2>2. UNCHANGED payload_objects
      BY <1>1 DEF AppendFrame
    <2> QED  BY <1>0, <2>1, <2>2, PackingKeeps
  <1>2. CASE Flushes
    <2> DEFINE b == payload_object(Options, next_block, envelope)
    <2>1. /\ envelope.plaintext # <<>> /\ payload_objects' = Append(payload_objects, b)
          /\ envelope' = EmptyEnvelope(envelope.index + 1) /\ frames' = frames
      BY <1>2, FlushPlans
    <2> QED  BY <1>0, <2>1, OptionsAssumption, SealingKeeps
  <1>3. CASE UNCHANGED <<frames, payload_objects, envelope>>
    BY <1>0, <1>3
  <1>4. SinkFails => UNCHANGED <<frames, payload_objects, envelope>>
    BY DEF SinkFails
  <1> QED  BY <1>1, <1>2, <1>3, <1>4, Effects

\* The size of a chunk that is read.
LEMMA ChunkSize ==
    ASSUME TypeOK, ReadingInPlace, ReadChunk
    PROVE  \E size \in Nat :
             /\ input.offset + size <= input.group
             /\ chunk' = [from |-> input.start + taken, size |-> size, len |-> size,
                          frame_len |-> 0]
             /\ taken' = taken + size
  <1>1. Options.chunk_size \in Nat
    BY OptionsAssumption DEF ValidOptions, ValidRequest, OptionFields
  <1>2. input.offset \in Nat /\ input.group \in Nat /\ input.offset < input.group
    BY DEF TypeOK, ReadChunk
  <1> DEFINE remaining == input.group - input.offset
             size == IF remaining < Options.chunk_size THEN remaining ELSE Options.chunk_size
  <1>3. /\ chunk' = [from |-> input.start + taken, size |-> size, len |-> size,
                     frame_len |-> 0]
        /\ taken' = taken + size
    BY DEF ReadChunk
  <1>4. size \in Nat /\ input.offset + size <= input.group
    BY <1>1, <1>2
  <1> HIDE DEF size
  <1> QED  BY <1>3, <1>4

\* Every step keeps every variable in its type.
LEMMA TypeStep ==
    ASSUME SinglePassInv, [Next]_vars
    PROVE  TypeOK'
  <1>0. /\ TypeOK /\ ReadingInPlace /\ PackedSoFar(Options, frames, payload_objects, envelope)
        /\ input.start \in Nat /\ input.offset \in Nat /\ input.group \in Nat
        /\ chunk.len \in Nat /\ chunk.size \in Nat /\ chunk.from \in Int
        /\ chunk.frame_len \in Nat
    BY DEF SinglePassInv, TypeOK
  <1>1. CASE BeginMember
    <2>1. PICK size \in GroupSizes :
            /\ input' = [start |-> tar_total_size, group |-> size, offset |-> 0]
            /\ tar_members' = Append(tar_members, [start |-> tar_total_size, group |-> size])
      BY <1>1 DEF BeginMember
    <2>2. size \in Nat /\ tar_total_size \in Nat /\ tar_members \in Seq(TarMembers)
      BY <1>0, InputAssumption DEF TypeOK
    <2>3. [start |-> tar_total_size, group |-> size] \in TarMembers
      BY <2>2 DEF TarMembers
    <2>4. tar_members' \in Seq(TarMembers)
      BY <2>1, <2>2, <2>3, AppendProperties
    <2>5. input' \in [start : Nat, group : Nat, offset : Nat]
      BY <2>1, <2>2
    <2> QED  BY <1>0, <1>1, <2>4, <2>5 DEF TypeOK, BeginMember
  <1>2. CASE ReadChunk
    <2>1. PICK size \in Nat :
             /\ chunk' = [from |-> input.start + taken, size |-> size, len |-> size,
                          frame_len |-> 0]
             /\ taken' = taken + size
      BY <1>0, <1>2, ChunkSize
    <2>2. taken \in Int
      BY <1>0 DEF TypeOK
    <2>3. input.start + taken \in Int /\ taken' \in Int
      BY <1>0, <2>1, <2>2
    <2>4. chunk' \in [from : Int, size : Nat, len : Nat, frame_len : Nat]
      BY <2>1, <2>3
    <2> QED  BY <1>0, <1>2, <2>3, <2>4 DEF TypeOK, ReadChunk
  <1>3. CASE CompressFits
    <2>1. PICK len \in FrameLens : chunk' = [chunk EXCEPT !.frame_len = len]
      BY <1>3 DEF CompressFits
    <2>2. len \in Nat
      BY InputAssumption
    <2>3. chunk' \in [from : Int, size : Nat, len : Nat, frame_len : Nat]
      <3>1. chunk \in [from : Int, size : Nat, len : Nat, frame_len : Nat]
        BY <1>0 DEF TypeOK
      <3> QED  BY <2>1, <2>2, <3>1
    <2>4. taken' \in Int
      <3>1. taken \in Int /\ taken' = taken - (chunk.size - chunk.len)
        BY <1>0, <1>3 DEF TypeOK, CompressFits
      <3> QED  BY <1>0, <3>1
    <2> QED  BY <1>0, <1>3, <2>3, <2>4 DEF TypeOK, CompressFits
  <1>4. CASE CompressTooLarge
    <2>1. chunk' \in [from : Int, size : Nat, len : Nat, frame_len : Nat]
      <3>1. chunk \in [from : Int, size : Nat, len : Nat, frame_len : Nat]
        BY <1>0 DEF TypeOK
      <3>2. chunk' = [chunk EXCEPT !.len = chunk.len \div 2]
        BY <1>4 DEF CompressTooLarge
      <3>3. chunk.len \div 2 \in Nat
        BY <1>0
      <3> QED  BY <3>1, <3>2, <3>3
    <2> QED  BY <1>0, <1>4, <2>1 DEF TypeOK, CompressTooLarge
  <1>5. CASE AppendFrame
    <2>1. input' \in [start : Nat, group : Nat, offset : Nat]
      <3>1. input \in [start : Nat, group : Nat, offset : Nat]
        BY <1>0 DEF TypeOK
      <3>2. input' = [input EXCEPT !.offset = input.offset + chunk.len]
        BY <1>5 DEF AppendFrame
      <3>3. input.offset + chunk.len \in Nat
        BY <1>0
      <3> QED  BY <3>1, <3>2, <3>3
    <2>2. contents' \in Seq(Spans)
      <3>1. contents \in Seq(Spans)
            /\ contents' = Append(contents, [from |-> chunk.from, size |-> chunk.len])
        BY <1>0, <1>5 DEF TypeOK, AppendFrame
      <3>2. [from |-> chunk.from, size |-> chunk.len] \in Spans
        BY <1>0 DEF Spans
      <3> QED  BY <3>1, <3>2, AppendProperties
    <2>3. tar_total_size' \in Nat /\ NoChunk \in [from : Int, size : Nat, len : Nat, frame_len : Nat]
      <3>1. tar_total_size \in Nat /\ tar_total_size' = tar_total_size + chunk.len
        BY <1>0, <1>5 DEF TypeOK, AppendFrame
      <3> QED  BY <1>0, <3>1 DEF NoChunk
    <2> QED  BY <1>0, <1>5, <2>1, <2>2, <2>3 DEF TypeOK, AppendFrame
  <1>6. CASE Flushes \/ SinkFails
    <2> DEFINE b == payload_object(Options, next_block, envelope)
               recs == block_records(envelope.index, envelope.plaintext, b.extent)
    <2>1. /\ b.extent \in Extents /\ next_block' \in Nat
          /\ Flushes => emitted' = emitted \o recs
      BY <1>6, FlushPlans
    <2>2. envelope.index \in Nat /\ envelope.plaintext \in Seq(Nat)
      BY <1>0, IndexTypes
    <2> HIDE DEF b
    <2>3. recs \in Seq(BlockRecords) /\ emitted \in Seq(BlockRecords)
      BY <1>0, <2>1, <2>2, RecordsOf DEF TypeOK
    <2>4. SinkFails => \E n \in 0 .. Len(recs) - 1 : emitted' = emitted \o SubSeq(recs, 1, n)
      BY DEF SinkFails, b
    <2> HIDE DEF recs
    <2>5. emitted' \in Seq(BlockRecords)
      <3>1. CASE Flushes
        BY <2>1, <2>3, <3>1, ConcatProperties
      <3>2. CASE SinkFails
        <4>1. PICK n \in 0 .. Len(recs) - 1 : emitted' = emitted \o SubSeq(recs, 1, n)
          BY <2>4, <3>2
        <4>2. Len(recs) \in Nat /\ n \in Nat /\ n <= Len(recs)
          BY <2>3, LenProperties
        <4>3. \A i \in 1 .. n : recs[i] \in BlockRecords
          <5>1. \A i \in 1 .. n : i \in 1 .. Len(recs)
            BY <4>2
          <5> QED  BY <2>3, <5>1, ElementOfSeq
        <4>4. SubSeq(recs, 1, n) \in Seq(BlockRecords)
          BY <2>3, <4>2, <4>3, SubSeqProperties
        <4> QED  BY <2>3, <4>1, <4>4, ConcatProperties
      <3> QED  BY <1>6, <3>1, <3>2
    <2>6. /\ pc' \in {"append", "finish", "err"}
          /\ UNCHANGED <<reading, contents>>
      BY <1>6 DEF Flushes, FlushForAppend, FinalFlush, Flush, SinkFails
    <2> QED  BY <1>0, <2>1, <2>5, <2>6 DEF TypeOK
  <1>7. CASE EndMembers \/ InputFails \/ MemberDone \/ SingleByteTooLarge \/ Finish
             \/ Finished \/ UNCHANGED vars
    BY <1>0, <1>7 DEF TypeOK, EndMembers, InputFails, MemberDone, SingleByteTooLarge,
                      Finish, Finished
  <1> QED  BY <1>1, <1>2, <1>3, <1>4, <1>5, <1>6, <1>7 DEF Next, Flushes

\* Reading stays in place.
LEMMA ReadingStep ==
    ASSUME SinglePassInv, [Next]_vars
    PROVE  ReadingInPlace'
  <1>0. /\ TypeOK /\ ReadingInPlace
        /\ input.start \in Nat /\ input.offset \in Nat /\ input.group \in Nat
        /\ input \in [start : Nat, group : Nat, offset : Nat]
        /\ chunk.len \in Nat /\ chunk.size \in Nat /\ chunk.from \in Int
        /\ chunk \in [from : Int, size : Nat, len : Nat, frame_len : Nat]
        /\ taken \in Int /\ tar_total_size \in Nat
    BY DEF SinglePassInv, TypeOK
  <1>1. CASE BeginMember
    <2>1. PICK size \in GroupSizes :
            /\ input' = [start |-> tar_total_size, group |-> size, offset |-> 0]
            /\ tar_members' = Append(tar_members, [start |-> tar_total_size, group |-> size])
      BY <1>1 DEF BeginMember
    <2>2. size \in Nat /\ size > 0 /\ tar_members \in Seq(TarMembers)
      BY <1>0, InputAssumption DEF TypeOK
    <2> DEFINE m == [start |-> tar_total_size, group |-> size]
    <2>3. m \in TarMembers
      BY <1>0, <2>2 DEF TarMembers
    <2>4. input'.start = tar_total_size /\ input'.group = size /\ input'.offset = 0
      BY <2>1
    <2>5. m = [start |-> input'.start, group |-> input'.group]
      BY <2>4
    <2> HIDE DEF m
    <2>6. tar_members' # <<>> /\ tar_members'[Len(tar_members')] = m
      BY <2>1, <2>2, <2>3, AppendedTo DEF m
    <2>7. pc' = "read" /\ taken' = 0 /\ tar_total_size' = tar_total_size
      BY <1>1 DEF BeginMember
    <2> QED  BY <1>0, <2>2, <2>4, <2>5, <2>6, <2>7 DEF ReadingInPlace
  <1>2. CASE ReadChunk
    <2>1. PICK size \in Nat :
             /\ input.offset + size <= input.group
             /\ chunk' = [from |-> input.start + taken, size |-> size, len |-> size,
                          frame_len |-> 0]
             /\ taken' = taken + size
      BY <1>0, <1>2, ChunkSize
    <2>2. /\ chunk'.from = input.start + taken /\ chunk'.size = size /\ chunk'.len = size
      BY <2>1
    <2>3. /\ pc = "read" /\ pc' = "compress" /\ taken = input.offset /\ tar_members # <<>>
          /\ UNCHANGED <<input, tar_members, tar_total_size>>
      BY <1>0, <1>2 DEF ReadChunk, ReadingInPlace
    <2>4. size <= size
      OBVIOUS
    <2> QED  BY <1>0, <2>1, <2>2, <2>3, <2>4 DEF ReadingInPlace
  <1>3. CASE CompressFits
    <2>1. PICK len \in FrameLens : /\ payload_object_can_fit(Options, len)
                                   /\ chunk' = [chunk EXCEPT !.frame_len = len]
      BY <1>3 DEF CompressFits
    <2>2. /\ chunk'.from = chunk.from /\ chunk'.size = chunk.size /\ chunk'.len = chunk.len
          /\ chunk'.frame_len = len
      BY <1>0, <2>1
    <2>3. /\ pc = "compress" /\ pc' = "append" /\ taken' = taken - (chunk.size - chunk.len)
          /\ UNCHANGED <<input, tar_members, tar_total_size>>
      BY <1>3 DEF CompressFits
    <2>4. taken' = input.offset + chunk.len
      <3>1. taken = input.offset + chunk.size
        BY <1>0, <2>3 DEF ReadingInPlace
      <3> QED  BY <1>0, <2>3, <3>1
    <2> QED  BY <1>0, <2>1, <2>2, <2>3, <2>4 DEF ReadingInPlace
  <1>4. CASE CompressTooLarge
    <2>1. chunk' = [chunk EXCEPT !.len = chunk.len \div 2]
      BY <1>4 DEF CompressTooLarge
    <2>2. /\ chunk'.from = chunk.from /\ chunk'.size = chunk.size
          /\ chunk'.len = chunk.len \div 2
      BY <1>0, <2>1
    <2>3. chunk.len \div 2 <= chunk.len /\ chunk.len \div 2 \in Nat
      BY <1>0
    <2>4. /\ pc = "compress" /\ pc' = "compress"
          /\ UNCHANGED <<input, taken, tar_members, tar_total_size>>
      BY <1>4 DEF CompressTooLarge
    <2>5. chunk.len <= chunk.size
      BY <1>0, <2>4 DEF ReadingInPlace
    <2>6. chunk'.len <= chunk'.size
      BY <1>0, <2>2, <2>3, <2>5
    <2> QED  BY <1>0, <2>2, <2>4, <2>6 DEF ReadingInPlace
  <1>5. CASE AppendFrame
    <2>1. /\ pc = "append" /\ pc' = "read"
          /\ input' = [input EXCEPT !.offset = input.offset + chunk.len]
          /\ tar_total_size' = tar_total_size + chunk.len
          /\ UNCHANGED <<taken, tar_members>>
      BY <1>5 DEF AppendFrame
    <2>2. /\ input'.start = input.start /\ input'.group = input.group
          /\ input'.offset = input.offset + chunk.len
      BY <1>0, <2>1
    <2>3. /\ taken = input.offset + chunk.len /\ chunk.len <= chunk.size
          /\ input.offset + chunk.size <= input.group
          /\ tar_total_size = input.start + input.offset
          /\ tar_members # <<>>
      BY <1>0, <2>1 DEF ReadingInPlace
    <2>4. /\ tar_total_size' = input'.start + input'.offset
          /\ input'.offset <= input'.group
      BY <1>0, <2>1, <2>2, <2>3, SMTT(40)
    <2> QED  BY <1>0, <2>1, <2>2, <2>3, <2>4 DEF ReadingInPlace
  <1>6. CASE Flushes \/ SinkFails
    <2>1. /\ pc \in {"append", "finish"} /\ (pc' = pc \/ pc' = "err") /\ UNCHANGED reading
      BY <1>6 DEF Flushes, FlushForAppend, FinalFlush, Flush, SinkFails
    <2> QED  BY <1>0, <2>1 DEF ReadingInPlace
  <1>7. CASE EndMembers \/ InputFails \/ MemberDone \/ SingleByteTooLarge \/ Finish
             \/ Finished \/ UNCHANGED vars
    BY <1>0, <1>7 DEF ReadingInPlace, EndMembers, InputFails, MemberDone, SingleByteTooLarge,
                      Finish, Finished
  <1> QED  BY <1>1, <1>2, <1>3, <1>4, <1>5, <1>6, <1>7 DEF Next, Flushes

\* A frame stays in its member when another member begins.
LEMMA MembersStay ==
    ASSUME SinglePassInv, [Next]_vars, NEW f \in PayloadFrameRecords,
           InMember(tar_members, f)
    PROVE  InMember(tar_members', f)
  <1>1. tar_members \in Seq(TarMembers) /\ tar_total_size \in Nat
    BY DEF SinglePassInv, TypeOK
  <1>2. CASE BeginMember
    <2>1. PICK size \in GroupSizes :
             tar_members' = Append(tar_members, [start |-> tar_total_size, group |-> size])
      BY <1>2 DEF BeginMember
    <2>2. [start |-> tar_total_size, group |-> size] \in TarMembers
      BY <1>1, InputAssumption DEF TarMembers
    <2>3. /\ Len(tar_members) \in Nat /\ Len(tar_members') = Len(tar_members) + 1
          /\ \A i \in 1 .. Len(tar_members) : tar_members'[i] = tar_members[i]
      BY <1>1, <2>1, <2>2, AppendedTo
    <2>4. f.member \in Nat /\ f.member < Len(tar_members)
      BY DEF PayloadFrameRecords, InMember
    <2>5. f.member + 1 \in 1 .. Len(tar_members) /\ f.member < Len(tar_members')
      BY <2>3, <2>4
    <2>6. tar_members'[f.member + 1] = tar_members[f.member + 1]
      BY <2>3, <2>5
    <2> QED  BY <2>5, <2>6 DEF InMember
  <1>3. BeginMember \/ UNCHANGED tar_members
    BY DEF Next, EndMembers, ReadChunk, InputFails, MemberDone, CompressFits,
           CompressTooLarge, SingleByteTooLarge, AppendFrame, FlushForAppend, FinalFlush,
           Flush, SinkFails, Finish, Finished
  <1> QED  BY <1>2, <1>3

\* Frames stay in place, and hold the bytes of their place.
LEMMA FramesStep ==
    ASSUME SinglePassInv, [Next]_vars
    PROVE  FramesInPlace'
  <1>0. /\ TypeOK /\ ReadingInPlace /\ FramesInPlace
        /\ frames \in Seq(PayloadFrameRecords) /\ Len(frames) \in Nat
        /\ contents \in Seq(Spans)
        /\ chunk.from \in Int /\ chunk.len \in Nat
    BY IndexTypes DEF SinglePassInv, TypeOK
  <1>1. \A i \in 1 .. Len(frames) : InMember(tar_members', frames[i])
    <2> TAKE i \in 1 .. Len(frames)
    <2>1. frames[i] \in PayloadFrameRecords
      BY <1>0, ElementOfSeq
    <2> QED  BY <1>0, <2>1, MembersStay DEF FramesInPlace
  <1>2. CASE AppendFrame
    <2>1. PICK f \in PayloadFrameRecords :
             /\ frames' = Append(frames, f)
             /\ f.size = chunk.len /\ f.tar_offset = input.start + input.offset
             /\ InMember(tar_members, f)
      BY <1>2, Packs
    <2> DEFINE c == [from |-> chunk.from, size |-> chunk.len]
    <2>2. /\ contents' = Append(contents, c) /\ tar_total_size' = tar_total_size + chunk.len
          /\ UNCHANGED tar_members /\ pc = "append"
      BY <1>2 DEF AppendFrame
    <2>3. c \in Spans /\ c.from = chunk.from /\ c.size = chunk.len
      BY <1>0 DEF Spans
    <2> HIDE DEF c
    <2>4. /\ Len(frames') = Len(frames) + 1
          /\ \A i \in 1 .. Len(frames) : frames'[i] = frames[i]
          /\ frames'[Len(frames) + 1] = f
      BY <1>0, <2>1, AppendedTo
    <2>5. /\ Len(contents) = Len(frames)
          /\ Len(contents') = Len(frames) + 1
          /\ \A i \in 1 .. Len(frames) : contents'[i] = contents[i]
          /\ contents'[Len(frames) + 1] = c
      BY <1>0, <2>2, <2>3, AppendedTo DEF FramesInPlace
    <2>6. /\ chunk.from = input.start + input.offset
          /\ tar_total_size = input.start + input.offset
      BY <1>0, <2>2 DEF ReadingInPlace
    <2>7. \A i \in 1 .. Len(frames) + 1 : StartsAt(frames', i) = StartsAt(frames, i)
      <3> TAKE i \in 1 .. Len(frames) + 1
      <3>1. i # 1 => i - 1 \in 1 .. Len(frames)
        BY <1>0
      <3> QED  BY <2>4, <3>1 DEF StartsAt
    <2>8. ASSUME NEW i \in 1 .. Len(frames')
          PROVE  /\ contents'[i].from = frames'[i].tar_offset
                 /\ contents'[i].size = frames'[i].size
                 /\ frames'[i].tar_offset = StartsAt(frames', i)
                 /\ InMember(tar_members', frames'[i])
      <3>1. CASE i \in 1 .. Len(frames)
        <4>1. i \in 1 .. Len(frames) + 1
          BY <1>0, <3>1
        <4> QED  BY <1>0, <1>1, <2>4, <2>5, <2>7, <3>1, <4>1 DEF FramesInPlace
      <3>2. CASE i = Len(frames) + 1
        <4>1. StartsAt(frames', i) = tar_total_size
          BY <1>0, <2>4, <2>7, <3>2 DEF FramesInPlace
        <4> QED  BY <2>1, <2>2, <2>3, <2>4, <2>5, <2>6, <3>2, <4>1
      <3> QED  BY <1>0, <2>4, <3>1, <3>2
    <2>9. StartsAt(frames', Len(frames') + 1) = tar_total_size'
      <3>1. Len(frames') + 1 # 1 /\ (Len(frames') + 1) - 1 = Len(frames) + 1
        BY <1>0, <2>4
      <3> QED  BY <2>1, <2>2, <2>4, <2>6, <3>1 DEF StartsAt
    <2> QED  BY <2>4, <2>5, <2>8, <2>9 DEF FramesInPlace
  <1>3. CASE ~AppendFrame
    <2>1. UNCHANGED <<frames, contents, tar_total_size>>
      BY <1>3 DEF Next, BeginMember, EndMembers, ReadChunk, InputFails, MemberDone,
           CompressFits, CompressTooLarge, SingleByteTooLarge, FlushForAppend, FinalFlush,
           Flush, SinkFails, Finish, Finished
    <2> QED  BY <1>0, <1>1, <2>1 DEF FramesInPlace
  <1> QED  BY <1>2, <1>3

\* What was sealed is written, and described by the index.
LEMMA WrittenStep ==
    ASSUME SinglePassInv, [Next]_vars
    PROVE  WrittenOut'
  <1>0. /\ TypeOK /\ WrittenOut /\ emitted \in Seq(BlockRecords) /\ next_block \in Nat
        /\ PackedSoFar(Options, frames, payload_objects, envelope)
        /\ payload_objects \in Seq(PayloadObjects) /\ Len(payload_objects) \in Nat
        /\ envelope.index = Len(payload_objects) /\ envelope.plaintext \in Seq(Nat)
        /\ Len(emitted) \in Nat
    BY IndexTypes, LenProperties DEF SinglePassInv, TypeOK
  <1>1. CASE AppendFrame
    <2>1. PICK f \in PayloadFrameRecords :
             frames' = Append(frames, f) /\ GoesTo(frames, envelope, f)
      BY <1>1, Packs
    <2>2. /\ pc = "append" /\ pc' = "read" /\ UNCHANGED sealing
      BY <1>1 DEF AppendFrame
    <2>3. DescribesBlocks(frames, payload_objects, emitted)
      BY <1>0, <2>2 DEF WrittenOut
    <2>4. DescribesBlocks(frames', payload_objects, emitted)
      BY <1>0, <2>1, <2>3, DescribedAfterPacking
    <2> QED  BY <1>0, <2>2, <2>4 DEF WrittenOut
  <1>2. CASE Flushes
    <2> DEFINE b == payload_object(Options, next_block, envelope)
               recs == block_records(envelope.index, envelope.plaintext, b.extent)
    <2>1. /\ pc \in {"append", "finish"} /\ UNCHANGED <<pc, frames>>
          /\ b \in PayloadObjects /\ b.extent \in Extents
          /\ next_block_index(b.extent) = next_block + (b.extent.data + b.extent.parity)
          /\ next_block' = next_block_index(b.extent)
          /\ payload_objects' = Append(payload_objects, b)
          /\ emitted' = emitted \o recs
      BY <1>2, FlushPlans
    <2> HIDE DEF b
    <2>2. /\ payload_objects' \in Seq(PayloadObjects) /\ payload_objects' # <<>>
          /\ Len(payload_objects') = Len(payload_objects) + 1
          /\ payload_objects'[Len(payload_objects) + 1] = b
      BY <1>0, <2>1, AppendedTo, SMTT(40)
    <2>3. recs \in Seq(BlockRecords) /\ Len(recs) = b.extent.data + b.extent.parity
      BY <1>0, <2>1, RecordsOf, SMTT(40)
    <2>4. /\ SubSeq(recs, 1, Len(recs)) = recs /\ Len(recs) \in 0 .. Len(recs)
      BY <2>3, WholeSequence
    <2>5. DescribesBlocks(frames, payload_objects, emitted) /\ Len(emitted) = next_block
      BY <1>0, <2>1 DEF WrittenOut
    <2>6. DescribesBlocks(frames, payload_objects', emitted)
      BY <1>0, <2>1, <2>5, DescribedAfterSealing
    <2>7. HoldsFramesOf(frames, envelope.plaintext, envelope.index)
      BY <1>0 DEF PackedSoFar, Filling
    <2>8. /\ Len(emitted') = Len(emitted) + Len(recs)
          /\ DescribesBlocks(frames, payload_objects', emitted')
      <3> DEFINE k == envelope.index
                 p == envelope.plaintext
                 os == payload_objects'
      <3>1. k \in Nat /\ k < Len(os) /\ p \in Seq(Nat) /\ os[k + 1].extent = b.extent
        BY <1>0, <2>2
      <3>2. recs = block_records(k, p, os[k + 1].extent)
        BY <3>1
      <3>3. /\ os \in Seq(PayloadObjects) /\ DescribesBlocks(frames, os, emitted)
            /\ HoldsFramesOf(frames, p, k)
        BY <2>2, <2>6, <2>7
      <3> HIDE DEF k, p, os, recs
      <3>4. LET cs == emitted \o SubSeq(recs, 1, Len(recs))
            IN  Len(cs) = Len(emitted) + Len(recs) /\ DescribesBlocks(frames, os, cs)
        BY <1>0, <2>4, <3>1, <3>2, <3>3, DescribedAfterWriting, ZenonT(60)
      <3> QED  BY <2>1, <2>4, <3>4 DEF os
    <2>9. next_block_index(payload_objects'[Len(payload_objects')].extent) = next_block'
      BY <2>1, <2>2
    <2>10. Len(emitted') = next_block'
      BY <2>1, <2>3, <2>5, <2>8
    <2>11. DescribesBlocks(frames', payload_objects', emitted')
      BY <2>1, <2>8
    <2>12. pc' # "ok"
      BY <2>1
    <2> QED  BY <2>2, <2>9, <2>10, <2>11, <2>12 DEF WrittenOut
  <1>3. CASE SinkFails
    <2>1. pc' = "err"
      BY <1>3 DEF SinkFails
    <2> QED  BY <2>1 DEF WrittenOut
  <1>4. CASE UNCHANGED <<packing, sealing>>
    <2>1. pc' = "ok" => envelope.plaintext = <<>>
      BY <1>0, <1>4 DEF WrittenOut, Next, BeginMember, EndMembers, ReadChunk, InputFails,
           MemberDone, CompressFits, CompressTooLarge, SingleByteTooLarge, AppendFrame,
           FlushForAppend, FinalFlush, Flush, SinkFails, Finish, Finished
    <2>2. pc = "err" => pc' = "err"
      BY DEF Next, BeginMember, EndMembers, ReadChunk, InputFails,
           MemberDone, CompressFits, CompressTooLarge, SingleByteTooLarge, AppendFrame,
           FlushForAppend, FinalFlush, Flush, SinkFails, Finish, Finished
    <2> QED  BY <1>0, <1>4, <2>1, <2>2 DEF WrittenOut
  <1> QED  BY <1>1, <1>2, <1>3, <1>4, Effects

LEMMA InitInv == Init => SinglePassInv
  <1> SUFFICES ASSUME Init
               PROVE  SinglePassInv
    OBVIOUS
  <1>1. TypeOK
    BY DEF Init, TypeOK, NoInput, NoChunk
  <1>2. ReadingInPlace
    BY DEF Init, ReadingInPlace, NoInput
  <1>3. FramesInPlace
    BY DEF Init, FramesInPlace, StartsAt
  <1>4. PackedSoFar(Options, frames, payload_objects, envelope)
    <2>1. /\ frames = <<>> /\ payload_objects = <<>> /\ envelope.index = 0
          /\ envelope.plaintext = <<>> /\ envelope.len = 0 /\ envelope \in Envelopes
      BY DEF Init, EmptyEnvelope, Envelopes
    <2>2. frames_in(frames, envelope.index) = {}
      BY <2>1 DEF frames_in
    <2>3. HoldsFramesOf(frames, envelope.plaintext, envelope.index)
      <3>1. {frames[i].frame : i \in frames_in(frames, envelope.index)} = {}
        BY <2>2
      <3>2. {envelope.plaintext[i] : i \in DOMAIN envelope.plaintext} = {}
        BY <2>1
      <3>3. \A i \in 2 .. Len(envelope.plaintext) :
               envelope.plaintext[i] = envelope.plaintext[i - 1] + 1
        BY <2>1
      <3> QED  BY <3>1, <3>2, <3>3 DEF HoldsFramesOf
    <2>4. Filling(frames, envelope)
      BY <2>1, <2>3 DEF Filling
    <2>5. TilesEnvelopes(frames, payload_objects)
      BY <2>1 DEF TilesEnvelopes
    <2> QED  BY <2>1, <2>4, <2>5 DEF PackedSoFar
  <1>5. WrittenOut
    BY DEF Init, WrittenOut, DescribesBlocks
  <1> QED  BY <1>1, <1>2, <1>3, <1>4, <1>5 DEF SinglePassInv

-----------------------------------------------------------------------------
(***************************************************************************)
(* Theorems                                                                *)
(***************************************************************************)

\* The inductive invariant of the single-pass writer.
THEOREM SinglePassAlways == Spec => []SinglePassInv
  <1>1. SinglePassInv /\ [Next]_vars => SinglePassInv'
    <2> SUFFICES ASSUME SinglePassInv, [Next]_vars
                 PROVE  SinglePassInv'
      OBVIOUS
    <2>1. TypeOK' /\ ReadingInPlace' /\ FramesInPlace' /\ WrittenOut'
      BY TypeStep, ReadingStep, FramesStep, WrittenStep
    <2>2. PackedSoFar(Options, frames, payload_objects, envelope)'
      BY PackedStep
    <2> QED  BY <2>1, <2>2 DEF SinglePassInv
  <1> QED  BY <1>1, InitInv, PTL DEF Spec

\* A frame holds the bytes its index entry places in the tar stream, however
\* often its chunk was halved and its rest pushed back; the frames tile the
\* stream; and every envelope can be sealed.
THEOREM BytesAlwaysHeld == Spec => []FramesHoldTheirBytes
  <1>1. SinglePassInv => FramesHoldTheirBytes
    <2> SUFFICES ASSUME SinglePassInv
                 PROVE  FramesHoldTheirBytes
      OBVIOUS
    <2>1. DOMAIN frames = 1 .. Len(frames)
      BY IndexTypes DEF SinglePassInv
    <2>2. \A i \in 1 .. Len(frames) : /\ contents[i].from = frames[i].tar_offset
                                      /\ contents[i].size = frames[i].size
                                      /\ frames[i].tar_offset = StartsAt(frames, i)
                                      /\ InMember(tar_members, frames[i])
                                      /\ frames[i].frame = i - 1
      BY DEF SinglePassInv, FramesInPlace, PackedSoFar
    <2>3. TilesStream(frames, tar_members)
      BY <2>1, <2>2 DEF TilesStream, InMember, StartsAt
    <2>4. /\ envelope.plaintext # <<>> => payload_object_can_fit(Options, envelope.len)
          /\ pc = "append" => payload_object_can_fit(Options, chunk.frame_len)
      BY DEF SinglePassInv, PackedSoFar, ReadingInPlace
    <2> QED  BY <2>1, <2>2, <2>3, <2>4 DEF FramesHoldTheirBytes
  <1> QED  BY <1>1, SinglePassAlways, PTL

\* A success of the single-pass writer is a complete payload with an index that
\* describes every block of it.
THEOREM SuccessAlwaysComplete == Spec => []SuccessIsComplete
  <1>1. SinglePassInv => SuccessIsComplete
    <2> SUFFICES ASSUME SinglePassInv, pc = "ok"
                 PROVE  SuccessIsComplete
      BY DEF SuccessIsComplete
    <2>1. /\ TypeOK /\ ReadingInPlace /\ FramesInPlace /\ WrittenOut
          /\ PackedSoFar(Options, frames, payload_objects, envelope)
      BY DEF SinglePassInv
    <2>2. /\ Len(frames) \in Nat /\ DOMAIN frames = 1 .. Len(frames)
          /\ envelope.index = Len(payload_objects)
      BY <2>1, IndexTypes
    <2>3. ASSUME tar_members # <<>>
          PROVE  LET m == tar_members[Len(tar_members)]
                     f == frames[Len(frames)]
                 IN  f.tar_offset + f.size = m.start + m.group
      <3>1. /\ input.start \in Nat /\ input.group \in Nat
            /\ tar_members[Len(tar_members)] = [start |-> input.start, group |-> input.group]
            /\ input.group > 0 /\ tar_total_size = input.start + input.group
        BY <2>1, <2>3 DEF TypeOK, ReadingInPlace
      <3>2. StartsAt(frames, Len(frames) + 1) = tar_total_size
        BY <2>1 DEF FramesInPlace
      <3>3. Len(frames) # 0
        <4>1. tar_total_size # 0
          BY <3>1
        <4> QED  BY <3>2, <4>1 DEF StartsAt
      <3>4. Len(frames) + 1 # 1 /\ (Len(frames) + 1) - 1 = Len(frames)
        BY <2>2, <3>3
      <3> QED  BY <3>1, <3>2, <3>4 DEF StartsAt
    <2>4. \A i \in DOMAIN frames : frames[i].envelope < Len(payload_objects)
      BY <2>1, <2>2 DEF WrittenOut, PackedSoFar, Filling
    <2> QED  BY <2>1, <2>3, <2>4 DEF SuccessIsComplete, WrittenOut, PackedSoFar
  <1> QED  BY <1>1, SinglePassAlways, PTL

-----------------------------------------------------------------------------
(***************************************************************************)
(* Refinement                                                              *)
(***************************************************************************)

\* The stream's status.
status == IF pc = "ok" THEN "ok" ELSE IF pc = "err" THEN "failed" ELSE "open"

\* Everything planned is written, until the writer has failed.
LEMMA StreamObjects ==
    ASSUME SinglePassInv
    PROVE  /\ stream_objects = <<>> <=> payload_objects = <<>>
           /\ Len(stream_objects) = Len(payload_objects)
           /\ DOMAIN stream_objects = 1 .. Len(payload_objects)
           /\ pc # "err" => Stream!planned = next_block /\ Len(emitted) = next_block
  <1>1. /\ payload_objects \in Seq(PayloadObjects) /\ Len(payload_objects) \in Nat
        /\ DOMAIN payload_objects = 1 .. Len(payload_objects)
    BY IndexTypes DEF SinglePassInv
  <1>2. /\ DOMAIN stream_objects = 1 .. Len(payload_objects)
        /\ Len(stream_objects) = Len(payload_objects)
        /\ \A k \in 1 .. Len(payload_objects) :
             /\ stream_objects[k].first = payload_objects[k].extent.first
             /\ stream_objects[k].size
                  = payload_objects[k].extent.data + payload_objects[k].extent.parity
    BY <1>1 DEF stream_objects
  <1>3. stream_objects = <<>> <=> payload_objects = <<>>
    BY <1>1 DEF stream_objects
  <1>4. ASSUME pc # "err"
        PROVE  Stream!planned = next_block
    <2>1. CASE payload_objects = <<>>
      BY <1>3, <1>4, <2>1 DEF SinglePassInv, WrittenOut, Stream!planned
    <2>2. CASE payload_objects # <<>>
      <3> DEFINE n == Len(payload_objects)
                 x == payload_objects[n].extent
      <3>1. n \in 1 .. Len(payload_objects)
        BY <1>1, <2>2, EmptySeq
      <3>2. x \in Extents
        <4>1. payload_objects[n] \in PayloadObjects
          BY <1>1, <3>1, ElementOfSeq
        <4> QED  BY <4>1 DEF PayloadObjects
      <3>3. next_block_index(x) = next_block
        BY <1>4, <2>2 DEF SinglePassInv, WrittenOut
      <3>4. /\ stream_objects[Len(stream_objects)].first = x.first
            /\ stream_objects[Len(stream_objects)].size = x.data + x.parity
        BY <1>2, <3>1
      <3> HIDE DEF x
      <3>5. x.first + (x.data + x.parity) = next_block
        BY <3>2, <3>3 DEF next_block_index, Extents
      <3> QED  BY <1>3, <2>2, <3>4, <3>5 DEF Stream!planned
    <2> QED  BY <2>1, <2>2
  <1> QED  BY <1>2, <1>3, <1>4 DEF SinglePassInv, WrittenOut

\* A flush lays out one more object of the stream and writes it.
LEMMA FlushPlansAndWrites ==
    ASSUME SinglePassInv, SinglePassInv', Flushes
    PROVE  Stream!PlanAndWrite
  <1> DEFINE b == payload_object(Options, next_block, envelope)
             x == b.extent
             n == x.data + x.parity
             y == [first |-> next_block, size |-> n]
  <1>0. /\ payload_objects \in Seq(PayloadObjects) /\ Len(payload_objects) \in Nat
        /\ DOMAIN payload_objects = 1 .. Len(payload_objects)
    BY IndexTypes DEF SinglePassInv
  <1>1. /\ pc \in {"append", "finish"} /\ UNCHANGED pc
        /\ b \in PayloadObjects /\ x.first = next_block
        /\ n \in 1 .. Options.max_shards
        /\ next_block' = next_block + n
        /\ payload_objects' = Append(payload_objects, b)
    BY FlushPlans
  <1>2. /\ Stream!planned = next_block /\ Len(emitted) = next_block
        /\ Len(stream_objects) = Len(payload_objects)
    BY <1>1, StreamObjects
  <1>3. Len(emitted') = next_block'
    BY <1>1 DEF SinglePassInv, WrittenOut
  <1>4. stream_objects' = Append(stream_objects, y)
    <2> DEFINE f(k) == [first |-> payload_objects'[k].extent.first,
                        size |-> payload_objects'[k].extent.data
                                   + payload_objects'[k].extent.parity]
    <2>1. /\ DOMAIN payload_objects' = 1 .. Len(payload_objects) + 1
          /\ \A k \in 1 .. Len(payload_objects) : payload_objects'[k] = payload_objects[k]
          /\ payload_objects'[Len(payload_objects) + 1] = b
      <3> HIDE DEF b
      <3> QED  BY <1>0, <1>1, AppendedTo
    <2>2. stream_objects' = [k \in 1 .. Len(payload_objects) + 1 |-> f(k)]
      BY <2>1 DEF stream_objects
    <2>3. f(Len(payload_objects) + 1) = y
      BY <1>1, <2>1
    <2>4. \A k \in 1 .. Len(payload_objects) : f(k) = stream_objects[k]
      BY <1>0, <2>1 DEF stream_objects
    <2>5. Append(stream_objects, y)
            = [k \in 1 .. Len(payload_objects) + 1 |->
                  IF k \in 1 .. Len(payload_objects) THEN stream_objects[k] ELSE y]
      <3> HIDE DEF y
      <3> DEFINE S == {stream_objects[k] : k \in 1 .. Len(payload_objects)} \cup {y}
      <3>1. stream_objects \in Seq(S) /\ y \in S
        BY <1>0 DEF stream_objects
      <3> HIDE DEF S
      <3>2. /\ Append(stream_objects, y) \in Seq(S)
            /\ Len(Append(stream_objects, y)) = Len(payload_objects) + 1
            /\ \A k \in 1 .. Len(payload_objects) : Append(stream_objects, y)[k] = stream_objects[k]
            /\ Append(stream_objects, y)[Len(payload_objects) + 1] = y
        BY <1>2, <3>1, AppendedTo
      <3>3. Append(stream_objects, y)
              = [k \in 1 .. Len(payload_objects) + 1 |-> Append(stream_objects, y)[k]]
        BY <3>2, SeqDef, LenProperties
      <3>4. \A k \in 1 .. Len(payload_objects) + 1 :
              Append(stream_objects, y)[k]
                = IF k \in 1 .. Len(payload_objects) THEN stream_objects[k] ELSE y
        BY <1>0, <3>2
      <3> QED  BY <3>3, <3>4
    <2>6. \A k \in 1 .. Len(payload_objects) + 1 :
            f(k) = IF k \in 1 .. Len(payload_objects) THEN stream_objects[k] ELSE y
      <3> HIDE DEF f, y
      <3> QED  BY <1>0, <2>3, <2>4
    <2> HIDE DEF f, y
    <2> QED  BY <2>2, <2>5, <2>6
  <1>5. status = "open" /\ status' = status
    BY <1>1 DEF status
  <1> HIDE DEF n, b
  <1> QED  BY <1>1, <1>2, <1>3, <1>4, <1>5 DEF Stream!PlanAndWrite, status

\* Every step of the writer is one of the stream, or is not visible in it.
LEMMA StreamStep ==
    ASSUME SinglePassInv, SinglePassInv', [Next]_vars
    PROVE  [Stream!Next]_(Stream!svars)
  <1>1. CASE Flushes
    BY <1>1, FlushPlansAndWrites DEF Stream!Next
  <1>2. CASE SinkFails
    <2> DEFINE b == payload_object(Options, next_block, envelope)
               x == b.extent
               n == x.data + x.parity
               recs == block_records(envelope.index, envelope.plaintext, x)
    <2>1. /\ pc \in {"append", "finish"} /\ x \in Extents /\ n \in 1 .. Options.max_shards
      BY <1>2, FlushPlans
    <2>2. /\ pc' = "err" /\ UNCHANGED payload_objects
          /\ \E k \in 0 .. Len(recs) - 1 : emitted' = emitted \o SubSeq(recs, 1, k)
      BY <1>2 DEF SinkFails
    <2>3. /\ Stream!planned = Len(emitted)
      BY <2>1, StreamObjects
    <2>4. /\ envelope.index \in Nat /\ envelope.plaintext \in Seq(Nat)
          /\ emitted \in Seq(BlockRecords) /\ Len(emitted) \in Nat
      BY IndexTypes, LenProperties DEF SinglePassInv, TypeOK
    <2> HIDE DEF b
    <2>5. recs \in Seq(BlockRecords) /\ Len(recs) = n
      BY <2>1, <2>4, RecordsOf
    <2> HIDE DEF recs, n
    <2>6. PICK k \in 0 .. Len(recs) - 1 : emitted' = emitted \o SubSeq(recs, 1, k)
      BY <2>2
    <2>7. k \in 0 .. n /\ k \in Nat /\ k <= Len(recs) /\ n \in Nat
      BY <2>1, <2>5
    <2>8. Len(emitted') = Len(emitted) + k
      <3>1. \A i \in 1 .. k : recs[i] \in BlockRecords
        <4>1. \A i \in 1 .. k : i \in 1 .. Len(recs)
          BY <2>5, <2>7
        <4> QED  BY <2>5, <4>1, ElementOfSeq
      <3>2. SubSeq(recs, 1, k) \in Seq(BlockRecords) /\ Len(SubSeq(recs, 1, k)) = k
        BY <2>5, <2>7, <3>1, SubSeqProperties
      <3> QED  BY <2>4, <2>6, <3>2, ConcatProperties
    <2>9. /\ status = "open" /\ status' = "failed" /\ stream_objects' = stream_objects
      BY <2>1, <2>2 DEF status, stream_objects
    <2> QED  BY <2>1, <2>3, <2>7, <2>8, <2>9 DEF Stream!Next, Stream!Fail, status
  <1>3. CASE InputFails \/ SingleByteTooLarge
    <2>1. /\ pc \in {"read", "compress"} /\ pc' = "err" /\ UNCHANGED sealing
      BY <1>3 DEF InputFails, SingleByteTooLarge
    <2>2. /\ status = "open" /\ status' = "failed" /\ stream_objects' = stream_objects
      BY <2>1 DEF status, stream_objects
    <2> QED  BY <2>1, <2>2 DEF Stream!Next, Stream!Fail, status
  <1>4. CASE Finish
    <2>1. /\ pc = "finish" /\ pc' = "ok" /\ UNCHANGED sealing
      BY <1>4 DEF Finish
    <2>2. Stream!planned = Len(emitted)
      BY <2>1, StreamObjects
    <2>3. /\ status = "open" /\ status' = "ok" /\ stream_objects' = stream_objects
      BY <2>1 DEF status, stream_objects
    <2> QED  BY <2>1, <2>2, <2>3 DEF Stream!Next, Stream!Succeed, status
  <1>5. CASE BeginMember \/ EndMembers \/ ReadChunk \/ MemberDone \/ CompressFits
             \/ CompressTooLarge \/ AppendFrame \/ Finished \/ UNCHANGED vars
    <2>1. /\ UNCHANGED sealing
          /\ pc' = pc \/ (pc \notin {"ok", "err"} /\ pc' \notin {"ok", "err"})
      BY <1>5 DEF BeginMember, EndMembers, ReadChunk, MemberDone, CompressFits,
                  CompressTooLarge, AppendFrame, Finished
    <2>2. status' = status /\ stream_objects' = stream_objects /\ Len(emitted') = Len(emitted)
      BY <2>1 DEF status, stream_objects
    <2> QED  BY <2>2 DEF Stream!svars, status
  <1> QED  BY <1>1, <1>2, <1>3, <1>4, <1>5 DEF Next, Flushes

\* The single-pass writer implements the payload stream: an object is laid out
\* and written in one step, and whatever fails, nothing is written after it.
THEOREM ImplementsPayloadStream == Spec => ImplementsStream
  <1>1. Init => Stream!Init
    BY DEF Init, Stream!Init, stream_objects
  <1>2. SinglePassInv /\ SinglePassInv' /\ [Next]_vars => [Stream!Next]_(Stream!svars)
    BY StreamStep
  <1> QED  BY <1>1, <1>2, SinglePassAlways, PTL DEF Spec, ImplementsStream, Stream!Spec
=============================================================================
