------------------------ MODULE ParallelWriterProofs ------------------------
(***************************************************************************)
(* Proofs about the ordered parallel writer, for any number of workers,    *)
(* any channel capacities, any input and any valid options: blocks are     *)
(* written in order, no envelope is encrypted or written twice, none is    *)
(* lost unnoticed, a failure has a cause, the writer implements the        *)
(* sequential payload stream, the frames tile the tar stream and the       *)
(* envelopes, every block was cut from the frames the index gives its      *)
(* envelope, and a success leaves nothing out.                             *)
(*                                                                         *)
(* Frames and envelopes travel through two pipelines of the same shape: a  *)
(* queue of jobs, workers, a channel of results and a buffer of results    *)
(* that came back early.  The job queue is in order, so the numbers out    *)
(* with the workers or on their way back are those between the number that *)
(* is consumed next and the number that is queued first.  A pool is this   *)
(* unordered part, and what a step does to a pool is proved once for both  *)
(* pipelines.  A fault leaves a number in this range that nobody has, so   *)
(* the main thread never sees the range empty and never gets to join.      *)
(*                                                                         *)
(* A chunk keeps its place in the tar stream from the moment it is read to *)
(* the moment it is recorded, whatever workers it passes through.  So what *)
(* the index says is an argument about the set of all places, of recorded  *)
(* frames and of chunks on their way: it only grows, by the chunk just     *)
(* read, at the end of the stream.  Packing takes the chunks in frame      *)
(* order, which turns "chunk k + 1 starts where chunk k ends" into a       *)
(* tiling.                                                                 *)
(***************************************************************************)
EXTENDS ParallelWriter, SequenceTheorems, FiniteSetTheorems, FunctionTheorems, WellFoundedInduction, TLAPS

-----------------------------------------------------------------------------
(***************************************************************************)
(* Planning                                                                *)
(***************************************************************************)

\* The options the arithmetic uses are numbers, and a block is not empty.
LEMMA OptionTypes ==
    /\ Options.block_size \in Nat \ {0}
    /\ Options.tag_len \in Nat
    /\ Options.chunk_size \in Nat \ {0}
  BY OptionsAssumption DEF ValidOptions, ValidRequest, OptionFields

\* compute_parity returns a number of blocks or an error.
LEMMA ParityType ==
    ASSUME NEW o, NEW d
    PROVE  compute_parity(o, d) \in Nat \cup {NoPlan}
  BY DEF compute_parity, tested_guess

\* Rounding down to whole blocks gives a number of blocks.
LEMMA WholeBlocks ==
    ASSUME NEW n \in Nat, NEW d \in Nat \ {0}
    PROVE  n \div d \in Nat
  OBVIOUS

\* An object that fits can be planned: its extent has numbers of blocks, at
\* least one of them a data block.
LEMMA ExtentType ==
    ASSUME NEW first \in Nat, NEW len \in Nat,
           payload_object_can_fit(Options, len)
    PROVE  /\ object_extent(Options, first, len) \in Extents
           /\ object_extent(Options, first, len).first = first
  <1> DEFINE d == data_block_count(Options, len)
  <1>1. d \in Nat
    <2>1. len + Options.tag_len \in Nat
      BY OptionTypes
    <2> QED  BY <2>1, OptionTypes, WholeBlocks DEF data_block_count
  <1>2. compute_parity(Options, d) \in Nat
    BY ParityType DEF payload_object_can_fit
  <1> QED  BY <1>1, <1>2 DEF object_extent, Extents

-----------------------------------------------------------------------------
(***************************************************************************)
(* Types                                                                   *)
(***************************************************************************)

USE DEF vars, returns, ordered, channels, reading, packing, sealing, sink,
        frame_side, envelope_side, Returned, Terminal

\* The records of a sealed envelope are block records.
LEMMA RecordsType ==
    ASSUME NEW e \in EnvelopeJobs
    PROVE  /\ records(e) \in Seq(BlockRecords)
           /\ Len(records(e)) = e.extent.data + e.extent.parity
           /\ \A i \in 1 .. Len(records(e)) : records(e)[i].block = e.extent.first + i - 1
  <1>1. /\ e.extent.first \in Nat /\ e.extent.data \in Nat /\ e.extent.parity \in Nat
        /\ e.index \in Nat /\ e.plaintext \in Seq(Nat)
    BY DEF EnvelopeJobs, Extents
  <1>2. e.extent.data + e.extent.parity \in Nat
    BY <1>1
  <1>3. records(e) \in [1 .. e.extent.data + e.extent.parity -> BlockRecords]
    BY <1>1 DEF records, block_records, BlockRecords
  <1>4. records(e) \in Seq(BlockRecords)
    BY <1>2, <1>3, SeqDef
  <1>5. Len(records(e)) = e.extent.data + e.extent.parity
    BY <1>2, <1>3, <1>4
  <1> QED  BY <1>1, <1>4, <1>5 DEF records, block_records

\* The leaf hashes of an envelope are block indices.
LEMMA LeavesType ==
    ASSUME NEW e \in EnvelopeJobs, NEW n \in Nat
    PROVE  data_leaves(e, n) \in Seq(Nat)
  <1> DEFINE hashed == IF n < e.extent.data THEN n ELSE e.extent.data
  <1>1. e.extent.first \in Nat /\ e.extent.data \in Nat
    BY DEF EnvelopeJobs, Extents
  <1>2. hashed \in Nat
    BY <1>1
  <1>3. [i \in 1 .. hashed |-> e.extent.first + i - 1] \in [1 .. hashed -> Nat]
    BY <1>1
  <1>4. [i \in 1 .. hashed |-> e.extent.first + i - 1] \in Seq(Nat)
    BY <1>2, <1>3, SeqDef
  <1> QED  BY <1>4 DEF data_leaves

\* Sealing an envelope, which fits an object, keeps every type.
LEMMA SealType ==
    ASSUME TypeOK, WriteOrder, NEW return \in {"append", "finish_envelopes"},
           Seal(return)
    PROVE  TypeOK'
  <1> DEFINE object == payload_object(Options, next_block, envelope)
  <1>1. envelope.len \in Nat /\ envelope.index \in Nat /\ envelope.plaintext \in Seq(Nat)
    BY DEF TypeOK
  <1>2. payload_object_can_fit(Options, envelope.len)
    BY DEF Seal, WriteOrder, EnvelopeFits
  <1>3. object_extent(Options, next_block, envelope.len) \in Extents
    BY <1>1, <1>2, ExtentType DEF TypeOK
  <1>4. object \in PayloadObjects /\ object.extent \in Extents
    BY <1>1, <1>3 DEF payload_object, PayloadObjects
  <1>5. next_block' \in Nat
    BY <1>4 DEF Seal, next_block_index, Extents
  <1>6. payload_objects' \in Seq(PayloadObjects)
    BY <1>4 DEF Seal, TypeOK
  <1>7. envelope_job' \in EnvelopeJobs
    BY <1>1, <1>4 DEF Seal, EnvelopeJobs
  <1>8. envelope' \in [index : Nat, plaintext : Seq(Nat), len : Nat]
    BY <1>1 DEF Seal, EmptyEnvelope
  <1> QED  BY <1>5, <1>6, <1>7, <1>8 DEF TypeOK, Seal

\* Every step of the parallel writer keeps every variable in its type.
LEMMA TypeStep ==
    ASSUME TypeOK, WriteOrder, [Next]_vars
    PROVE  TypeOK'
  <1>1. CASE BeginMember
    <2>1. PICK size \in GroupSizes :
            /\ input' = [start |-> tar_total_size, group |-> size, offset |-> 0]
            /\ tar_members' = Append(tar_members, [start |-> tar_total_size, group |-> size])
      BY <1>1 DEF BeginMember
    <2>2. size \in Nat /\ tar_total_size \in Nat
      BY InputAssumption DEF TypeOK
    <2>3. input' \in [start : Nat, group : Nat, offset : Nat]
      BY <2>1, <2>2
    <2>4. tar_members' \in Seq(TarMembers)
      <3>1. tar_members \in Seq(TarMembers)
        BY DEF TypeOK
      <3>2. [start |-> tar_total_size, group |-> size] \in TarMembers
        BY <2>2 DEF TarMembers
      <3> QED  BY <2>1, <3>1, <3>2, AppendProperties
    <2> QED  BY <1>1, <2>3, <2>4 DEF TypeOK, BeginMember
  <1>2. CASE EndMembers
    BY <1>2 DEF TypeOK, EndMembers
  <1>3. CASE ReadChunk
    <2>1. tar_members # <<>>
      BY <1>3 DEF ReadChunk, WriteOrder, NothingBeforeMembers
    <2>2. Len(tar_members) - 1 \in Nat
      BY <2>1 DEF TypeOK
    <2>3. frame_job' \in FrameJobs
      <3>1. /\ next_frame.job \in Nat
            /\ input.start \in Nat /\ input.offset \in Nat /\ input.group \in Nat
        BY DEF TypeOK
      <3>2. input.offset < input.group
        BY <1>3 DEF ReadChunk
      <3>3. input.group - input.offset \in Nat
        BY <3>1, <3>2
      <3>4. \E size \in Nat :
              frame_job' = [frame |-> next_frame.job, member |-> Len(tar_members) - 1,
                            start |-> input.start, offset |-> input.offset,
                            group |-> input.group, size |-> size]
        BY <1>3, <3>3, OptionTypes DEF ReadChunk
      <3> QED  BY <2>2, <3>1, <3>4 DEF FrameJobs
    <2>4. next_frame' \in [job : Nat, result : Nat]
      <3>1. next_frame \in [job : Nat, result : Nat]
        BY DEF TypeOK
      <3>2. next_frame' = [next_frame EXCEPT !.job = @ + 1]
        BY <1>3 DEF ReadChunk
      <3> QED  BY <3>1, <3>2
    <2> QED  BY <1>3, <2>3, <2>4 DEF TypeOK, ReadChunk
  <1>4. CASE ReadFails
    BY <1>4, FlagAssumption DEF TypeOK, ReadFails, Unwind, Fault, FaultKinds
  <1>5. CASE MemberDone
    BY <1>5 DEF TypeOK, MemberDone
  <1>6. CASE SendFrameJob
    <2>1. frame_jobs' \in Seq(FrameJobs)
      <3>1. frame_jobs \in Seq(FrameJobs) /\ frame_job \in FrameJobs
        BY DEF TypeOK
      <3>2. frame_jobs' = Append(frame_jobs, frame_job)
        BY <1>6 DEF SendFrameJob
      <3> QED  BY <3>1, <3>2, AppendProperties
    <2> QED  BY <1>6, <2>1 DEF TypeOK, SendFrameJob
  <1>7. CASE FrameJobsFull
    BY <1>7 DEF TypeOK, FrameJobsFull
  <1>8. CASE ReceiveFrame
    <2>1. /\ Head(frame_results) \in FrameMessages
          /\ Tail(frame_results) \in Seq(FrameMessages)
      BY <1>8, HeadTailProperties DEF ReceiveFrame, TypeOK
    <2> QED  BY <1>8, <2>1 DEF TypeOK, ReceiveFrame, FrameMessages
  <1>9. CASE ReceiveFrameFails
    <2>1. frame_results' \in Seq(FrameMessages)
      <3>1. frame_results \in Seq(FrameMessages)
        BY DEF TypeOK
      <3>2. frame_results # <<>> => Tail(frame_results) \in Seq(FrameMessages)
        BY <3>1, HeadTailProperties
      <3>3. \/ frame_results' = frame_results
            \/ frame_results # <<>> /\ frame_results' = Tail(frame_results)
        BY <1>9 DEF ReceiveFrameFails
      <3> QED  BY <3>1, <3>2, <3>3
    <2> QED  BY <1>9, <2>1 DEF TypeOK, ReceiveFrameFails, Unwind
  <1>10. CASE DrainedFrames
    <2>1. frame_job.size \in Nat
      BY DEF TypeOK, FrameJobs
    <2>2. NoFrameJob \in FrameJobs
      BY DEF NoFrameJob, FrameJobs
    <2>3. input' \in [start : Nat, group : Nat, offset : Nat]
      <3>1. input \in [start : Nat, group : Nat, offset : Nat]
        BY DEF TypeOK
      <3>2. input' = [input EXCEPT !.offset = @ + frame_job.size]
        BY <1>10 DEF DrainedFrames
      <3> QED  BY <2>1, <3>1, <3>2
    <2>4. tar_total_size' \in Nat
      <3>1. tar_total_size \in Nat
        BY DEF TypeOK
      <3>2. tar_total_size' = tar_total_size + frame_job.size
        BY <1>10 DEF DrainedFrames
      <3> QED  BY <2>1, <3>1, <3>2
    <2> QED  BY <1>10, <2>2, <2>3, <2>4 DEF TypeOK, DrainedFrames
  <1>11. CASE AppendFrame
    <2>1. PICK r \in next_results :
            /\ frames' = Append(frames,
                                payload_frame_metadata(Len(frames), envelope, r.job, r.len))
            /\ envelope' = extend_envelope(envelope, r.job.frame, r.len)
            /\ frame_buffer' = frame_buffer \ {r}
      BY <1>11 DEF AppendFrame
    <2>2. r \in FrameResults
      BY DEF next_results, TypeOK
    <2>3. r.job \in FrameJobs /\ r.len \in Nat
      BY <2>2 DEF FrameResults
    <2>4. payload_frame_metadata(Len(frames), envelope, r.job, r.len) \in PayloadFrameRecords
      <3>1. /\ Len(frames) \in Nat
            /\ envelope.index \in Nat /\ envelope.len \in Nat
        BY DEF TypeOK
      <3>2. /\ r.job.frame \in Nat /\ r.job.member \in Nat /\ r.job.start \in Nat
            /\ r.job.offset \in Nat /\ r.job.group \in Nat /\ r.job.size \in Nat
        BY <2>3 DEF FrameJobs
      <3>3. r.job.start + r.job.offset \in Nat
        BY <3>2
      <3>4. /\ (r.job.offset = 0) \in BOOLEAN
            /\ (r.job.offset + r.job.size = r.job.group) \in BOOLEAN
        OBVIOUS
      <3> QED  BY <2>3, <3>1, <3>2, <3>3, <3>4 DEF payload_frame_metadata, PayloadFrameRecords
    <2>5. frames' \in Seq(PayloadFrameRecords)
      BY <2>1, <2>4 DEF TypeOK
    <2>6. envelope' \in [index : Nat, plaintext : Seq(Nat), len : Nat]
      <3>1. r.job.frame \in Nat
        BY <2>3 DEF FrameJobs
      <3>2. Append(envelope.plaintext, r.job.frame) \in Seq(Nat)
        BY <3>1 DEF TypeOK
      <3>3. envelope \in [index : Nat, plaintext : Seq(Nat), len : Nat]
        BY DEF TypeOK
      <3>4. envelope.len + r.len \in Nat
        BY <2>3, <3>3
      <3>5. envelope' = [envelope EXCEPT !.plaintext = Append(envelope.plaintext, r.job.frame),
                                         !.len = envelope.len + r.len]
        BY <2>1 DEF extend_envelope
      <3> QED  BY <3>2, <3>3, <3>4, <3>5
    <2>7. next_frame' \in [job : Nat, result : Nat]
      <3>1. next_frame \in [job : Nat, result : Nat]
        BY DEF TypeOK
      <3>2. next_frame' = [next_frame EXCEPT !.result = @ + 1]
        BY <1>11 DEF AppendFrame
      <3> QED  BY <3>1, <3>2
    <2> QED  BY <1>11, <2>1, <2>5, <2>6, <2>7 DEF TypeOK, AppendFrame
  <1>12. CASE FrameTooLarge
    BY <1>12 DEF TypeOK, FrameTooLarge, Unwind
  <1>13. CASE AppendDone
    BY <1>13 DEF TypeOK, AppendDone
  <1>14. CASE SealForAppend
    BY <1>14, SealType DEF SealForAppend
  <1>15. CASE SendEnvelopeJob
    <2>1. NoEnvelopeJob \in EnvelopeJobs
      BY DEF NoEnvelopeJob, EnvelopeJobs, Extents
    <2>2. envelope_jobs' \in Seq(EnvelopeJobs)
      <3>1. envelope_jobs \in Seq(EnvelopeJobs) /\ envelope_job \in EnvelopeJobs
        BY DEF TypeOK
      <3>2. envelope_jobs' = Append(envelope_jobs, envelope_job)
        BY <1>15 DEF SendEnvelopeJob
      <3> QED  BY <3>1, <3>2, AppendProperties
    <2> QED  BY <1>15, <2>1, <2>2 DEF TypeOK, SendEnvelopeJob
  <1>16. CASE EnvelopeJobsFull
    BY <1>16 DEF TypeOK, EnvelopeJobsFull
  <1>17. CASE ReceiveEnvelope
    <2>1. /\ Head(envelope_results) \in EnvelopeMessages
          /\ Tail(envelope_results) \in Seq(EnvelopeMessages)
      BY <1>17, HeadTailProperties DEF ReceiveEnvelope, TypeOK
    <2> QED  BY <1>17, <2>1 DEF TypeOK, ReceiveEnvelope, EnvelopeMessages
  <1>18. CASE ReceiveEnvelopeFails
    <2>1. envelope_results' \in Seq(EnvelopeMessages)
      <3>1. envelope_results \in Seq(EnvelopeMessages)
        BY DEF TypeOK
      <3>2. envelope_results # <<>> => Tail(envelope_results) \in Seq(EnvelopeMessages)
        BY <3>1, HeadTailProperties
      <3>3. \/ envelope_results' = envelope_results
            \/ envelope_results # <<>> /\ envelope_results' = Tail(envelope_results)
        BY <1>18 DEF ReceiveEnvelopeFails
      <3> QED  BY <3>1, <3>2, <3>3
    <2> QED  BY <1>18, <2>1 DEF TypeOK, ReceiveEnvelopeFails, Unwind
  <1>19. CASE DrainedEnvelopes
    BY <1>19 DEF TypeOK, DrainedEnvelopes
  <1>20. CASE EmitEnvelope
    <2>1. PICK e \in envelope_buffer :
            /\ emitted' = emitted \o records(e)
            /\ leaves' = leaves \o data_leaves(e, Len(records(e)))
            /\ envelope_buffer' = envelope_buffer \ {e}
      BY <1>20 DEF EmitEnvelope, next_sealed
    <2>2. e \in EnvelopeJobs
      BY DEF TypeOK
    <2>3. records(e) \in Seq(BlockRecords)
      BY <2>2, RecordsType
    <2>4. data_leaves(e, Len(records(e))) \in Seq(Nat)
      BY <2>2, <2>3, LeavesType
    <2>5. emitted' \in Seq(BlockRecords) /\ leaves' \in Seq(Nat)
      BY <2>1, <2>3, <2>4, ConcatProperties DEF TypeOK
    <2>6. next_envelope' \in Nat
      BY <1>20 DEF TypeOK, EmitEnvelope
    <2>7. envelope_buffer' \subseteq EnvelopeJobs
      BY <2>1 DEF TypeOK
    <2> QED  BY <1>20, <2>5, <2>6, <2>7 DEF TypeOK, EmitEnvelope
  <1>21. CASE SinkFails
    <2>0. PICK e \in envelope_buffer :
            \E n \in 0 .. Len(records(e)) - 1 :
               /\ emitted' = emitted \o SubSeq(records(e), 1, n)
               /\ leaves' = leaves \o data_leaves(e, n)
               /\ envelope_buffer' = envelope_buffer \ {e}
      BY <1>21 DEF SinkFails, next_sealed
    <2>1. PICK n \in 0 .. Len(records(e)) - 1 :
            /\ emitted' = emitted \o SubSeq(records(e), 1, n)
            /\ leaves' = leaves \o data_leaves(e, n)
            /\ envelope_buffer' = envelope_buffer \ {e}
      BY <2>0
    <2>2. e \in EnvelopeJobs
      BY DEF TypeOK
    <2>3. records(e) \in Seq(BlockRecords)
      BY <2>2, RecordsType
    <2>4. SubSeq(records(e), 1, n) \in Seq(BlockRecords)
      BY <2>1, <2>3, SubSeqProperties
    <2>5. data_leaves(e, n) \in Seq(Nat)
      BY <2>1, <2>2, LeavesType
    <2>6. emitted' \in Seq(BlockRecords) /\ leaves' \in Seq(Nat)
      BY <2>1, <2>4, <2>5, ConcatProperties DEF TypeOK
    <2>7. faults' \subseteq FaultKinds
      BY <1>21, FlagAssumption DEF SinkFails, Fault, TypeOK
    <2> QED  BY <1>21, <2>1, <2>6, <2>7 DEF TypeOK, SinkFails, Unwind
  <1>22. CASE EmitDone
    BY <1>22 DEF TypeOK, EmitDone
  <1>23. CASE AwaitFrames
    BY <1>23 DEF TypeOK, AwaitFrames
  <1>24. CASE FinalSeal
    BY <1>24, SealType DEF FinalSeal
  <1>25. CASE NothingToSeal
    BY <1>25 DEF TypeOK, NothingToSeal
  <1>26. CASE AwaitEnvelopes
    BY <1>26 DEF TypeOK, AwaitEnvelopes
  <1>27. CASE EnvelopesDone
    BY <1>27 DEF TypeOK, EnvelopesDone
  <1>28. CASE Join
    BY <1>28 DEF TypeOK, Join
  <1>29. CASE ScopeEnds
    BY <1>29 DEF TypeOK, ScopeEnds
  <1>30. CASE Finished
    BY <1>30 DEF TypeOK, Finished
  <1>31. ASSUME NEW w \in FrameWorkers, TakeFrameJob(w)
        PROVE  TypeOK'
    <2>1. Head(frame_jobs) \in FrameJobs /\ Tail(frame_jobs) \in Seq(FrameJobs)
      BY <1>31, HeadTailProperties DEF TakeFrameJob, TypeOK
    <2>2. Worker("busy", Head(frame_jobs)) \in [state : WorkerStates, job : FrameJobs]
      BY <2>1 DEF Worker, WorkerStates
    <2> QED  BY <1>31, <2>1, <2>2, ZenonT(60) DEF TypeOK, TakeFrameJob
  <1>32. ASSUME NEW w \in FrameWorkers, CompressFrame(w)
        PROVE  TypeOK'
    <2>1. \A s \in WorkerStates : Worker(s, NoFrameJob) \in [state : WorkerStates, job : FrameJobs]
      BY DEF Worker, NoFrameJob, FrameJobs, Extents
    <2>2. \A len \in FrameLens : Ok([job |-> frame_worker[w].job, len |-> len])
                                  \in FrameMessages
      BY InputAssumption DEF TypeOK, Ok, FrameMessages, FrameResults
    <2>3. frame_worker' \in [FrameWorkers -> [state : WorkerStates, job : FrameJobs]]
      <3>1. frame_worker \in [FrameWorkers -> [state : WorkerStates, job : FrameJobs]]
        BY DEF TypeOK
      <3>2. \E s \in WorkerStates :
              frame_worker' = [frame_worker EXCEPT ![w] = Worker(s, NoFrameJob)]
        BY <1>32 DEF CompressFrame, WorkerStates
      <3> QED  BY <2>1, <3>1, <3>2
    <2>4. frame_results' \in Seq(FrameMessages)
      <3>1. frame_results \in Seq(FrameMessages)
        BY DEF TypeOK
      <3>2. \/ frame_results' = frame_results
            \/ \E m \in FrameMessages : frame_results' = Append(frame_results, m)
        BY <1>32, <2>2 DEF CompressFrame
      <3> QED  BY <3>1, <3>2, AppendProperties
    <2> QED  BY <1>32, <2>3, <2>4 DEF TypeOK, CompressFrame
  <1>33. ASSUME NEW w \in FrameWorkers, CompressFails(w)
        PROVE  TypeOK'
    <2>1. \A s \in WorkerStates : Worker(s, NoFrameJob) \in [state : WorkerStates, job : FrameJobs]
      BY DEF Worker, NoFrameJob, FrameJobs, Extents
    <2>2. Failed([job |-> frame_worker[w].job, len |-> 0]) \in FrameMessages
      BY DEF TypeOK, Failed, FrameMessages, FrameResults
    <2>3. frame_worker' \in [FrameWorkers -> [state : WorkerStates, job : FrameJobs]]
      <3>1. frame_worker \in [FrameWorkers -> [state : WorkerStates, job : FrameJobs]]
        BY DEF TypeOK
      <3>2. \E s \in WorkerStates :
              frame_worker' = [frame_worker EXCEPT ![w] = Worker(s, NoFrameJob)]
        BY <1>33 DEF CompressFails, WorkerStates
      <3> QED  BY <2>1, <3>1, <3>2
    <2>4. frame_results' \in Seq(FrameMessages)
      <3>1. frame_results \in Seq(FrameMessages)
        BY DEF TypeOK
      <3>2. \/ frame_results' = frame_results
            \/ \E m \in FrameMessages : frame_results' = Append(frame_results, m)
        BY <1>33, <2>2 DEF CompressFails
      <3> QED  BY <3>1, <3>2, AppendProperties
    <2>5. faults' \subseteq FaultKinds
      BY <1>33, FlagAssumption DEF CompressFails, Fault, TypeOK
    <2> QED  BY <1>33, <2>3, <2>4, <2>5 DEF TypeOK, CompressFails
  <1>34. ASSUME NEW w \in FrameWorkers, FrameWorkerPanics(w)
        PROVE  TypeOK'
    <2>1. \A s \in WorkerStates : Worker(s, NoFrameJob) \in [state : WorkerStates, job : FrameJobs]
      BY DEF Worker, NoFrameJob, FrameJobs, Extents
    <2>2. frame_worker' \in [FrameWorkers -> [state : WorkerStates, job : FrameJobs]]
      <3>1. frame_worker \in [FrameWorkers -> [state : WorkerStates, job : FrameJobs]]
        BY DEF TypeOK
      <3>2. \E s \in WorkerStates :
              frame_worker' = [frame_worker EXCEPT ![w] = Worker(s, NoFrameJob)]
        BY <1>34 DEF FrameWorkerPanics, WorkerStates
      <3> QED  BY <2>1, <3>1, <3>2
    <2>3. faults' \subseteq FaultKinds
      BY <1>34, FlagAssumption DEF FrameWorkerPanics, Fault, TypeOK
    <2> QED  BY <1>34, <2>2, <2>3, SMTT(40) DEF TypeOK, FrameWorkerPanics
  <1>35. ASSUME NEW w \in FrameWorkers, FrameWorkerStops(w)
        PROVE  TypeOK'
    <2>1. \A s \in WorkerStates : Worker(s, NoFrameJob) \in [state : WorkerStates, job : FrameJobs]
      BY DEF Worker, NoFrameJob, FrameJobs, Extents
    <2>2. frame_worker' \in [FrameWorkers -> [state : WorkerStates, job : FrameJobs]]
      <3>1. frame_worker \in [FrameWorkers -> [state : WorkerStates, job : FrameJobs]]
        BY DEF TypeOK
      <3>2. \E s \in WorkerStates :
              frame_worker' = [frame_worker EXCEPT ![w] = Worker(s, NoFrameJob)]
        BY <1>35 DEF FrameWorkerStops, WorkerStates
      <3> QED  BY <2>1, <3>1, <3>2
    <2> QED  BY <1>35, <2>2 DEF TypeOK, FrameWorkerStops
  <1>36. ASSUME NEW w \in EnvelopeWorkers, TakeEnvelopeJob(w)
        PROVE  TypeOK'
    <2>1. Head(envelope_jobs) \in EnvelopeJobs /\ Tail(envelope_jobs) \in Seq(EnvelopeJobs)
      BY <1>36, HeadTailProperties DEF TakeEnvelopeJob, TypeOK
    <2>2. Worker("busy", Head(envelope_jobs)) \in [state : WorkerStates, job : EnvelopeJobs]
      BY <2>1 DEF Worker, WorkerStates
    <2> QED  BY <1>36, <2>1, <2>2 DEF TypeOK, TakeEnvelopeJob
  <1>37. ASSUME NEW w \in EnvelopeWorkers, EncryptEnvelope(w)
        PROVE  TypeOK'
    <2>1. \A s \in WorkerStates : Worker(s, NoEnvelopeJob) \in [state : WorkerStates, job : EnvelopeJobs]
      BY DEF Worker, NoEnvelopeJob, EnvelopeJobs, Extents
    <2>2. Ok(envelope_worker[w].job) \in EnvelopeMessages
      BY DEF TypeOK, Ok, EnvelopeMessages
    <2>3. envelope_worker' \in [EnvelopeWorkers -> [state : WorkerStates, job : EnvelopeJobs]]
      <3>1. envelope_worker \in [EnvelopeWorkers -> [state : WorkerStates, job : EnvelopeJobs]]
        BY DEF TypeOK
      <3>2. \E s \in WorkerStates :
              envelope_worker' = [envelope_worker EXCEPT ![w] = Worker(s, NoEnvelopeJob)]
        BY <1>37 DEF EncryptEnvelope, WorkerStates
      <3> QED  BY <2>1, <3>1, <3>2
    <2>4. envelope_results' \in Seq(EnvelopeMessages)
      <3>1. envelope_results \in Seq(EnvelopeMessages)
        BY DEF TypeOK
      <3>2. \/ envelope_results' = envelope_results
            \/ \E m \in EnvelopeMessages : envelope_results' = Append(envelope_results, m)
        BY <1>37, <2>2 DEF EncryptEnvelope
      <3> QED  BY <3>1, <3>2, AppendProperties
    <2> QED  BY <1>37, <2>3, <2>4 DEF TypeOK, EncryptEnvelope
  <1>38. ASSUME NEW w \in EnvelopeWorkers, EncryptFails(w)
        PROVE  TypeOK'
    <2>1. \A s \in WorkerStates : Worker(s, NoEnvelopeJob) \in [state : WorkerStates, job : EnvelopeJobs]
      BY DEF Worker, NoEnvelopeJob, EnvelopeJobs, Extents
    <2>2. Failed(envelope_worker[w].job) \in EnvelopeMessages
      BY DEF TypeOK, Failed, EnvelopeMessages
    <2>3. envelope_worker' \in [EnvelopeWorkers -> [state : WorkerStates, job : EnvelopeJobs]]
      <3>1. envelope_worker \in [EnvelopeWorkers -> [state : WorkerStates, job : EnvelopeJobs]]
        BY DEF TypeOK
      <3>2. \E s \in WorkerStates :
              envelope_worker' = [envelope_worker EXCEPT ![w] = Worker(s, NoEnvelopeJob)]
        BY <1>38 DEF EncryptFails, WorkerStates
      <3> QED  BY <2>1, <3>1, <3>2
    <2>4. envelope_results' \in Seq(EnvelopeMessages)
      <3>1. envelope_results \in Seq(EnvelopeMessages)
        BY DEF TypeOK
      <3>2. \/ envelope_results' = envelope_results
            \/ \E m \in EnvelopeMessages : envelope_results' = Append(envelope_results, m)
        BY <1>38, <2>2 DEF EncryptFails
      <3> QED  BY <3>1, <3>2, AppendProperties
    <2>5. faults' \subseteq FaultKinds
      BY <1>38, FlagAssumption DEF EncryptFails, Fault, TypeOK
    <2> QED  BY <1>38, <2>3, <2>4, <2>5 DEF TypeOK, EncryptFails
  <1>39. ASSUME NEW w \in EnvelopeWorkers, EnvelopeWorkerPanics(w)
        PROVE  TypeOK'
    <2>1. \A s \in WorkerStates : Worker(s, NoEnvelopeJob) \in [state : WorkerStates, job : EnvelopeJobs]
      BY DEF Worker, NoEnvelopeJob, EnvelopeJobs, Extents
    <2>2. envelope_worker' \in [EnvelopeWorkers -> [state : WorkerStates, job : EnvelopeJobs]]
      <3>1. envelope_worker \in [EnvelopeWorkers -> [state : WorkerStates, job : EnvelopeJobs]]
        BY DEF TypeOK
      <3>2. \E s \in WorkerStates :
              envelope_worker' = [envelope_worker EXCEPT ![w] = Worker(s, NoEnvelopeJob)]
        BY <1>39 DEF EnvelopeWorkerPanics, WorkerStates
      <3> QED  BY <2>1, <3>1, <3>2
    <2>3. faults' \subseteq FaultKinds
      BY <1>39, FlagAssumption DEF EnvelopeWorkerPanics, Fault, TypeOK
    <2> QED  BY <1>39, <2>2, <2>3 DEF TypeOK, EnvelopeWorkerPanics
  <1>40. ASSUME NEW w \in EnvelopeWorkers, EnvelopeWorkerStops(w)
        PROVE  TypeOK'
    <2>1. \A s \in WorkerStates : Worker(s, NoEnvelopeJob) \in [state : WorkerStates, job : EnvelopeJobs]
      BY DEF Worker, NoEnvelopeJob, EnvelopeJobs, Extents
    <2>2. envelope_worker' \in [EnvelopeWorkers -> [state : WorkerStates, job : EnvelopeJobs]]
      <3>1. envelope_worker \in [EnvelopeWorkers -> [state : WorkerStates, job : EnvelopeJobs]]
        BY DEF TypeOK
      <3>2. \E s \in WorkerStates :
              envelope_worker' = [envelope_worker EXCEPT ![w] = Worker(s, NoEnvelopeJob)]
        BY <1>40 DEF EnvelopeWorkerStops, WorkerStates
      <3> QED  BY <2>1, <3>1, <3>2
    <2> QED  BY <1>40, <2>2, SMTT(40) DEF TypeOK, EnvelopeWorkerStops
  <1>41. CASE UNCHANGED vars
    BY <1>41, SMTT(40) DEF TypeOK
  <1> QED  BY <1>1, <1>2, <1>3, <1>4, <1>5, <1>6, <1>7, <1>8, <1>9, <1>10, <1>11, <1>12, <1>13, <1>14, <1>15, <1>16, <1>17, <1>18, <1>19, <1>20, <1>21, <1>22, <1>23, <1>24, <1>25, <1>26, <1>27, <1>28, <1>29, <1>30, <1>31, <1>32, <1>33, <1>34, <1>35, <1>36, <1>37, <1>38, <1>39, <1>40, <1>41
           DEF Next, MainStep, FrameWorkerStep, EnvelopeWorkerStep

-----------------------------------------------------------------------------
(***************************************************************************)
(* Order                                                                   *)
(***************************************************************************)

\* Which operations move an envelope on its way from the index to the volumes,
\* and where to.  No other operation touches it.
LEMMA Effects ==
    ASSUME TypeOK, [Next]_vars
    PROVE  /\ BeginMember \/ UNCHANGED tar_members
           /\ \/ Seal("append") \/ Seal("finish_envelopes")
              \/ AppendFrame
              \/ UNCHANGED <<envelope, payload_objects, next_block>>
           /\ envelope_in_hand' =>
                 \/ Seal("append") \/ Seal("finish_envelopes")
                 \/ envelope_in_hand /\ UNCHANGED envelope_job
           /\ \/ SendEnvelopeJob
              \/ \E w \in EnvelopeWorkers : TakeEnvelopeJob(w)
              \/ UNCHANGED envelope_jobs
           /\ \/ \E w \in EnvelopeWorkers : EnvelopeWorkerStep(w)
              \/ UNCHANGED envelope_worker
           /\ \/ ReceiveEnvelope \/ ReceiveEnvelopeFails
              \/ \E w \in EnvelopeWorkers : EncryptEnvelope(w) \/ EncryptFails(w)
              \/ UNCHANGED envelope_results
           /\ \/ ReceiveEnvelope \/ EmitEnvelope \/ SinkFails
              \/ UNCHANGED envelope_buffer
           /\ \/ EmitEnvelope \/ SinkFails
              \/ UNCHANGED <<next_envelope, emitted>>
           /\ pc' \notin Returned => pc \notin Returned
  <1>0. /\ frame_return \in {"drain", "send", "finish_frames"}
        /\ flush_return \in {"append", "finish_envelopes"}
        /\ emit_return \in {"drain", "seal", "finish_envelopes"}
    BY DEF TypeOK
  <1> USE DEF BeginMember, EndMembers, ReadChunk, ReadFails, MemberDone,
              SendFrameJob, FrameJobsFull, ReceiveFrame, ReceiveFrameFails,
              DrainedFrames, AppendFrame, FrameTooLarge, AppendDone,
              SealForAppend, SendEnvelopeJob, EnvelopeJobsFull,
              ReceiveEnvelope, ReceiveEnvelopeFails, DrainedEnvelopes,
              EmitEnvelope, SinkFails, EmitDone, AwaitFrames, FinalSeal,
              NothingToSeal, AwaitEnvelopes, EnvelopesDone, Join, ScopeEnds,
              Finished, TakeFrameJob, CompressFrame, CompressFails,
              FrameWorkerPanics, FrameWorkerStops, TakeEnvelopeJob,
              EncryptEnvelope, EncryptFails, EnvelopeWorkerPanics,
              EnvelopeWorkerStops, Next, MainStep, FrameWorkerStep,
              EnvelopeWorkerStep, Unwind, Fault
  <1>1. BeginMember \/ UNCHANGED tar_members
    BY DEF Seal
  <1>2. \/ Seal("append") \/ Seal("finish_envelopes")
        \/ AppendFrame
        \/ UNCHANGED <<envelope, payload_objects, next_block>>
    OBVIOUS
  <1>3. ASSUME envelope_in_hand'
        PROVE  \/ Seal("append") \/ Seal("finish_envelopes")
               \/ envelope_in_hand /\ UNCHANGED envelope_job
    <2>1. Seal("append") \/ Seal("finish_envelopes") \/ pc' # "seal" \/ pc \in {"seal", "emit"}
      BY <1>0
    <2>2. \/ Seal("append") \/ Seal("finish_envelopes") \/ SendEnvelopeJob
          \/ UNCHANGED envelope_job
      OBVIOUS
    <2>3. ~SendEnvelopeJob
      BY <1>3 DEF envelope_in_hand
    <2>4. \/ Seal("append") \/ Seal("finish_envelopes")
          \/ envelope_in_hand
      BY <1>0, <1>3, <2>1 DEF envelope_in_hand
    <2> QED  BY <2>2, <2>3, <2>4
  <1>4. \/ SendEnvelopeJob
        \/ \E w \in EnvelopeWorkers : TakeEnvelopeJob(w)
        \/ UNCHANGED envelope_jobs
    BY DEF Seal
  <1>5. \/ \E w \in EnvelopeWorkers : EnvelopeWorkerStep(w)
        \/ UNCHANGED envelope_worker
    BY DEF Seal
  <1>6. \/ ReceiveEnvelope \/ ReceiveEnvelopeFails
        \/ \E w \in EnvelopeWorkers : EncryptEnvelope(w) \/ EncryptFails(w)
        \/ UNCHANGED envelope_results
    BY DEF Seal
  <1>7. \/ ReceiveEnvelope \/ EmitEnvelope \/ SinkFails
        \/ UNCHANGED envelope_buffer
    BY DEF Seal
  <1>8. \/ EmitEnvelope \/ SinkFails
        \/ UNCHANGED <<next_envelope, emitted>>
    BY DEF Seal
  <1>9. pc' \notin Returned => pc \notin Returned
    BY DEF Seal
  <1> QED  BY <1>1, <1>2, <1>3, <1>4, <1>5, <1>6, <1>7, <1>8, <1>9

\* Until a member is begun there is no frame and no envelope.
LEMMA NothingStep ==
    ASSUME TypeOK, NothingBeforeMembers, [Next]_vars
    PROVE  NothingBeforeMembers'
  <1> SUFFICES ASSUME tar_members' = <<>>
               PROVE  /\ pc' \in {"member", "finish_frames", "finish_envelopes", "join"}
                                 \cup Returned
                      /\ next_frame'.job = 0
                      /\ envelope' = EmptyEnvelope(0)
    BY DEF NothingBeforeMembers
  <1>1. ~BeginMember
    <2> SUFFICES ASSUME BeginMember PROVE FALSE
      OBVIOUS
    <2>1. tar_members \in Seq(TarMembers) /\ tar_total_size \in Nat
      BY DEF TypeOK
    <2>2. PICK m \in TarMembers : tar_members' = Append(tar_members, m)
      BY <2>1, InputAssumption DEF BeginMember, TarMembers
    <2>3. Append(tar_members, m) # <<>>
      BY <2>1, AppendProperties
    <2> QED  BY <2>2, <2>3
  <1>2. tar_members = <<>>
    BY <1>1, Effects
  <1>3. /\ pc \in {"member", "finish_frames", "finish_envelopes", "join"} \cup Returned
        /\ next_frame.job = 0
        /\ envelope.plaintext = <<>> /\ envelope.index = 0
        /\ envelope = EmptyEnvelope(0)
    BY <1>2 DEF NothingBeforeMembers, EmptyEnvelope
  <1>4. ~(next_frame.result < next_frame.job) /\ ~(next_envelope < envelope.index)
    <2>1. next_frame.result \in Nat /\ next_envelope \in Nat
      BY SMTT(40) DEF TypeOK
    <2> QED  BY <1>3, <2>1
  <1> USE DEF BeginMember, EndMembers, ReadChunk, ReadFails, MemberDone,
              SendFrameJob, FrameJobsFull, ReceiveFrame, ReceiveFrameFails,
              DrainedFrames, AppendFrame, FrameTooLarge, AppendDone,
              SealForAppend, SendEnvelopeJob, EnvelopeJobsFull,
              ReceiveEnvelope, ReceiveEnvelopeFails, DrainedEnvelopes,
              EmitEnvelope, SinkFails, EmitDone, AwaitFrames, FinalSeal,
              NothingToSeal, AwaitEnvelopes, EnvelopesDone, Join, ScopeEnds,
              Finished, TakeFrameJob, CompressFrame, CompressFails,
              FrameWorkerPanics, FrameWorkerStops, TakeEnvelopeJob,
              EncryptEnvelope, EncryptFails, EnvelopeWorkerPanics,
              EnvelopeWorkerStops, Next, MainStep, FrameWorkerStep,
              EnvelopeWorkerStep, Unwind, Fault
  <1>5. pc' \in {"member", "finish_frames", "finish_envelopes", "join"} \cup Returned
    BY <1>1, <1>3, <1>4 DEF Seal
  <1>6. UNCHANGED <<next_frame, envelope>>
    BY <1>1, <1>3, <1>4 DEF Seal
  <1> QED  BY <1>3, <1>5, <1>6

\* What is in the envelope always fits an object: a frame is appended only when
\* it does, and a sealed envelope is replaced by an empty one.
LEMMA FitsStep ==
    ASSUME TypeOK, [Next]_vars,
           envelope.plaintext = <<>> => envelope.len = 0, EnvelopeFits
    PROVE  (envelope.plaintext = <<>> => envelope.len = 0)' /\ EnvelopeFits'
  <1>1. CASE AppendFrame
    <2>1. PICK r \in next_results :
            /\ ~needs_flush(r.len)
            /\ envelope.plaintext # <<>> \/ payload_object_can_fit(Options, r.len)
            /\ envelope' = extend_envelope(envelope, r.job.frame, r.len)
      BY <1>1 DEF AppendFrame
    <2>2. r \in FrameResults
      BY DEF next_results, TypeOK
    <2>3. r.len \in Nat /\ r.job.frame \in Nat
      BY <2>2 DEF FrameResults, FrameJobs
    <2>4. /\ envelope \in [index : Nat, plaintext : Seq(Nat), len : Nat]
          /\ envelope.plaintext \in Seq(Nat) /\ envelope.len \in Nat
      BY DEF TypeOK
    <2>5. /\ envelope'.plaintext = Append(envelope.plaintext, r.job.frame)
          /\ envelope'.len = envelope.len + r.len
      BY <2>1, <2>4 DEF extend_envelope
    <2>6. envelope'.plaintext # <<>>
      <3>1. Append(envelope.plaintext, r.job.frame) # <<>>
        BY <2>3, <2>4, AppendProperties
      <3> QED  BY <2>5, <3>1
    <2>7. payload_object_can_fit(Options, envelope.len + r.len)
      <3>1. CASE envelope.plaintext # <<>>
        BY <2>1, <3>1 DEF needs_flush, payload_envelope_needs_flush
      <3>2. CASE envelope.plaintext = <<>>
        <4>1. envelope.len + r.len = r.len
          BY <2>3, <3>2
        <4> QED  BY <2>1, <3>2, <4>1
      <3> QED  BY <3>1, <3>2
    <2> QED  BY <2>5, <2>6, <2>7 DEF EnvelopeFits
  <1>2. CASE Seal("append") \/ Seal("finish_envelopes")
    BY <1>2 DEF Seal, EmptyEnvelope, EnvelopeFits
  <1>3. CASE UNCHANGED envelope
    BY <1>3 DEF EnvelopeFits
  <1> QED  BY <1>1, <1>2, <1>3, Effects

\* A sealed object starts at next_payload_block_index and is numbered after the
\* ones before it, which stay where they are.
LEMMA SealEffect ==
    ASSUME TypeOK, WriteOrder, NEW return \in {"append", "finish_envelopes"},
           Seal(return)
    PROVE  \E object \in PayloadObjects :
             /\ payload_objects' = Append(payload_objects, object)
             /\ object.extent.first = next_block
             /\ next_block' = next_block_index(object.extent)
             /\ envelope'.index = Len(payload_objects) + 1
             /\ envelope_job'.index = Len(payload_objects)
             /\ envelope_job'.extent = object.extent
             /\ UNCHANGED <<next_envelope, emitted>>
  <1> DEFINE object == payload_object(Options, next_block, envelope)
  <1>1. envelope.len \in Nat /\ envelope.index \in Nat /\ next_block \in Nat
    BY DEF TypeOK
  <1>2. payload_object_can_fit(Options, envelope.len)
    BY DEF Seal, WriteOrder, EnvelopeFits
  <1>3. /\ object_extent(Options, next_block, envelope.len) \in Extents
        /\ object_extent(Options, next_block, envelope.len).first = next_block
    BY <1>1, <1>2, ExtentType
  <1>4. object \in PayloadObjects /\ object.extent.first = next_block
    BY <1>1, <1>3 DEF payload_object, PayloadObjects
  <1>5. envelope.index = Len(payload_objects)
    BY DEF WriteOrder, LaidOutInOrder
  <1>6. /\ payload_objects' = Append(payload_objects, object)
        /\ next_block' = next_block_index(object.extent)
        /\ UNCHANGED <<next_envelope, emitted>>
    BY DEF Seal
  <1>7. /\ envelope'.index = Len(payload_objects) + 1
        /\ envelope_job'.index = Len(payload_objects)
        /\ envelope_job'.extent = object.extent
    BY <1>5 DEF Seal, EmptyEnvelope
  <1> HIDE DEF object
  <1> QED  BY <1>4, <1>6, <1>7

\* Appending an object to a layout moves no earlier object.
LEMMA FirstBlockStays ==
    ASSUME NEW objects \in Seq(PayloadObjects), NEW object \in PayloadObjects,
           NEW next, NEW later, object.extent.first = next,
           NEW k \in 0 .. Len(objects)
    PROVE  first_block(Append(objects, object), later, k) = first_block(objects, next, k)
  BY AppendProperties DEF first_block

\* The layout stays in order.
LEMMA LayoutStep ==
    ASSUME TypeOK, WriteOrder, [Next]_vars
    PROVE  LaidOutInOrder'
  <1>1. ASSUME NEW return \in {"append", "finish_envelopes"}, Seal(return)
        PROVE  LaidOutInOrder'
    <2>1. PICK object \in PayloadObjects :
            /\ payload_objects' = Append(payload_objects, object)
            /\ object.extent.first = next_block
            /\ next_block' = next_block_index(object.extent)
            /\ envelope'.index = Len(payload_objects) + 1
      BY <1>1, SealEffect
    <2>2. payload_objects \in Seq(PayloadObjects) /\ Len(payload_objects) \in Nat
      BY DEF TypeOK
    <2>3. /\ Len(payload_objects') = Len(payload_objects) + 1
          /\ \A i \in 1 .. Len(payload_objects) : payload_objects'[i] = payload_objects[i]
          /\ payload_objects'[Len(payload_objects) + 1] = object
      BY <2>1, <2>2, AppendProperties
    <2>4. \A k \in 0 .. Len(payload_objects) :
            first_block(payload_objects', next_block', k)
              = first_block(payload_objects, next_block, k)
      BY <2>1, <2>2, FirstBlockStays
    <2>5. first_block(payload_objects', next_block', 0) = 0
      BY <2>2, <2>4 DEF WriteOrder, LaidOutInOrder
    <2>6. ASSUME NEW k \in 0 .. Len(payload_objects') - 1
          PROVE  next_block_index(payload_objects'[k + 1].extent)
                   = first_block(payload_objects', next_block', k + 1)
      <3>1. CASE k < Len(payload_objects)
        <4>1. k + 1 \in 1 .. Len(payload_objects) /\ k \in 0 .. Len(payload_objects) - 1
          BY <2>2, <2>3, <2>6, <3>1
        <4>2. payload_objects'[k + 1] = payload_objects[k + 1]
          BY <2>3, <4>1
        <4>3. next_block_index(payload_objects[k + 1].extent)
                = first_block(payload_objects, next_block, k + 1)
          BY <4>1 DEF WriteOrder, LaidOutInOrder
        <4>4. first_block(payload_objects', next_block', k + 1)
                = first_block(payload_objects, next_block, k + 1)
          BY <2>2, <2>4, <4>1
        <4> QED  BY <4>2, <4>3, <4>4
      <3>2. CASE k = Len(payload_objects)
        BY <2>1, <2>2, <2>3, <3>2 DEF first_block
      <3> QED  BY <2>2, <2>3, <2>6, <3>1, <3>2
    <2> QED  BY <2>1, <2>3, <2>5, <2>6 DEF LaidOutInOrder
  <1>2. CASE AppendFrame
    <2>1. UNCHANGED <<payload_objects, next_block>>
      BY <1>2 DEF AppendFrame
    <2>2. envelope'.index = envelope.index
      BY <1>2 DEF AppendFrame, extend_envelope, TypeOK
    <2> QED  BY <2>1, <2>2 DEF WriteOrder, LaidOutInOrder
  <1>3. CASE UNCHANGED <<envelope, payload_objects, next_block>>
    BY <1>3 DEF WriteOrder, LaidOutInOrder
  <1> QED  BY <1>1, <1>2, <1>3, Effects

\* A job keeps its place in the index when the index grows.
LEMMA IndexedStays ==
    ASSUME NEW objects \in Seq(PayloadObjects), NEW object \in PayloadObjects,
           NEW job \in EnvelopeJobs, AsIndexed(objects, job)
    PROVE  AsIndexed(Append(objects, object), job)
  <1>1. job.index \in Nat
    BY DEF EnvelopeJobs
  <1> QED  BY <1>1, AppendProperties DEF AsIndexed

\* So every job keeps its place in a step.
LEMMA IndexedInStep ==
    ASSUME TypeOK, WriteOrder, [Next]_vars
    PROVE  \A job \in EnvelopeJobs :
             AsIndexed(payload_objects, job) => AsIndexed(payload_objects', job)
  <1>1. ASSUME NEW return \in {"append", "finish_envelopes"}, Seal(return),
               NEW job \in EnvelopeJobs, AsIndexed(payload_objects, job)
        PROVE  AsIndexed(payload_objects', job)
    <2>1. PICK object \in PayloadObjects :
            payload_objects' = Append(payload_objects, object)
      BY <1>1, SealEffect
    <2>2. payload_objects \in Seq(PayloadObjects)
      BY DEF TypeOK
    <2> QED  BY <1>1, <2>1, <2>2, IndexedStays
  <1>2. \/ Seal("append") \/ Seal("finish_envelopes") \/ UNCHANGED payload_objects
    BY Effects DEF AppendFrame
  <1> QED  BY <1>1, <1>2

\* Wherever an envelope is on its way to the volumes, its job is the one the
\* index describes.
LEMMA InFlightStep ==
    ASSUME TypeOK, WriteOrder, [Next]_vars
    PROVE  InFlightAsIndexed'
  <1>1. \A job \in EnvelopeJobs :
          AsIndexed(payload_objects, job) => AsIndexed(payload_objects', job)
    BY IndexedInStep
  <1>2. InFlightAsIndexed
    BY DEF WriteOrder
  <1>3. ASSUME envelope_in_hand' PROVE AsIndexed(payload_objects', envelope_job')
    <2>1. ASSUME NEW return \in {"append", "finish_envelopes"}, Seal(return)
          PROVE  AsIndexed(payload_objects', envelope_job')
      <3>1. PICK object \in PayloadObjects :
              /\ payload_objects' = Append(payload_objects, object)
              /\ envelope_job'.index = Len(payload_objects)
              /\ envelope_job'.extent = object.extent
        BY <2>1, SealEffect
      <3>2. payload_objects \in Seq(PayloadObjects)
        BY DEF TypeOK
      <3> QED  BY <3>1, <3>2, AppendProperties DEF AsIndexed
    <2>2. CASE envelope_in_hand /\ UNCHANGED envelope_job
      BY <1>1, <1>2, <2>2 DEF InFlightAsIndexed, TypeOK
    <2> QED  BY <1>3, <2>1, <2>2, Effects
  <1>4. \A i \in 1 .. Len(envelope_jobs') : AsIndexed(payload_objects', envelope_jobs'[i])
    <2>0. /\ envelope_jobs \in Seq(EnvelopeJobs) /\ envelope_job \in EnvelopeJobs
          /\ \A i \in 1 .. Len(envelope_jobs) : AsIndexed(payload_objects, envelope_jobs[i])
      BY <1>2 DEF InFlightAsIndexed, TypeOK
    <2>1. \A i \in 1 .. Len(envelope_jobs) : AsIndexed(payload_objects', envelope_jobs[i])
      BY <1>1, <2>0
    <2>2. CASE SendEnvelopeJob
      <3>1. AsIndexed(payload_objects', envelope_job)
        BY <1>1, <1>2, <2>0, <2>2 DEF SendEnvelopeJob, InFlightAsIndexed, envelope_in_hand
      <3>2. envelope_jobs' = Append(envelope_jobs, envelope_job)
        BY <2>2 DEF SendEnvelopeJob
      <3> QED  BY <2>0, <2>1, <3>1, <3>2, AppendProperties
    <2>3. CASE \E w \in EnvelopeWorkers : TakeEnvelopeJob(w)
      <3>1. envelope_jobs # <<>> /\ envelope_jobs' = Tail(envelope_jobs)
        BY <2>3 DEF TakeEnvelopeJob
      <3> QED  BY <2>0, <2>1, <3>1, HeadTailProperties
    <2>4. CASE UNCHANGED envelope_jobs
      BY <2>1, <2>4
    <2> QED  BY <2>2, <2>3, <2>4, Effects
  <1>5. \A w \in EnvelopeWorkers : envelope_worker'[w].state = "busy"
          => AsIndexed(payload_objects', envelope_worker'[w].job)
    <2>0. /\ envelope_worker \in [EnvelopeWorkers -> [state : WorkerStates, job : EnvelopeJobs]]
          /\ \A w \in EnvelopeWorkers : envelope_worker[w].job \in EnvelopeJobs
      BY DEF TypeOK
    <2>1. \A w \in EnvelopeWorkers : envelope_worker[w].state = "busy"
            => AsIndexed(payload_objects', envelope_worker[w].job)
      BY <1>1, <1>2, <2>0 DEF InFlightAsIndexed
    <2>2. ASSUME NEW w \in EnvelopeWorkers, TakeEnvelopeJob(w)
          PROVE  \A v \in EnvelopeWorkers : envelope_worker'[v].state = "busy"
                   => AsIndexed(payload_objects', envelope_worker'[v].job)
      <3>1. /\ envelope_jobs \in Seq(EnvelopeJobs) /\ envelope_jobs # <<>>
            /\ envelope_worker' =
                 [envelope_worker EXCEPT ![w] = Worker("busy", Head(envelope_jobs))]
        BY <2>2 DEF TakeEnvelopeJob, TypeOK
      <3>2. Head(envelope_jobs) \in EnvelopeJobs /\ Head(envelope_jobs) = envelope_jobs[1]
        BY <3>1, HeadTailProperties
      <3>3. 1 \in 1 .. Len(envelope_jobs)
        BY <3>1
      <3>4. AsIndexed(payload_objects', Head(envelope_jobs))
        BY <1>1, <1>2, <3>2, <3>3 DEF InFlightAsIndexed
      <3> QED  BY <2>0, <2>1, <3>1, <3>4 DEF Worker
    <2>3. ASSUME NEW w \in EnvelopeWorkers,
                 \/ EncryptEnvelope(w) \/ EncryptFails(w)
                 \/ EnvelopeWorkerPanics(w) \/ EnvelopeWorkerStops(w)
          PROVE  \A v \in EnvelopeWorkers : envelope_worker'[v].state = "busy"
                   => AsIndexed(payload_objects', envelope_worker'[v].job)
      <3>1. \E s \in WorkerStates \ {"busy"} :
              envelope_worker' = [envelope_worker EXCEPT ![w] = Worker(s, NoEnvelopeJob)]
        BY <2>3 DEF EncryptEnvelope, EncryptFails, EnvelopeWorkerPanics,
                    EnvelopeWorkerStops, WorkerStates
      <3> QED  BY <2>0, <2>1, <3>1 DEF Worker
    <2>4. CASE UNCHANGED envelope_worker
      BY <2>1, <2>4
    <2> QED  BY <2>2, <2>3, <2>4, Effects DEF EnvelopeWorkerStep
  <1>6. \A i \in 1 .. Len(envelope_results') :
          AsIndexed(payload_objects', envelope_results'[i].value)
    <2>0. /\ envelope_results \in Seq(EnvelopeMessages)
          /\ \A i \in 1 .. Len(envelope_results) : envelope_results[i].value \in EnvelopeJobs
      <3>1. envelope_results \in Seq(EnvelopeMessages)
        BY DEF TypeOK
      <3>2. \A i \in 1 .. Len(envelope_results) : envelope_results[i] \in EnvelopeMessages
        BY <3>1, ElementOfSeq
      <3>3. \A m \in EnvelopeMessages : m.value \in EnvelopeJobs
        BY DEF EnvelopeMessages
      <3> QED  BY <3>1, <3>2, <3>3
    <2>1. \A i \in 1 .. Len(envelope_results) :
            AsIndexed(payload_objects', envelope_results[i].value)
      BY <1>1, <1>2, <2>0 DEF InFlightAsIndexed
    <2>2. CASE ReceiveEnvelope \/ ReceiveEnvelopeFails
      <3>1. \/ envelope_results # <<>> /\ envelope_results' = Tail(envelope_results)
            \/ UNCHANGED envelope_results
        BY <2>2 DEF ReceiveEnvelope, ReceiveEnvelopeFails
      <3>2. CASE envelope_results # <<>> /\ envelope_results' = Tail(envelope_results)
        <4>1. /\ Len(envelope_results') = Len(envelope_results) - 1
              /\ \A i \in 1 .. Len(envelope_results') :
                    envelope_results'[i] = envelope_results[i + 1]
          BY <2>0, <3>2, HeadTailProperties
        <4>2. Len(envelope_results) \in Nat
          BY <2>0
        <4> QED  BY <2>1, <4>1, <4>2
      <3> QED  BY <2>1, <3>1, <3>2
    <2>3. ASSUME NEW w \in EnvelopeWorkers, EncryptEnvelope(w) \/ EncryptFails(w)
          PROVE  \A i \in 1 .. Len(envelope_results') :
                   AsIndexed(payload_objects', envelope_results'[i].value)
      <3>1. envelope_worker[w].state = "busy" /\ envelope_worker[w].job \in EnvelopeJobs
        BY <2>3 DEF EncryptEnvelope, EncryptFails, TypeOK
      <3>2. AsIndexed(payload_objects', envelope_worker[w].job)
        BY <1>1, <1>2, <3>1 DEF InFlightAsIndexed
      <3>3. \/ \E m \in EnvelopeMessages : /\ m.value = envelope_worker[w].job
                                           /\ envelope_results' = Append(envelope_results, m)
            \/ UNCHANGED envelope_results
        BY <2>3, <3>1 DEF EncryptEnvelope, EncryptFails, Ok, Failed, EnvelopeMessages
      <3> QED  BY <2>0, <2>1, <3>2, <3>3, AppendProperties
    <2>4. CASE UNCHANGED envelope_results
      BY <2>1, <2>4
    <2> QED  BY <2>2, <2>3, <2>4, Effects
  <1>7. \A e \in envelope_buffer' : AsIndexed(payload_objects', e)
    <2>1. \A e \in envelope_buffer : AsIndexed(payload_objects', e)
      BY <1>1, <1>2 DEF InFlightAsIndexed, TypeOK
    <2>2. CASE ReceiveEnvelope
      <3>1. /\ envelope_results \in Seq(EnvelopeMessages) /\ envelope_results # <<>>
            /\ envelope_buffer' = envelope_buffer \cup {Head(envelope_results).value}
        BY <2>2 DEF ReceiveEnvelope, TypeOK
      <3>2. /\ Head(envelope_results) \in EnvelopeMessages
            /\ Head(envelope_results) = envelope_results[1]
        BY <3>1, HeadTailProperties
      <3>3. 1 \in 1 .. Len(envelope_results)
        BY <3>1
      <3>4. Head(envelope_results).value \in EnvelopeJobs
        BY <3>2 DEF EnvelopeMessages
      <3>5. AsIndexed(payload_objects', Head(envelope_results).value)
        BY <1>1, <1>2, <3>2, <3>3, <3>4 DEF InFlightAsIndexed
      <3> QED  BY <2>1, <3>1, <3>5
    <2>3. CASE EmitEnvelope \/ SinkFails \/ UNCHANGED envelope_buffer
      <3>1. envelope_buffer' \subseteq envelope_buffer
        BY <2>3 DEF EmitEnvelope, SinkFails
      <3> QED  BY <2>1, <3>1
    <2> QED  BY <2>2, <2>3, Effects
  <1> QED  BY <1>3, <1>4, <1>5, <1>6, <1>7 DEF InFlightAsIndexed

\* The first n records of an object that starts where the written blocks end
\* continue them in block order.
LEMMA ExtendsInOrder ==
    ASSUME NEW blocks \in Seq(BlockRecords), InBlockOrder(blocks),
           NEW e \in EnvelopeJobs, e.extent.first = Len(blocks),
           NEW n \in 0 .. Len(records(e))
    PROVE  /\ Len(blocks \o SubSeq(records(e), 1, n)) = Len(blocks) + n
           /\ InBlockOrder(blocks \o SubSeq(records(e), 1, n))
  <1> DEFINE part == SubSeq(records(e), 1, n)
             longer == blocks \o part
  <1>1. /\ records(e) \in Seq(BlockRecords)
        /\ \A i \in 1 .. Len(records(e)) : records(e)[i].block = e.extent.first + i - 1
    BY RecordsType
  <1>2. Len(records(e)) \in Nat /\ n \in Nat /\ Len(blocks) \in Nat
    BY <1>1
  <1>3. \A i \in 1 .. n : records(e)[i] \in BlockRecords
    BY <1>1, <1>2, ElementOfSeq
  <1>4. /\ part \in Seq(BlockRecords)
        /\ Len(part) = n
        /\ \A i \in 1 .. n : part[i] = records(e)[i]
    BY <1>2, <1>3, SubSeqProperties
  <1> HIDE DEF part
  <1>5. /\ Len(longer) = Len(blocks) + n
        /\ \A i \in 1 .. Len(blocks) + n :
              longer[i] = IF i <= Len(blocks) THEN blocks[i] ELSE part[i - Len(blocks)]
    <2>1. blocks \in Seq(BlockRecords) /\ part \in Seq(BlockRecords)
      BY <1>4
    <2>2. /\ Len(longer) = Len(blocks) + Len(part)
          /\ \A i \in 1 .. Len(blocks) + Len(part) :
                longer[i] = IF i <= Len(blocks) THEN blocks[i] ELSE part[i - Len(blocks)]
      BY <2>1, ConcatProperties
    <2> QED  BY <1>4, <2>2
  <1> HIDE DEF longer
  <1>6. ASSUME NEW i \in 1 .. Len(longer) PROVE longer[i].block = i - 1
    <2>1. CASE i <= Len(blocks)
      BY <1>2, <1>5, <2>1 DEF InBlockOrder
    <2>2. CASE i > Len(blocks)
      <3>1. i - Len(blocks) \in 1 .. n
        BY <1>2, <1>5, <2>2
      <3>2. longer[i] = records(e)[i - Len(blocks)]
        BY <1>2, <1>4, <1>5, <2>2, <3>1
      <3>3. records(e)[i - Len(blocks)].block = Len(blocks) + (i - Len(blocks)) - 1
        BY <1>1, <1>2, <3>1
      <3> QED  BY <1>2, <1>5, <3>2, <3>3
    <2> QED  BY <1>2, <1>5, <2>1, <2>2
  <1>7. InBlockOrder(longer)
    BY <1>6 DEF InBlockOrder
  <1> QED  BY <1>5, <1>7 DEF longer, part

\* What is written ends where the next envelope starts, and is in block order,
\* also when a write fails half-way.
LEMMA WrittenStep ==
    ASSUME TypeOK, WriteOrder, [Next]_vars
    PROVE  WrittenUpToNext' /\ BlocksInOrder'
  <1>1. /\ emitted \in Seq(BlockRecords) /\ Len(emitted) \in Nat
        /\ next_envelope \in Nat
        /\ payload_objects \in Seq(PayloadObjects) /\ Len(payload_objects) \in Nat
    <2>1. /\ emitted \in Seq(BlockRecords) /\ next_envelope \in Nat
          /\ payload_objects \in Seq(PayloadObjects)
      BY DEF TypeOK
    <2> QED  BY <2>1, LenProperties
  <1>2. InBlockOrder(emitted)
    BY DEF WriteOrder, BlocksInOrder
  <1>3. ASSUME NEW e \in next_sealed, pc \notin Returned
        PROVE  /\ e \in EnvelopeJobs
               /\ e.extent.first = Len(emitted)
               /\ next_envelope + 1 <= Len(payload_objects)
               /\ next_block_index(e.extent)
                    = first_block(payload_objects, next_block, next_envelope + 1)
    <2>1. e \in envelope_buffer /\ e \in EnvelopeJobs /\ e.index = next_envelope
      BY <1>3 DEF next_sealed, TypeOK
    <2>2. AsIndexed(payload_objects, e)
      BY <2>1 DEF WriteOrder, InFlightAsIndexed
    <2>3. /\ next_envelope < Len(payload_objects)
          /\ e.extent = payload_objects[next_envelope + 1].extent
      BY <2>1, <2>2 DEF AsIndexed
    <2>4. Len(emitted) = first_block(payload_objects, next_block, next_envelope)
      BY <1>3 DEF WriteOrder, WrittenUpToNext
    <2>5. e.extent.first = Len(emitted)
      BY <2>3, <2>4 DEF first_block
    <2>6. next_envelope \in 0 .. Len(payload_objects) - 1
      BY <1>1, <2>3
    <2>7. next_block_index(payload_objects[next_envelope + 1].extent)
            = first_block(payload_objects, next_block, next_envelope + 1)
      BY <2>6 DEF WriteOrder, LaidOutInOrder
    <2> QED  BY <1>1, <2>1, <2>3, <2>5, <2>7
  <1>4. CASE EmitEnvelope
    <2>1. PICK e \in next_sealed :
            emitted' = emitted \o records(e) /\ next_envelope' = next_envelope + 1
      BY <1>4 DEF EmitEnvelope
    <2>2. pc = "emit" /\ UNCHANGED <<pc, payload_objects, next_block>>
      BY <1>4 DEF EmitEnvelope
    <2>3. /\ e \in EnvelopeJobs
          /\ e.extent.first = Len(emitted)
          /\ next_envelope + 1 <= Len(payload_objects)
          /\ next_block_index(e.extent)
               = first_block(payload_objects, next_block, next_envelope + 1)
      BY <1>3, <2>2
    <2>4. /\ records(e) \in Seq(BlockRecords) /\ Len(records(e)) \in Nat
          /\ Len(records(e)) = e.extent.data + e.extent.parity
      BY <2>3, RecordsType
    <2>5. SubSeq(records(e), 1, Len(records(e))) = records(e)
      BY <2>4, SubSeqFull
    <2>6. Len(emitted') = Len(emitted) + Len(records(e)) /\ InBlockOrder(emitted')
      <3>1. Len(records(e)) \in 0 .. Len(records(e))
        BY <2>4
      <3>2. emitted' = emitted \o SubSeq(records(e), 1, Len(records(e)))
        BY <2>1, <2>5
      <3>3. LET longer == emitted \o SubSeq(records(e), 1, Len(records(e)))
            IN  Len(longer) = Len(emitted) + Len(records(e)) /\ InBlockOrder(longer)
        BY <1>1, <1>2, <2>3, <3>1, ExtendsInOrder
      <3> QED  BY <3>2, <3>3
    <2>7. e.extent.data \in Nat /\ e.extent.parity \in Nat
      BY <2>3 DEF EnvelopeJobs, Extents
    <2>8. Len(emitted') = next_block_index(e.extent)
      BY <1>1, <2>3, <2>4, <2>6, <2>7, SMTT(40) DEF next_block_index
    <2> QED  BY <2>1, <2>2, <2>3, <2>6, <2>8 DEF WrittenUpToNext, BlocksInOrder
  <1>5. CASE SinkFails
    <2>1. PICK e \in next_sealed :
            \E n \in 0 .. Len(records(e)) - 1 :
               emitted' = emitted \o SubSeq(records(e), 1, n)
      BY <1>5 DEF SinkFails
    <2>2. PICK n \in 0 .. Len(records(e)) - 1 :
            emitted' = emitted \o SubSeq(records(e), 1, n)
      BY <2>1
    <2>3. pc = "emit" /\ pc' = "unwind"
      BY <1>5 DEF SinkFails, Unwind
    <2>4. e \in EnvelopeJobs /\ e.extent.first = Len(emitted)
      BY <1>3, <2>3
    <2>5. Len(records(e)) \in Nat
      BY <2>4, RecordsType
    <2>6. n \in 0 .. Len(records(e))
      BY <2>5
    <2>7. InBlockOrder(emitted \o SubSeq(records(e), 1, n))
      BY <1>1, <1>2, <2>4, <2>6, ExtendsInOrder
    <2> QED  BY <2>2, <2>3, <2>7 DEF WrittenUpToNext, BlocksInOrder
  <1>6. CASE UNCHANGED <<next_envelope, emitted>>
    <2>1. BlocksInOrder'
      BY <1>6 DEF WriteOrder, BlocksInOrder, InBlockOrder
    <2>2. pc' \notin Returned => pc \notin Returned
      BY Effects
    <2>3. ASSUME NEW return \in {"append", "finish_envelopes"}, Seal(return)
          PROVE  WrittenUpToNext'
      <3>1. PICK object \in PayloadObjects :
              /\ payload_objects' = Append(payload_objects, object)
              /\ object.extent.first = next_block
        BY <2>3, SealEffect
      <3>2. Len(payload_objects') = Len(payload_objects) + 1
        BY <1>1, <3>1, AppendProperties
      <3>3. \A k \in 0 .. Len(payload_objects) :
              first_block(payload_objects', next_block', k)
                = first_block(payload_objects, next_block, k)
        BY <1>1, <3>1, FirstBlockStays
      <3>4. next_envelope <= Len(payload_objects) => next_envelope \in 0 .. Len(payload_objects)
        BY <1>1
      <3> QED  BY <1>1, <1>6, <2>2, <3>2, <3>3, <3>4 DEF WriteOrder, WrittenUpToNext
    <2>4. ASSUME UNCHANGED <<payload_objects, next_block>>
          PROVE  WrittenUpToNext'
      BY <1>6, <2>2, <2>4 DEF WriteOrder, WrittenUpToNext
    <2>5. \/ Seal("append") \/ Seal("finish_envelopes")
          \/ UNCHANGED <<payload_objects, next_block>>
      BY Effects DEF AppendFrame
    <2> QED  BY <2>1, <2>3, <2>4, <2>5
  <1> QED  BY <1>4, <1>5, <1>6, Effects

-----------------------------------------------------------------------------
(***************************************************************************)
(* The theorems                                                            *)
(***************************************************************************)

\* The invariant holds when write_ordered_parallel_stream_archive_to_sink starts.
LEMMA InitInv == Init => TypeOK /\ WriteOrder
  <1> SUFFICES ASSUME Init PROVE TypeOK /\ WriteOrder
    OBVIOUS
  <1>1. TypeOK
    BY DEF Init, TypeOK, NoInput, NoFrameJob, FrameJobs, NoEnvelopeJob, EnvelopeJobs,
           Extents, EmptyEnvelope, Worker, WorkerStates
  <1>2. WriteOrder
    BY DEF Init, WriteOrder, NothingBeforeMembers, EmptyEnvelope, EnvelopeFits,
           LaidOutInOrder, first_block, InFlightAsIndexed, envelope_in_hand, Worker,
           WrittenUpToNext, BlocksInOrder, InBlockOrder
  <1> QED  BY <1>1, <1>2

\* The inductive invariant of the parallel writer: types, and the order in which
\* objects are laid out, travel through the workers and are written.
THEOREM WriteOrderAlways == Spec => [](TypeOK /\ WriteOrder)
  <1>1. Init => TypeOK /\ WriteOrder
    BY InitInv
  <1>2. TypeOK /\ WriteOrder /\ [Next]_vars => (TypeOK /\ WriteOrder)'
    <2> SUFFICES ASSUME TypeOK, WriteOrder, [Next]_vars
                 PROVE  TypeOK' /\ WriteOrder'
      OBVIOUS
    <2>1. TypeOK'
      BY TypeStep
    <2>2. NothingBeforeMembers'
      BY NothingStep DEF WriteOrder
    <2>3. (envelope.plaintext = <<>> => envelope.len = 0)' /\ EnvelopeFits'
      BY FitsStep DEF WriteOrder
    <2>4. LaidOutInOrder' /\ InFlightAsIndexed' /\ WrittenUpToNext' /\ BlocksInOrder'
      BY LayoutStep, InFlightStep, WrittenStep
    <2> QED  BY <2>1, <2>2, <2>3, <2>4 DEF WriteOrder
  <1> QED  BY <1>1, <1>2, PTL DEF Spec

\* Type correctness of the parallel writer.
THEOREM TypeCorrect == Spec => []TypeOK
  BY WriteOrderAlways, PTL

\* Whatever order the workers finish in, blocks are written in block order and
\* without a gap.
THEOREM BlocksAlwaysInOrder == Spec => []BlocksInOrder
  <1>1. WriteOrder => BlocksInOrder
    BY DEF WriteOrder
  <1> QED  BY <1>1, WriteOrderAlways, PTL

\* The envelope that flush_ordered_parallel_envelope seals always fits an object,
\* so its plan never fails.
THEOREM EnvelopeAlwaysFits == Spec => []EnvelopeFits
  <1>1. WriteOrder => EnvelopeFits
    BY DEF WriteOrder
  <1> QED  BY <1>1, WriteOrderAlways, PTL

-----------------------------------------------------------------------------
(***************************************************************************)
(* Where the main thread is                                                *)
(***************************************************************************)

running == pc \notin Returned

\* In flush_ordered_parallel_envelope.
flushing ==
    pc = "seal" \/ (pc \in {"collect", "emit"} /\ emit_return # "finish_envelopes")

\* In append_ordered_frame_result, or in receive_ordered_frame_result around it.
appending == pc = "append" \/ (flushing /\ flush_return = "append")
receiving == pc = "receive" \/ appending

\* All frames are packed, and then all envelopes are sealed.
awaiting ==
    \/ pc \in {"finish_envelopes", "join"}
    \/ pc \in {"collect", "emit"} /\ emit_return = "finish_envelopes"
finishing == awaiting \/ (flushing /\ flush_return = "finish_envelopes")

frame_in_hand == pc = "send" \/ (receiving /\ frame_return = "send")

\* What the main thread knows where it is: which senders it holds, what it has
\* seen the end of, and that it has looked at everything that came back.
KnowsFrames ==
    /\ pc \in {"member", "read", "send"} => "frame" \in senders
    /\ receiving /\ frame_return # "finish_frames" => "frame" \in senders
    /\ finishing => next_frame.result = next_frame.job
    /\ pc = "receive" /\ frame_return = "finish_frames"
          => next_frame.result < next_frame.job
    /\ running /\ ~appending => next_results = {}

KnowsEnvelopes ==
    /\ running /\ ~awaiting => "envelope" \in senders
    /\ pc = "collect" /\ emit_return = "finish_envelopes"
          => next_envelope < envelope.index
    /\ pc = "join" => next_envelope = envelope.index
    /\ running /\ pc # "emit" => next_sealed = {}

-----------------------------------------------------------------------------
(***************************************************************************)
(* Pools                                                                   *)
(***************************************************************************)

\* A pool: the number each worker holds (or Nothing), the results on their way
\* back, the numbers of the buffered results, the number that is consumed next
\* and the number that is queued first.
Nothing == -1
Pools(W) == [held : [W -> Nat \cup {Nothing}], results : Seq([id : Nat, ok : BOOLEAN]),
             buffered : SUBSET Nat, next : Nat, queued : Nat]

\* Every number is in at most one place.
Apart(W, p) ==
    /\ \A v, w \in W : p.held[v] # Nothing /\ p.held[v] = p.held[w] => v = w
    /\ \A i, j \in 1 .. Len(p.results) : p.results[i].id = p.results[j].id => i = j
    /\ \A w \in W : \A i \in 1 .. Len(p.results) : p.held[w] # p.results[i].id
    /\ \A w \in W : \A k \in p.buffered : p.held[w] # k
    /\ \A i \in 1 .. Len(p.results) : p.results[i].id \notin p.buffered

\* A number out with the workers, or on its way back.
InRange(p, k) == p.next <= k /\ k < p.queued

Ranged(W, p) ==
    /\ p.next <= p.queued
    /\ \A w \in W : p.held[w] # Nothing => InRange(p, p.held[w])
    /\ \A i \in 1 .. Len(p.results) : InRange(p, p.results[i].id)
    /\ \A k \in p.buffered : InRange(p, k)

\* A number that will still come back, or has.
Live(W, p, k) ==
    \/ \E w \in W : p.held[w] = k
    \/ \E i \in 1 .. Len(p.results) : p.results[i].id = k /\ p.results[i].ok
    \/ k \in p.buffered

AllLive(W, p) == \A k \in Nat : InRange(p, k) => Live(W, p, k)
Spoilt(W, p) == \E k \in Nat : InRange(p, k) /\ ~Live(W, p, k)

\* The steps of a pool.
Takes(W, p, q) ==
    /\ \E w \in W : /\ p.held[w] = Nothing
                    /\ q.held = [p.held EXCEPT ![w] = p.queued]
    /\ q.queued = p.queued + 1
    /\ q.results = p.results /\ q.buffered = p.buffered /\ q.next = p.next
Gives(W, p, q, ok) ==
    /\ \E w \in W : /\ p.held[w] # Nothing
                    /\ q.held = [p.held EXCEPT ![w] = Nothing]
                    /\ q.results = Append(p.results, [id |-> p.held[w], ok |-> ok])
    /\ q.buffered = p.buffered /\ q.next = p.next /\ q.queued = p.queued
Loses(W, p, q) ==
    /\ \E w \in W : p.held[w] # Nothing /\ q.held = [p.held EXCEPT ![w] = Nothing]
    /\ q.results = p.results /\ q.buffered = p.buffered
    /\ q.next = p.next /\ q.queued = p.queued
Receives(p, q) ==
    /\ p.results # <<>> /\ p.results[1].ok
    /\ q.results = Tail(p.results)
    /\ q.buffered = p.buffered \cup {p.results[1].id}
    /\ q.held = p.held /\ q.next = p.next /\ q.queued = p.queued
Consumes(p, q) ==
    /\ p.next \in p.buffered
    /\ q.buffered = p.buffered \ {p.next} /\ q.next = p.next + 1
    /\ q.held = p.held /\ q.results = p.results /\ q.queued = p.queued

\* A step that loses nothing, and one that loses a number.
Keeps(W, p, q) ==
    q = p \/ Takes(W, p, q) \/ Gives(W, p, q, TRUE) \/ Receives(p, q) \/ Consumes(p, q)
Drops(W, p, q) == Gives(W, p, q, FALSE) \/ Loses(W, p, q)

\* A step after or at an error return, when the main thread's ends are gone:
\* the worker's hand, the channel or the buffer loses a number, or the job in
\* the main thread's hand is dropped.
Wastes(W, p, q) ==
    /\ \/ q.held = p.held
       \/ \E w \in W : q.held = [p.held EXCEPT ![w] = Nothing]
       \/ \E w \in W : /\ p.held[w] = Nothing /\ q.queued > p.queued
                       /\ q.held = [p.held EXCEPT ![w] = p.queued]
    /\ q.results = p.results \/ (p.results # <<>> /\ q.results = Tail(p.results))
    /\ q.buffered \subseteq p.buffered
    /\ q.next = p.next /\ q.queued >= p.queued

-----------------------------------------------------------------------------
(***************************************************************************)
(* The two pipelines                                                       *)
(***************************************************************************)

\* The jobs in the channel are numbered in order, and the one in the main
\* thread's hand or the one that comes next follows.
FramesQueued ==
    /\ \A i \in 1 .. Len(frame_jobs) - 1 : frame_jobs[i + 1].frame = frame_jobs[i].frame + 1
    /\ \A i \in 1 .. Len(frame_jobs) : frame_jobs[i].frame < next_frame.job
    /\ frame_in_hand => frame_job.frame = next_frame.job - 1
    /\ running /\ frame_jobs # <<>> =>
          frame_jobs[Len(frame_jobs)].frame
            = (IF frame_in_hand THEN frame_job.frame ELSE next_frame.job) - 1

EnvelopesQueued ==
    /\ \A i \in 1 .. Len(envelope_jobs) - 1 :
          envelope_jobs[i + 1].index = envelope_jobs[i].index + 1
    /\ \A i \in 1 .. Len(envelope_jobs) : envelope_jobs[i].index < envelope.index
    /\ envelope_in_hand => envelope_job.index = envelope.index - 1
    /\ running /\ envelope_jobs # <<>> =>
          envelope_jobs[Len(envelope_jobs)].index
            = (IF envelope_in_hand THEN envelope_job.index ELSE envelope.index) - 1

\* The first queued number of each pipeline.
frame_queued ==
    IF frame_jobs # <<>> THEN frame_jobs[1].frame
    ELSE IF frame_in_hand THEN frame_job.frame ELSE next_frame.job
envelope_queued ==
    IF envelope_jobs # <<>> THEN envelope_jobs[1].index
    ELSE IF envelope_in_hand THEN envelope_job.index ELSE envelope.index

FramePool ==
    [held |-> [w \in FrameWorkers |->
        IF frame_worker[w].state = "busy" THEN frame_worker[w].job.frame ELSE Nothing],
     results |-> [i \in 1 .. Len(frame_results) |->
        [id |-> frame_results[i].value.job.frame, ok |-> frame_results[i].ok]],
     buffered |-> {r.job.frame : r \in frame_buffer},
     next |-> next_frame.result,
     queued |-> frame_queued]

EnvelopePool ==
    [held |-> [w \in EnvelopeWorkers |->
        IF envelope_worker[w].state = "busy" THEN envelope_worker[w].job.index ELSE Nothing],
     results |-> [i \in 1 .. Len(envelope_results) |->
        [id |-> envelope_results[i].value.index, ok |-> envelope_results[i].ok]],
     buffered |-> {e.index : e \in envelope_buffer},
     next |-> next_envelope,
     queued |-> envelope_queued]

\* A number is in one place of its pipeline.
FramesOnce ==
    /\ FramesQueued
    /\ Apart(FrameWorkers, FramePool) /\ Ranged(FrameWorkers, FramePool)
    /\ \A r, s \in frame_buffer : r.job.frame = s.job.frame => r = s

EnvelopesOnce ==
    /\ EnvelopesQueued
    /\ Apart(EnvelopeWorkers, EnvelopePool) /\ Ranged(EnvelopeWorkers, EnvelopePool)
    /\ \A d, e \in envelope_buffer : d.index = e.index => d = e

-----------------------------------------------------------------------------
(***************************************************************************)
(* Faults                                                                  *)
(***************************************************************************)

\* Without a fault a worker neither fails nor panics, and it stops only when
\* its job sender is dropped and the job channel is empty.
FaultlessWorkers ==
    faults = {} =>
        /\ \A w \in FrameWorkers : frame_worker[w].state # "panicked"
        /\ \A w \in EnvelopeWorkers : envelope_worker[w].state # "panicked"
        /\ \A i \in 1 .. Len(frame_results) : frame_results[i].ok
        /\ \A i \in 1 .. Len(envelope_results) : envelope_results[i].ok
        /\ running /\ (\E w \in FrameWorkers : frame_worker[w].state \in Gone)
              => "frame" \notin senders /\ frame_jobs = <<>>
        /\ running /\ (\E w \in EnvelopeWorkers : envelope_worker[w].state \in Gone)
              => "envelope" \notin senders /\ envelope_jobs = <<>>

\* While the writer runs, it has had a fault exactly if a number is missing.
FaultsShow ==
    running =>
        /\ faults = {} => /\ AllLive(FrameWorkers, FramePool)
                          /\ AllLive(EnvelopeWorkers, EnvelopePool)
        /\ faults # {} => \/ Spoilt(FrameWorkers, FramePool)
                          \/ Spoilt(EnvelopeWorkers, EnvelopePool)

\* After a return every worker is gone, and a failure has a cause.
Ended ==
    /\ pc \in Terminal => frames_gone /\ envelopes_gone
    /\ pc = "ok" => /\ faults = {}
                    /\ next_frame.result = next_frame.job
                    /\ next_envelope = envelope.index
    /\ pc \in {"unwind", "err", "panic"} =>
          \/ faults # {}
          \/ \E r \in frame_buffer : ~payload_object_can_fit(Options, r.len)

CompletionInv ==
    /\ TypeOK /\ WriteOrder
    /\ KnowsFrames /\ KnowsEnvelopes
    /\ FramesOnce /\ EnvelopesOnce
    /\ FaultlessWorkers /\ FaultsShow /\ Ended


-----------------------------------------------------------------------------
(***************************************************************************)
(* What a step does to a pool                                              *)
(***************************************************************************)

\* The first result of a channel, and those after it.
LEMMA TailOf ==
    ASSUME NEW S, NEW s \in Seq(S), s # <<>>
    PROVE  /\ Len(s) \in Nat /\ Len(s) >= 1
           /\ Tail(s) \in Seq(S) /\ Len(Tail(s)) = Len(s) - 1
           /\ \A i \in 1 .. Len(Tail(s)) : Tail(s)[i] = s[i + 1]
           /\ Head(s) = s[1] /\ s[1] \in S
  BY HeadTailProperties, EmptySeq

\* The results of a channel to which one is added.
LEMMA AppendOf ==
    ASSUME NEW S, NEW s \in Seq(S), NEW x \in S
    PROVE  /\ Len(s) \in Nat
           /\ Append(s, x) \in Seq(S) /\ Len(Append(s, x)) = Len(s) + 1
           /\ \A i \in 1 .. Len(s) : Append(s, x)[i] = s[i]
           /\ Append(s, x)[Len(s) + 1] = x
  BY AppendProperties, LenProperties

\* Results carry numbers.
LEMMA ResultIds ==
    ASSUME NEW s \in Seq([id : Nat, ok : BOOLEAN])
    PROVE  \A i \in 1 .. Len(s) : s[i].id \in Nat
  <1>1. \A i \in 1 .. Len(s) : s[i] \in [id : Nat, ok : BOOLEAN]
    BY ElementOfSeq
  <1> QED  BY <1>1

\* A worker takes the number that is queued first: it was nowhere in the pool.
LEMMA TakesOnce ==
    ASSUME NEW W, NEW p \in Pools(W), NEW q \in Pools(W),
           Apart(W, p), Ranged(W, p), Takes(W, p, q)
    PROVE  /\ Apart(W, q) /\ Ranged(W, q)
           /\ AllLive(W, p) => AllLive(W, q)
           /\ Spoilt(W, p) => Spoilt(W, q)
  <1>1. PICK w \in W : p.held[w] = Nothing /\ q.held = [p.held EXCEPT ![w] = p.queued]
    BY DEF Takes
  <1>2. /\ q.queued = p.queued + 1 /\ q.next = p.next
        /\ q.results = p.results /\ q.buffered = p.buffered
    BY DEF Takes
  <1>3. /\ p.held \in [W -> Nat \cup {Nothing}] /\ p.next \in Nat /\ p.queued \in Nat
        /\ p.buffered \subseteq Nat
        /\ p.results \in Seq([id : Nat, ok : BOOLEAN])
    BY DEF Pools
  <1>4. /\ q.held[w] = p.queued
        /\ \A v \in W : v # w => q.held[v] = p.held[v]
    BY <1>1, <1>3
  <1>5. \A k : InRange(p, k) => k # p.queued
    BY <1>3 DEF InRange
  <1>6. p.queued # Nothing
    BY <1>3 DEF Nothing
  <1>7. /\ \A v \in W : p.held[v] # p.queued
        /\ \A i \in 1 .. Len(p.results) : p.results[i].id # p.queued
        /\ p.queued \notin p.buffered
    BY <1>5, <1>6 DEF Ranged
  <1>8. Apart(W, q)
    BY <1>2, <1>4, <1>7 DEF Apart
  <1>9. \A k \in Nat : InRange(q, k) <=> InRange(p, k) \/ k = p.queued
    <2>1. p.next <= p.queued
      BY DEF Ranged
    <2> QED  BY <1>2, <1>3, <2>1 DEF InRange
  <1>10. Ranged(W, q)
    <2>1. q.next <= q.queued
      BY <1>2, <1>3 DEF Ranged
    <2>2. \A v \in W : q.held[v] # Nothing => InRange(q, q.held[v])
      BY <1>3, <1>4, <1>9 DEF Ranged
    <2>3. \A i \in 1 .. Len(q.results) : InRange(q, q.results[i].id)
      <3>1. \A i \in 1 .. Len(p.results) : p.results[i].id \in Nat
        BY <1>3, ResultIds
      <3> QED  BY <1>2, <1>9, <3>1 DEF Ranged
    <2>4. \A k \in q.buffered : InRange(q, k)
      BY <1>2, <1>3, <1>9 DEF Ranged
    <2> QED  BY <2>1, <2>2, <2>3, <2>4 DEF Ranged
  <1>11. \A k \in Nat : Live(W, q, k) <=> Live(W, p, k) \/ k = p.queued
    <2> TAKE k \in Nat
    <2>1. (\E v \in W : q.held[v] = k) <=> (\E v \in W : p.held[v] = k) \/ k = p.queued
      <3>1. k # Nothing
        BY DEF Nothing
      <3> QED  BY <1>1, <1>4, <3>1
    <2> QED  BY <1>2, <2>1 DEF Live
  <1>12. AllLive(W, p) => AllLive(W, q)
    BY <1>9, <1>11 DEF AllLive
  <1>13. Spoilt(W, p) => Spoilt(W, q)
    BY <1>5, <1>9, <1>11 DEF Spoilt
  <1> QED  BY <1>8, <1>10, <1>12, <1>13

\* A worker delivers what it holds: a result, good or bad, of the same number.
LEMMA GivesOnce ==
    ASSUME NEW W, NEW p \in Pools(W), NEW q \in Pools(W), NEW ok \in BOOLEAN,
           Apart(W, p), Ranged(W, p), Gives(W, p, q, ok)
    PROVE  /\ Apart(W, q) /\ Ranged(W, q)
           /\ ok /\ AllLive(W, p) => AllLive(W, q)
           /\ Spoilt(W, p) => Spoilt(W, q)
           /\ ~ok => Spoilt(W, q)
  <1>1. PICK w \in W : /\ p.held[w] # Nothing
                       /\ q.held = [p.held EXCEPT ![w] = Nothing]
                       /\ q.results = Append(p.results, [id |-> p.held[w], ok |-> ok])
    BY DEF Gives
  <1>2. /\ q.queued = p.queued /\ q.next = p.next /\ q.buffered = p.buffered
    BY DEF Gives
  <1>3. /\ p.held \in [W -> Nat \cup {Nothing}] /\ p.next \in Nat /\ p.queued \in Nat
        /\ p.buffered \subseteq Nat
        /\ p.results \in Seq([id : Nat, ok : BOOLEAN])
    BY DEF Pools
  <1>4. /\ q.held[w] = Nothing
        /\ \A v \in W : v # w => q.held[v] = p.held[v]
    BY <1>1, <1>3
  <1> DEFINE n == Len(p.results)
             x == [id |-> p.held[w], ok |-> ok]
  <1>5. x \in [id : Nat, ok : BOOLEAN] /\ x.id = p.held[w] /\ x.ok = ok /\ p.held[w] \in Nat
    BY <1>1, <1>3
  <1>6. /\ n \in Nat /\ Len(q.results) = n + 1
        /\ \A i \in 1 .. n : q.results[i] = p.results[i]
        /\ q.results[n + 1] = x
    <2>1. q.results = Append(p.results, x)
      BY <1>1
    <2> HIDE DEF x
    <2> QED  BY <1>3, <1>5, <2>1, AppendOf
  <1>7. \A i \in 1 .. Len(q.results) :
          \/ i \in 1 .. n /\ q.results[i] = p.results[i]
          \/ i = n + 1 /\ q.results[i].id = p.held[w] /\ q.results[i].ok = ok
    BY <1>5, <1>6
  <1> HIDE DEF n, x
  <1>8. \A i \in 1 .. n : p.results[i].id \in Nat
    BY <1>3, ResultIds DEF n
  <1>9. Apart(W, q)
    <2>1. \A u, v \in W : q.held[u] # Nothing /\ q.held[u] = q.held[v] => u = v
      BY <1>4 DEF Apart
    <2>2. \A i, j \in 1 .. Len(q.results) : q.results[i].id = q.results[j].id => i = j
      BY <1>7 DEF Apart, n
    <2>3. \A v \in W : \A i \in 1 .. Len(q.results) : q.held[v] # q.results[i].id
      <3> SUFFICES ASSUME NEW v \in W, NEW i \in 1 .. Len(q.results)
                   PROVE  q.held[v] # q.results[i].id
        OBVIOUS
      <3>1. CASE v = w
        BY <1>4, <1>5, <1>7, <1>8, <3>1 DEF Nothing
      <3>2. CASE v # w
        BY <1>1, <1>4, <1>7, <3>2 DEF Apart, n
      <3> QED  BY <3>1, <3>2
    <2>4. \A v \in W : \A k \in q.buffered : q.held[v] # k
      <3>1. \A k \in p.buffered : k # Nothing
        BY <1>3 DEF Nothing
      <3> QED  BY <1>2, <1>4, <3>1 DEF Apart
    <2>5. \A i \in 1 .. Len(q.results) : q.results[i].id \notin q.buffered
      BY <1>2, <1>7 DEF Apart, n
    <2> QED  BY <2>1, <2>2, <2>3, <2>4, <2>5 DEF Apart
  <1>10. \A k : InRange(q, k) <=> InRange(p, k)
    BY <1>2 DEF InRange
  <1>11. Ranged(W, q)
    <2>1. q.next <= q.queued
      BY <1>2 DEF Ranged
    <2>2. \A v \in W : q.held[v] # Nothing => InRange(q, q.held[v])
      BY <1>4, <1>10 DEF Ranged
    <2>3. \A i \in 1 .. Len(q.results) : InRange(q, q.results[i].id)
      BY <1>1, <1>7, <1>10 DEF Ranged, n
    <2>4. \A k \in q.buffered : InRange(q, k)
      BY <1>2, <1>10 DEF Ranged
    <2> QED  BY <2>1, <2>2, <2>3, <2>4 DEF Ranged
  <1>12. \A k \in Nat : Live(W, q, k) <=> Live(W, p, k) /\ (ok \/ k # p.held[w])
    <2> TAKE k \in Nat
    <2>0. k # Nothing
      BY DEF Nothing
    <2>1. (\E v \in W : q.held[v] = k) <=> (\E v \in W : p.held[v] = k) /\ k # p.held[w]
      BY <1>1, <1>4, <2>0 DEF Apart
    <2>2. (\E i \in 1 .. Len(q.results) : q.results[i].id = k /\ q.results[i].ok)
            <=> \/ \E i \in 1 .. n : p.results[i].id = k /\ p.results[i].ok
                \/ k = p.held[w] /\ ok
      <3>1. n + 1 \in 1 .. Len(q.results) /\ \A i \in 1 .. n : i \in 1 .. Len(q.results)
        BY <1>6
      <3>2. q.results[n + 1].id = p.held[w] /\ q.results[n + 1].ok = ok
        BY <1>5, <1>6
      <3> QED  BY <1>6, <1>7, <3>1, <3>2
    <2>3. k = p.held[w] => /\ k \notin p.buffered
                           /\ ~\E i \in 1 .. n : p.results[i].id = k
      BY DEF Apart, n
    <2> QED  BY <1>2, <2>1, <2>2, <2>3 DEF Live, n
  <1>13. ok /\ AllLive(W, p) => AllLive(W, q)
    BY <1>10, <1>12 DEF AllLive
  <1>14. Spoilt(W, p) => Spoilt(W, q)
    BY <1>10, <1>12 DEF Spoilt
  <1>15. ~ok => Spoilt(W, q)
    <2>1. InRange(q, p.held[w])
      BY <1>1, <1>10 DEF Ranged
    <2> QED  BY <1>5, <1>12, <2>1 DEF Spoilt
  <1> QED  BY <1>9, <1>11, <1>13, <1>14, <1>15

\* A worker loses what it holds.
LEMMA LosesOnce ==
    ASSUME NEW W, NEW p \in Pools(W), NEW q \in Pools(W),
           Apart(W, p), Ranged(W, p), Loses(W, p, q)
    PROVE  Apart(W, q) /\ Ranged(W, q) /\ Spoilt(W, q)
  <1>1. PICK w \in W : p.held[w] # Nothing /\ q.held = [p.held EXCEPT ![w] = Nothing]
    BY DEF Loses
  <1>2. /\ q.queued = p.queued /\ q.next = p.next
        /\ q.buffered = p.buffered /\ q.results = p.results
    BY DEF Loses
  <1>3. /\ p.held \in [W -> Nat \cup {Nothing}] /\ p.buffered \subseteq Nat
        /\ p.results \in Seq([id : Nat, ok : BOOLEAN])
    BY DEF Pools
  <1>4. /\ q.held[w] = Nothing
        /\ \A v \in W : v # w => q.held[v] = p.held[v]
    BY <1>1, <1>3
  <1>5. /\ \A i \in 1 .. Len(p.results) : p.results[i].id # Nothing
        /\ \A k \in p.buffered : k # Nothing
    BY <1>3, ResultIds DEF Nothing
  <1>6. Apart(W, q)
    BY <1>2, <1>4, <1>5 DEF Apart
  <1>7. Ranged(W, q)
    BY <1>2, <1>4 DEF Ranged, InRange
  <1>8. p.held[w] \in Nat /\ InRange(q, p.held[w])
    BY <1>1, <1>2, <1>3 DEF Ranged, InRange
  <1>9. ~Live(W, q, p.held[w])
    BY <1>1, <1>2, <1>4 DEF Live, Apart
  <1> QED  BY <1>6, <1>7, <1>8, <1>9 DEF Spoilt

\* The main thread moves a good result into the buffer.
LEMMA ReceivesOnce ==
    ASSUME NEW W, NEW p \in Pools(W), NEW q \in Pools(W),
           Apart(W, p), Ranged(W, p), Receives(p, q)
    PROVE  /\ Apart(W, q) /\ Ranged(W, q)
           /\ AllLive(W, p) => AllLive(W, q)
           /\ Spoilt(W, p) => Spoilt(W, q)
  <1>1. /\ p.results # <<>> /\ p.results[1].ok
        /\ q.results = Tail(p.results)
        /\ q.buffered = p.buffered \cup {p.results[1].id}
        /\ q.held = p.held /\ q.next = p.next /\ q.queued = p.queued
    BY DEF Receives
  <1>2. p.results \in Seq([id : Nat, ok : BOOLEAN])
    BY DEF Pools
  <1> DEFINE n == Len(p.results)
  <1>3. /\ n \in Nat /\ n >= 1 /\ Len(q.results) = n - 1
        /\ \A i \in 1 .. Len(q.results) : q.results[i] = p.results[i + 1]
    BY <1>1, <1>2, TailOf
  <1>4. /\ 1 \in 1 .. n
        /\ \A i \in 1 .. Len(q.results) : i + 1 \in 1 .. n /\ i + 1 # 1
        /\ \A i \in 1 .. n : i # 1 => i - 1 \in 1 .. Len(q.results) /\ (i - 1) + 1 = i
        /\ \A i, j \in 1 .. Len(q.results) : i + 1 = j + 1 => i = j
    BY <1>3
  <1>5. \A k : InRange(q, k) <=> InRange(p, k)
    BY <1>1 DEF InRange
  <1> HIDE DEF n
  <1>6. Apart(W, q)
    <2>1. \A u, v \in W : q.held[u] # Nothing /\ q.held[u] = q.held[v] => u = v
      BY <1>1 DEF Apart
    <2>2. \A i, j \in 1 .. Len(q.results) : q.results[i].id = q.results[j].id => i = j
      BY <1>3, <1>4, SMTT(40) DEF Apart, n
    <2>3. \A v \in W : \A i \in 1 .. Len(q.results) : q.held[v] # q.results[i].id
      BY <1>1, <1>3, <1>4 DEF Apart, n
    <2>4. \A v \in W : \A k \in q.buffered : q.held[v] # k
      BY <1>1, <1>4 DEF Apart, n
    <2>5. \A i \in 1 .. Len(q.results) : q.results[i].id \notin q.buffered
      BY <1>1, <1>3, <1>4 DEF Apart, n
    <2> QED  BY <2>1, <2>2, <2>3, <2>4, <2>5 DEF Apart
  <1>7. Ranged(W, q)
    <2>1. q.next <= q.queued /\ \A v \in W : q.held[v] # Nothing => InRange(q, q.held[v])
      BY <1>1, <1>5 DEF Ranged
    <2>2. \A i \in 1 .. Len(q.results) : InRange(q, q.results[i].id)
      BY <1>3, <1>4, <1>5 DEF Ranged, n
    <2>3. \A k \in q.buffered : InRange(q, k)
      BY <1>1, <1>4, <1>5 DEF Ranged, n
    <2> QED  BY <2>1, <2>2, <2>3 DEF Ranged
  <1>8. \A k \in Nat : Live(W, q, k) <=> Live(W, p, k)
    <2> TAKE k \in Nat
    <2>1. (\E i \in 1 .. n : p.results[i].id = k /\ p.results[i].ok)
            <=> \/ \E i \in 1 .. Len(q.results) : q.results[i].id = k /\ q.results[i].ok
                \/ k = p.results[1].id
      <3>1. ASSUME NEW i \in 1 .. n, p.results[i].id = k, p.results[i].ok, i # 1
            PROVE  \E j \in 1 .. Len(q.results) : q.results[j].id = k /\ q.results[j].ok
        <4>1. i - 1 \in 1 .. Len(q.results) /\ q.results[i - 1] = p.results[i]
          BY <1>3, <1>4, <3>1
        <4> QED  BY <3>1, <4>1
      <3>2. ASSUME NEW i \in 1 .. Len(q.results), q.results[i].id = k, q.results[i].ok
            PROVE  \E j \in 1 .. n : p.results[j].id = k /\ p.results[j].ok
        BY <1>3, <1>4, <3>2
      <3>3. k = p.results[1].id => \E j \in 1 .. n : p.results[j].id = k /\ p.results[j].ok
        BY <1>1, <1>4
      <3> QED  BY <3>1, <3>2, <3>3
    <2> QED  BY <1>1, <2>1 DEF Live, n
  <1>9. AllLive(W, p) => AllLive(W, q)
    BY <1>5, <1>8 DEF AllLive
  <1>10. Spoilt(W, p) => Spoilt(W, q)
    BY <1>5, <1>8 DEF Spoilt
  <1> QED  BY <1>6, <1>7, <1>9, <1>10

\* The main thread consumes the number whose turn it is.
LEMMA ConsumesOnce ==
    ASSUME NEW W, NEW p \in Pools(W), NEW q \in Pools(W),
           Apart(W, p), Ranged(W, p), Consumes(p, q)
    PROVE  /\ Apart(W, q) /\ Ranged(W, q)
           /\ AllLive(W, p) => AllLive(W, q)
           /\ Spoilt(W, p) => Spoilt(W, q)
  <1>1. /\ p.next \in p.buffered
        /\ q.buffered = p.buffered \ {p.next} /\ q.next = p.next + 1
        /\ q.held = p.held /\ q.results = p.results /\ q.queued = p.queued
    BY DEF Consumes
  <1>2. /\ p.held \in [W -> Nat \cup {Nothing}] /\ p.next \in Nat /\ p.queued \in Nat
        /\ p.buffered \subseteq Nat
        /\ p.results \in Seq([id : Nat, ok : BOOLEAN])
    BY DEF Pools
  <1>3. \A k \in Nat : InRange(q, k) <=> InRange(p, k) /\ k # p.next
    BY <1>1, <1>2 DEF InRange
  <1>4. Apart(W, q)
    BY <1>1 DEF Apart
  <1>5. Ranged(W, q)
    <2>1. q.next <= q.queued
      BY <1>1, <1>2 DEF Ranged, InRange
    <2>2. \A v \in W : q.held[v] # Nothing => InRange(q, q.held[v])
      BY <1>1, <1>2, <1>3 DEF Ranged, Apart
    <2>3. \A i \in 1 .. Len(q.results) : InRange(q, q.results[i].id)
      <3>1. \A i \in 1 .. Len(p.results) : p.results[i].id \in Nat
        BY <1>2, ResultIds
      <3> QED  BY <1>1, <1>3, <3>1 DEF Ranged, Apart
    <2>4. \A k \in q.buffered : InRange(q, k)
      BY <1>1, <1>2, <1>3 DEF Ranged
    <2> QED  BY <2>1, <2>2, <2>3, <2>4 DEF Ranged
  <1>6. \A k \in Nat : k # p.next => (Live(W, q, k) <=> Live(W, p, k))
    BY <1>1 DEF Live
  <1>7. AllLive(W, p) => AllLive(W, q)
    BY <1>3, <1>6 DEF AllLive
  <1>8. Spoilt(W, p) => Spoilt(W, q)
    <2>1. Live(W, p, p.next)
      BY <1>1 DEF Live
    <2> QED  BY <1>3, <1>6, <2>1 DEF Spoilt
  <1> QED  BY <1>4, <1>5, <1>7, <1>8

\* After an error return numbers only get lost.
LEMMA WastesOnce ==
    ASSUME NEW W, NEW p \in Pools(W), NEW q \in Pools(W),
           Apart(W, p), Ranged(W, p), Wastes(W, p, q)
    PROVE  Apart(W, q) /\ Ranged(W, q)
  <1>1. /\ p.held \in [W -> Nat \cup {Nothing}] /\ p.next \in Nat /\ p.queued \in Nat
        /\ p.buffered \subseteq Nat /\ q.queued \in Nat
        /\ p.results \in Seq([id : Nat, ok : BOOLEAN])
    BY DEF Pools
  <1>2. q.buffered \subseteq p.buffered /\ q.next = p.next /\ q.queued >= p.queued
    BY DEF Wastes
  <1>3. \A v \in W : \/ q.held[v] = p.held[v] \/ q.held[v] = Nothing
                     \/ q.held[v] = p.queued /\ q.queued > p.queued
    BY <1>1 DEF Wastes
  <1>4. \A u, v \in W : q.held[u] = p.queued /\ q.held[v] = p.queued => u = v
    <2>1. \A v \in W : p.held[v] # p.queued
      BY <1>1 DEF Ranged, InRange, Nothing
    <2>2. p.queued # Nothing
      BY <1>1 DEF Nothing
    <2> QED  BY <1>1, <2>1, <2>2 DEF Wastes
  <1>5. PICK d \in {0, 1} :
          /\ Len(q.results) = Len(p.results) - d
          /\ \A i \in 1 .. Len(q.results) : q.results[i] = p.results[i + d]
          /\ \A i \in 1 .. Len(q.results) : i + d \in 1 .. Len(p.results)
    <2>1. CASE q.results = p.results
      <3>1. Len(p.results) \in Nat
        BY <1>1
      <3>2. \A i \in 1 .. Len(p.results) : i + 0 = i
        BY <3>1
      <3> WITNESS 0 \in {0, 1}
      <3> QED  BY <2>1, <3>1, <3>2
    <2>2. CASE p.results # <<>> /\ q.results = Tail(p.results)
      <3>1. /\ Len(p.results) \in Nat /\ Len(q.results) = Len(p.results) - 1
            /\ \A i \in 1 .. Len(q.results) : q.results[i] = p.results[i + 1]
        BY <1>1, <2>2, TailOf
      <3>2. \A i \in 1 .. Len(q.results) : i + 1 \in 1 .. Len(p.results)
        BY <3>1
      <3> WITNESS 1 \in {0, 1}
      <3> QED  BY <3>1, <3>2
    <2> QED  BY <2>1, <2>2 DEF Wastes
  <1>6. \A i, j \in 1 .. Len(q.results) : i + d = j + d => i = j
    OBVIOUS
  <1>7. /\ \A i \in 1 .. Len(p.results) : p.results[i].id # p.queued /\ p.results[i].id # Nothing
        /\ \A k \in p.buffered : k # p.queued /\ k # Nothing
        /\ \A v \in W : p.held[v] # p.queued
        /\ p.queued # Nothing
    <2>1. \A i \in 1 .. Len(p.results) : p.results[i].id \in Nat
      BY <1>1, ResultIds
    <2> QED  BY <1>1, <2>1 DEF Ranged, InRange, Nothing
  <1>8. Apart(W, q)
    <2>1. \A u, v \in W : q.held[u] # Nothing /\ q.held[u] = q.held[v] => u = v
      BY <1>3, <1>4, <1>7 DEF Apart
    <2>2. \A i, j \in 1 .. Len(q.results) : q.results[i].id = q.results[j].id => i = j
      <3> SUFFICES ASSUME NEW i \in 1 .. Len(q.results), NEW j \in 1 .. Len(q.results),
                          q.results[i].id = q.results[j].id
                   PROVE  i = j
        OBVIOUS
      <3>1. /\ i + d \in 1 .. Len(p.results) /\ j + d \in 1 .. Len(p.results)
            /\ p.results[i + d].id = p.results[j + d].id
        BY <1>5
      <3>2. i + d = j + d
        BY <3>1 DEF Apart
      <3> QED  BY <1>6, <3>2
    <2>3. \A v \in W : \A i \in 1 .. Len(q.results) : q.held[v] # q.results[i].id
      BY <1>3, <1>5, <1>7 DEF Apart
    <2>4. \A v \in W : \A k \in q.buffered : q.held[v] # k
      BY <1>2, <1>3, <1>7 DEF Apart
    <2>5. \A i \in 1 .. Len(q.results) : q.results[i].id \notin q.buffered
      BY <1>2, <1>5 DEF Apart
    <2> QED  BY <2>1, <2>2, <2>3, <2>4, <2>5 DEF Apart
  <1>9. \A k \in Nat : InRange(p, k) => InRange(q, k)
    BY <1>1, <1>2 DEF InRange
  <1>10. Ranged(W, q)
    <2>1. q.next <= q.queued
      BY <1>1, <1>2 DEF Ranged
    <2>2. \A v \in W : q.held[v] # Nothing => InRange(q, q.held[v])
      <3>1. p.queued < q.queued => InRange(q, p.queued)
        BY <1>1, <1>2 DEF Ranged, InRange
      <3> QED  BY <1>1, <1>3, <1>9, <3>1 DEF Ranged
    <2>3. \A i \in 1 .. Len(q.results) : InRange(q, q.results[i].id)
      <3>1. \A i \in 1 .. Len(p.results) : p.results[i].id \in Nat
        BY <1>1, ResultIds
      <3> QED  BY <1>5, <1>9, <3>1 DEF Ranged
    <2>4. \A k \in q.buffered : InRange(q, k)
      BY <1>1, <1>2, <1>9 DEF Ranged
    <2> QED  BY <2>1, <2>2, <2>3, <2>4 DEF Ranged
  <1> QED  BY <1>8, <1>10

\* So a number stays in one place; a step that drops nothing loses nothing, one
\* that drops a number leaves it missing, and a missing number stays missing.
LEMMA PoolStep ==
    ASSUME NEW W, NEW p \in Pools(W), NEW q \in Pools(W), Apart(W, p), Ranged(W, p),
           Keeps(W, p, q) \/ Drops(W, p, q) \/ Wastes(W, p, q)
    PROVE  /\ Apart(W, q) /\ Ranged(W, q)
           /\ Keeps(W, p, q) => /\ AllLive(W, p) => AllLive(W, q)
                                /\ Spoilt(W, p) => Spoilt(W, q)
           /\ Drops(W, p, q) => Spoilt(W, q)
  <1>1. q = p => /\ Apart(W, q) /\ Ranged(W, q)
                 /\ AllLive(W, p) => AllLive(W, q)
                 /\ Spoilt(W, p) => Spoilt(W, q)
    OBVIOUS
  <1>2. ASSUME Keeps(W, p, q)
        PROVE  /\ Apart(W, q) /\ Ranged(W, q)
               /\ AllLive(W, p) => AllLive(W, q)
               /\ Spoilt(W, p) => Spoilt(W, q)
    BY <1>1, <1>2, TakesOnce, GivesOnce, ReceivesOnce, ConsumesOnce DEF Keeps
  <1>3. ASSUME Drops(W, p, q)
        PROVE  Apart(W, q) /\ Ranged(W, q) /\ Spoilt(W, q)
    BY <1>3, GivesOnce, LosesOnce DEF Drops
  <1>4. ASSUME Wastes(W, p, q) PROVE Apart(W, q) /\ Ranged(W, q)
    BY <1>4, WastesOnce
  <1> QED  BY <1>2, <1>3, <1>4

-----------------------------------------------------------------------------
(***************************************************************************)
(* Where the main thread goes                                              *)
(***************************************************************************)

USE DEF vars, returns, ordered, channels, reading, packing, sealing, sink,
        frame_side, envelope_side, Returned, Terminal

\* What moves the next frame to pack, the next frame to read and the frames
\* that came back.
LEMMA FrameEffects ==
    ASSUME TypeOK, [Next]_vars
    PROVE  /\ \/ ReadChunk \/ AppendFrame
              \/ UNCHANGED next_frame
           /\ \/ ReceiveFrame \/ AppendFrame
              \/ UNCHANGED frame_buffer
           /\ \/ ReadChunk \/ DrainedFrames
              \/ UNCHANGED frame_job
           /\ \/ SendFrameJob \/ (\E w \in FrameWorkers : TakeFrameJob(w))
              \/ UNCHANGED frame_jobs
           /\ \/ \E w \in FrameWorkers : FrameWorkerStep(w)
              \/ UNCHANGED frame_worker
           /\ \/ ReceiveFrame \/ ReceiveFrameFails
              \/ \E w \in FrameWorkers : CompressFrame(w) \/ CompressFails(w)
              \/ UNCHANGED frame_results
           /\ \/ \E w \in FrameWorkers : FrameWorkerStep(w)
              \/ \E w \in EnvelopeWorkers : EnvelopeWorkerStep(w)
              \/ MainStep
              \/ UNCHANGED vars
  <1> USE DEF BeginMember, EndMembers, ReadChunk, ReadFails, MemberDone,
              SendFrameJob, FrameJobsFull, ReceiveFrame, ReceiveFrameFails,
              DrainedFrames, AppendFrame, FrameTooLarge, AppendDone,
              SealForAppend, SendEnvelopeJob, EnvelopeJobsFull,
              ReceiveEnvelope, ReceiveEnvelopeFails, DrainedEnvelopes,
              EmitEnvelope, SinkFails, EmitDone, AwaitFrames, FinalSeal,
              NothingToSeal, AwaitEnvelopes, EnvelopesDone, Join, ScopeEnds,
              Finished, TakeFrameJob, CompressFrame, CompressFails,
              FrameWorkerPanics, FrameWorkerStops, TakeEnvelopeJob,
              EncryptEnvelope, EncryptFails, EnvelopeWorkerPanics,
              EnvelopeWorkerStops, Next, MainStep, FrameWorkerStep,
              EnvelopeWorkerStep, Unwind, Fault, Seal
  <1>1. ReadChunk \/ AppendFrame \/ UNCHANGED next_frame
    OBVIOUS
  <1>2. ReceiveFrame \/ AppendFrame \/ UNCHANGED frame_buffer
    OBVIOUS
  <1>3. ReadChunk \/ DrainedFrames \/ UNCHANGED frame_job
    OBVIOUS
  <1>4. \/ SendFrameJob \/ (\E w \in FrameWorkers : TakeFrameJob(w))
        \/ UNCHANGED frame_jobs
    OBVIOUS
  <1>5. \/ \E w \in FrameWorkers : FrameWorkerStep(w)
        \/ UNCHANGED frame_worker
    OBVIOUS
  <1>6. \/ ReceiveFrame \/ ReceiveFrameFails
        \/ \E w \in FrameWorkers : CompressFrame(w) \/ CompressFails(w)
        \/ UNCHANGED frame_results
    OBVIOUS
  <1>7. \/ \E w \in FrameWorkers : FrameWorkerStep(w)
        \/ \E w \in EnvelopeWorkers : EnvelopeWorkerStep(w)
        \/ MainStep
        \/ UNCHANGED vars
    BY ZenonT(60) DEF Next, Finished
  <1> QED  BY <1>1, <1>2, <1>3, <1>4, <1>5, <1>6, <1>7, ZenonT(60)

\* Frames: the sender is held until the last member is read, and what came back
\* is packed before the main thread looks for more.
LEMMA KnowsFramesStep ==
    ASSUME TypeOK, KnowsFrames, [Next]_vars
    PROVE  KnowsFrames'
  <1>0. /\ frame_return \in {"drain", "send", "finish_frames"}
        /\ flush_return \in {"append", "finish_envelopes"}
        /\ emit_return \in {"drain", "seal", "finish_envelopes"}
        /\ next_frame \in [job : Nat, result : Nat]
        /\ next_frame.job \in Nat /\ next_frame.result \in Nat
    BY SMTT(40) DEF TypeOK
  <1> USE DEF BeginMember, EndMembers, ReadChunk, ReadFails, MemberDone,
              SendFrameJob, FrameJobsFull, ReceiveFrame, ReceiveFrameFails,
              DrainedFrames, AppendFrame, FrameTooLarge, AppendDone,
              SealForAppend, SendEnvelopeJob, EnvelopeJobsFull,
              ReceiveEnvelope, ReceiveEnvelopeFails, DrainedEnvelopes,
              EmitEnvelope, SinkFails, EmitDone, AwaitFrames, FinalSeal,
              NothingToSeal, AwaitEnvelopes, EnvelopesDone, Join, ScopeEnds,
              Finished, TakeFrameJob, CompressFrame, CompressFails,
              FrameWorkerPanics, FrameWorkerStops, TakeEnvelopeJob,
              EncryptEnvelope, EncryptFails, EnvelopeWorkerPanics,
              EnvelopeWorkerStops, Next, MainStep, FrameWorkerStep,
              EnvelopeWorkerStep, Unwind, Fault, Seal
  <1>1. pc' \in {"member", "read", "send"} => "frame" \in senders'
    BY <1>0, ZenonT(60) DEF KnowsFrames, receiving, appending
  <1>2. receiving' /\ frame_return' # "finish_frames" => "frame" \in senders'
    BY <1>0, ZenonT(60) DEF KnowsFrames, receiving, appending, flushing
  <1>3. finishing' => finishing \/ FinalSeal \/ NothingToSeal
    BY <1>0, ZenonT(60) DEF finishing, awaiting, flushing
  <1>4. finishing' => next_frame'.result = next_frame'.job
    <2>1. finishing => ~ReadChunk /\ ~AppendFrame
      BY SMTT(40) DEF finishing, awaiting, flushing
    <2>2. ~(FinalSeal /\ (ReadChunk \/ AppendFrame)) /\ ~(NothingToSeal /\ (ReadChunk \/ AppendFrame))
      OBVIOUS
    <2>3. ReadChunk \/ AppendFrame \/ UNCHANGED next_frame
      BY FrameEffects, ZenonT(60)
    <2>4. FinalSeal \/ NothingToSeal => next_frame.result = next_frame.job
      BY SMTT(40)
    <2>5. finishing => next_frame.result = next_frame.job
      BY DEF KnowsFrames
    <2> QED  BY <1>3, <2>1, <2>2, <2>3, <2>4, <2>5, SMTT(40)
  <1>5. pc' = "receive" /\ frame_return' = "finish_frames"
          => next_frame'.result < next_frame'.job
    <2>1. pc' = "receive" /\ frame_return' = "finish_frames"
            => AwaitFrames \/ (pc = "receive" /\ frame_return = "finish_frames")
      BY <1>0
    <2>2. AwaitFrames \/ pc = "receive" => ~ReadChunk /\ ~AppendFrame
      OBVIOUS
    <2>3. AwaitFrames => next_frame.result < next_frame.job
      BY SMTT(40)
    <2>4. ReadChunk \/ AppendFrame \/ UNCHANGED next_frame
      BY FrameEffects
    <2> QED  BY <2>1, <2>2, <2>3, <2>4 DEF KnowsFrames
  <1>6. running' /\ ~appending' => next_results' = {}
    <2> SUFFICES ASSUME running', ~appending' PROVE next_results' = {}
      BY SMTT(40)
    <2>1. running /\ (AppendDone \/ ~appending)
      BY <1>0, ZenonT(60) DEF running, appending, flushing
    <2>2. next_results = {}
      BY <2>1 DEF KnowsFrames
    <2>3. ~ReceiveFrame /\ ~AppendFrame
      BY SMTT(40) DEF appending
    <2>4. frame_buffer' = frame_buffer
      BY <2>3, FrameEffects, ZenonT(60)
    <2>5. next_frame'.result = next_frame.result
      <3>1. ReadChunk => next_frame'.result = next_frame.result
        BY <1>0, SMTT(40)
      <3> QED  BY <2>3, <3>1, FrameEffects
    <2> QED  BY <2>2, <2>4, <2>5, SMTT(40) DEF next_results
  <1> QED  BY <1>1, <1>2, <1>4, <1>5, <1>6 DEF KnowsFrames

\* Envelopes: the sender is held until all are sealed, and what came back is
\* written before the main thread looks for more.
LEMMA KnowsEnvelopesStep ==
    ASSUME TypeOK, KnowsEnvelopes, [Next]_vars
    PROVE  KnowsEnvelopes'
  <1>0. /\ frame_return \in {"drain", "send", "finish_frames"}
        /\ flush_return \in {"append", "finish_envelopes"}
        /\ emit_return \in {"drain", "seal", "finish_envelopes"}
        /\ next_envelope \in Nat /\ envelope.index \in Nat
    BY DEF TypeOK
  <1> USE DEF BeginMember, EndMembers, ReadChunk, ReadFails, MemberDone,
              SendFrameJob, FrameJobsFull, ReceiveFrame, ReceiveFrameFails,
              DrainedFrames, AppendFrame, FrameTooLarge, AppendDone,
              SealForAppend, SendEnvelopeJob, EnvelopeJobsFull,
              ReceiveEnvelope, ReceiveEnvelopeFails, DrainedEnvelopes,
              EmitEnvelope, SinkFails, EmitDone, AwaitFrames, FinalSeal,
              NothingToSeal, AwaitEnvelopes, EnvelopesDone, Join, ScopeEnds,
              Finished, TakeFrameJob, CompressFrame, CompressFails,
              FrameWorkerPanics, FrameWorkerStops, TakeEnvelopeJob,
              EncryptEnvelope, EncryptFails, EnvelopeWorkerPanics,
              EnvelopeWorkerStops, Next, MainStep, FrameWorkerStep,
              EnvelopeWorkerStep, Unwind, Fault, Seal
  <1>1. running' /\ ~awaiting' => "envelope" \in senders'
    BY <1>0, ZenonT(60) DEF KnowsEnvelopes, running, awaiting
  <1>2. UNCHANGED envelope \/ pc \in {"append", "finish_frames"}
    OBVIOUS
  <1>3. EmitEnvelope \/ SinkFails \/ UNCHANGED next_envelope
    BY Effects
  <1>4. pc' = "collect" /\ emit_return' = "finish_envelopes"
          => next_envelope' < envelope'.index
    <2>1. pc' = "collect" /\ emit_return' = "finish_envelopes"
            => AwaitEnvelopes \/ (pc = "collect" /\ emit_return = "finish_envelopes")
      BY <1>0
    <2> QED  BY <1>2, <1>3, <2>1 DEF KnowsEnvelopes
  <1>5. pc' = "join" => next_envelope' = envelope'.index
    <2>1. pc' = "join" => EnvelopesDone \/ pc = "join"
      BY <1>0
    <2> QED  BY <1>2, <1>3, <2>1 DEF KnowsEnvelopes
  <1>6. running' /\ pc' # "emit" => next_sealed' = {}
    <2> SUFFICES ASSUME running', pc' # "emit" PROVE next_sealed' = {}
      BY SMTT(40)
    <2>1. running /\ (EmitDone \/ pc # "emit")
      BY <1>0 DEF running
    <2>2. next_sealed = {}
      BY <2>1 DEF KnowsEnvelopes
    <2>3. ~ReceiveEnvelope /\ ~EmitEnvelope /\ ~SinkFails
      BY SMTT(40) DEF running
    <2>4. envelope_buffer' = envelope_buffer /\ next_envelope' = next_envelope
      BY <2>3, Effects
    <2> QED  BY <2>2, <2>4 DEF next_sealed
  <1> QED  BY <1>1, <1>4, <1>5, <1>6 DEF KnowsEnvelopes

-----------------------------------------------------------------------------
(***************************************************************************)
(* The pipeline of the frames                                              *)
(***************************************************************************)

\* What happens to the frame job in the main thread's hand.
LEMMA FrameHand ==
    ASSUME TypeOK, [Next]_vars
    PROVE  /\ frame_in_hand' => ReadChunk \/ (frame_in_hand /\ UNCHANGED frame_job)
           /\ running' /\ frame_in_hand => frame_in_hand' \/ SendFrameJob
           /\ frame_in_hand' => running'
           /\ ReadChunk => /\ ~frame_in_hand /\ running' /\ frame_in_hand'
                           /\ frame_job'.frame = next_frame.job
                           /\ next_frame'.job = next_frame.job + 1
                           /\ next_frame'.result = next_frame.result
           /\ SendFrameJob => frame_in_hand /\ ~frame_in_hand' /\ running'
           /\ ReadChunk \/ next_frame'.job = next_frame.job
           /\ AppendFrame \/ next_frame'.result = next_frame.result
           /\ running' => running
  <1>0. /\ frame_return \in {"drain", "send", "finish_frames"}
        /\ flush_return \in {"append", "finish_envelopes"}
        /\ emit_return \in {"drain", "seal", "finish_envelopes"}
        /\ next_frame \in [job : Nat, result : Nat]
    BY DEF TypeOK
  <1>1. ReadChunk => /\ next_frame'.job = next_frame.job + 1
                     /\ next_frame'.result = next_frame.result
                     /\ frame_job'.frame = next_frame.job
    BY <1>0 DEF ReadChunk
  <1>2. AppendFrame => next_frame'.job = next_frame.job
    BY <1>0 DEF AppendFrame
  <1>3. ReadChunk => pc = "read" /\ pc' = "send"
    BY DEF ReadChunk
  <1>4. SendFrameJob => pc = "send" /\ pc' = "receive" /\ frame_return' = "drain"
    BY DEF SendFrameJob
  <1>5. ReadChunk \/ AppendFrame \/ UNCHANGED next_frame
    BY FrameEffects, SMTT(40)
  <1> USE DEF BeginMember, EndMembers, ReadChunk, ReadFails, MemberDone,
              SendFrameJob, FrameJobsFull, ReceiveFrame, ReceiveFrameFails,
              DrainedFrames, AppendFrame, FrameTooLarge, AppendDone,
              SealForAppend, SendEnvelopeJob, EnvelopeJobsFull,
              ReceiveEnvelope, ReceiveEnvelopeFails, DrainedEnvelopes,
              EmitEnvelope, SinkFails, EmitDone, AwaitFrames, FinalSeal,
              NothingToSeal, AwaitEnvelopes, EnvelopesDone, Join, ScopeEnds,
              Finished, TakeFrameJob, CompressFrame, CompressFails,
              FrameWorkerPanics, FrameWorkerStops, TakeEnvelopeJob,
              EncryptEnvelope, EncryptFails, EnvelopeWorkerPanics,
              EnvelopeWorkerStops, Next, MainStep, FrameWorkerStep,
              EnvelopeWorkerStep, Unwind, Fault, Seal
  <1>6. frame_in_hand' => ReadChunk \/ frame_in_hand
    BY <1>0, ZenonT(60) DEF frame_in_hand, receiving, appending, flushing
  <1>7. running' /\ frame_in_hand => frame_in_hand' \/ SendFrameJob
    BY <1>0, ZenonT(60) DEF frame_in_hand, receiving, appending, flushing, running
  <1> USE DEF frame_in_hand, receiving, appending, flushing, running
  <1>8. frame_in_hand' => running'
    BY <1>0, SMTT(40)
  <1>9. frame_in_hand => ~DrainedFrames
    BY SMTT(40)
  <1>10. UNCHANGED frame_job \/ ReadChunk \/ DrainedFrames
    BY FrameEffects, ZenonT(60)
  <1>11. running' => running
    BY Effects
  <1> HIDE DEF ReadChunk, SendFrameJob, AppendFrame, DrainedFrames, Next
  <1>12. ReadChunk => ~frame_in_hand /\ running' /\ frame_in_hand'
    BY <1>3
  <1>13. SendFrameJob => frame_in_hand /\ ~frame_in_hand' /\ running'
    BY <1>4
  <1> QED  BY <1>1, <1>2, <1>5, <1>6, <1>7, <1>8, <1>9, <1>10, <1>11, <1>12, <1>13

\* The jobs stay in order; a job leaves the channel to the worker that takes it,
\* and after an error return the one in the main thread's hand is dropped.
LEMMA FramesQueuedStep ==
    ASSUME TypeOK, FramesQueued, [Next]_vars
    PROVE  /\ FramesQueued'
           /\ (\E w \in FrameWorkers : TakeFrameJob(w)) =>
                 /\ frame_jobs # <<>> /\ frame_queued = Head(frame_jobs).frame
                 /\ frame_queued' > frame_queued
                 /\ running' => frame_queued' = frame_queued + 1
           /\ ~(\E w \in FrameWorkers : TakeFrameJob(w)) =>
                 /\ running' => frame_queued' = frame_queued
                 /\ frame_queued' >= frame_queued
  <1> USE DEF FramesQueued, frame_queued
  <1>0. /\ frame_jobs \in Seq(FrameJobs) /\ Len(frame_jobs) \in Nat
        /\ next_frame.job \in Nat /\ frame_job \in FrameJobs /\ frame_job.frame \in Nat
        /\ frame_jobs # <<>> => Len(frame_jobs) >= 1
        /\ \A i \in 1 .. Len(frame_jobs) : frame_jobs[i].frame \in Nat
    <2>1. /\ frame_jobs \in Seq(FrameJobs) /\ next_frame.job \in Nat
          /\ frame_job \in FrameJobs
      BY DEF TypeOK
    <2>2. \A i \in 1 .. Len(frame_jobs) : frame_jobs[i] \in FrameJobs
      BY <2>1, ElementOfSeq
    <2> QED  BY <2>1, <2>2, TailOf, LenProperties DEF FrameJobs
  <1>1. CASE ReadChunk
    <2>1. frame_jobs' = frame_jobs
      BY <1>1 DEF ReadChunk
    <2>2. ~\E w \in FrameWorkers : TakeFrameJob(w)
      BY <1>1 DEF ReadChunk, TakeFrameJob
    <2>3. /\ ~frame_in_hand /\ running' /\ frame_in_hand'
          /\ frame_job'.frame = next_frame.job /\ next_frame'.job = next_frame.job + 1
          /\ running
      BY <1>1, FrameHand
    <2> QED  BY <1>0, <2>1, <2>2, <2>3, SMTT(40)
  <1>2. CASE SendFrameJob
    <2>1. frame_jobs' = Append(frame_jobs, frame_job)
      BY <1>2 DEF SendFrameJob
    <2>2. ~\E w \in FrameWorkers : TakeFrameJob(w)
      BY <1>2 DEF SendFrameJob, TakeFrameJob
    <2>3. /\ frame_in_hand /\ ~frame_in_hand' /\ running' /\ running
          /\ next_frame'.job = next_frame.job
      BY <1>2, FrameHand DEF SendFrameJob, ReadChunk
    <2>4. /\ Len(frame_jobs') = Len(frame_jobs) + 1
          /\ \A i \in 1 .. Len(frame_jobs) : frame_jobs'[i] = frame_jobs[i]
          /\ frame_jobs'[Len(frame_jobs) + 1] = frame_job
          /\ frame_jobs' # <<>>
      BY <1>0, <2>1, AppendOf, AppendProperties
    <2>5. frame_job.frame = next_frame.job - 1
      BY <2>3
    <2>6. ASSUME NEW i \in 1 .. Len(frame_jobs') - 1
          PROVE  frame_jobs'[i + 1].frame = frame_jobs'[i].frame + 1
      <3>1. CASE i = Len(frame_jobs)
        <4>1. frame_jobs # <<>>
          BY <1>0, <2>4, <3>1, EmptySeq
        <4> QED  BY <1>0, <2>3, <2>4, <3>1, <4>1
      <3>2. CASE i # Len(frame_jobs)
        <4>1. i \in 1 .. Len(frame_jobs) - 1 /\ i \in 1 .. Len(frame_jobs) /\ i + 1 \in 1 .. Len(frame_jobs)
          BY <1>0, <2>4, <3>2
        <4> QED  BY <2>4, <4>1
      <3> QED  BY <3>1, <3>2
    <2>7. ASSUME NEW i \in 1 .. Len(frame_jobs') PROVE frame_jobs'[i].frame < next_frame'.job
      BY <1>0, <2>3, <2>4, <2>5
    <2>8. FramesQueued'
      BY <1>0, <2>3, <2>4, <2>5, <2>6, <2>7
    <2>9. frame_queued' = frame_queued
      <3>1. CASE frame_jobs = <<>>
        BY <1>0, <2>3, <2>4, <3>1, EmptySeq
      <3>2. CASE frame_jobs # <<>>
        BY <1>0, <2>4, <3>2
      <3> QED  BY <3>1, <3>2
    <2>10. frame_queued \in Nat
      BY <1>0, SMTT(40)
    <2> HIDE DEF frame_queued, FramesQueued
    <2> QED  BY <2>2, <2>8, <2>9, <2>10
  <1>3. CASE \E w \in FrameWorkers : TakeFrameJob(w)
    <2>1. /\ frame_jobs # <<>> /\ frame_jobs' = Tail(frame_jobs)
          /\ pc' = pc /\ frame_return' = frame_return /\ flush_return' = flush_return
          /\ emit_return' = emit_return /\ frame_job' = frame_job /\ next_frame' = next_frame
      BY <1>3 DEF TakeFrameJob
    <2>2. /\ frame_in_hand' <=> frame_in_hand
          /\ running' <=> running
      BY <2>1 DEF frame_in_hand, receiving, appending, flushing, running
    <2>3. /\ Len(frame_jobs) >= 1 /\ Len(frame_jobs') = Len(frame_jobs) - 1
          /\ \A i \in 1 .. Len(frame_jobs') : frame_jobs'[i] = frame_jobs[i + 1]
          /\ Head(frame_jobs) = frame_jobs[1]
          /\ frame_jobs' \in Seq(FrameJobs)
      BY <1>0, <2>1, TailOf
    <2>4. \A i \in 1 .. Len(frame_jobs') : i + 1 \in 1 .. Len(frame_jobs)
      BY <1>0, <2>3
    <2>5. \A i \in 1 .. Len(frame_jobs') - 1 :
            /\ i \in 1 .. Len(frame_jobs') /\ i + 1 \in 1 .. Len(frame_jobs')
            /\ i + 1 \in 1 .. Len(frame_jobs) - 1
      BY <1>0, <2>3
    <2>6. \A i \in 1 .. Len(frame_jobs') - 1 : frame_jobs'[i + 1].frame = frame_jobs'[i].frame + 1
      BY <2>3, <2>5, SMTT(40)
    <2>7. \A i \in 1 .. Len(frame_jobs') : frame_jobs'[i].frame < next_frame'.job
      BY <2>1, <2>3, <2>4
    <2>8. frame_jobs' # <<>> =>
            /\ Len(frame_jobs') >= 1
            /\ frame_jobs'[Len(frame_jobs')] = frame_jobs[Len(frame_jobs)]
            /\ frame_jobs'[1] = frame_jobs[2] /\ frame_jobs[2].frame = frame_jobs[1].frame + 1
      <3> HAVE frame_jobs' # <<>>
      <3>1. Len(frame_jobs') \in Nat /\ Len(frame_jobs') >= 1
        BY <2>3, TailOf
      <3>2. Len(frame_jobs') + 1 = Len(frame_jobs) /\ 1 \in 1 .. Len(frame_jobs) - 1
        BY <1>0, <2>3, <3>1
      <3> QED  BY <2>3, <3>1, <3>2
    <2>9. frame_jobs' = <<>> => Len(frame_jobs) = 1
      BY <1>0, <2>3, EmptySeq
    <2>10. FramesQueued'
      BY <2>1, <2>2, <2>6, <2>7, <2>8
    <2>11. frame_queued = frame_jobs[1].frame /\ frame_jobs[1].frame \in Nat
      BY <1>0, <2>1
    <2>12. running => frame_queued' = frame_queued + 1
      <3>1. CASE frame_jobs' = <<>>
        BY <1>0, <2>1, <2>2, <2>9, <2>11, <3>1
      <3>2. CASE frame_jobs' # <<>>
        BY <2>8, <2>11, <3>2
      <3> QED  BY <3>1, <3>2
    <2>13. frame_queued' > frame_queued
      <3>1. CASE frame_jobs' = <<>>
        <4>1. ~running => frame_queued' = next_frame.job
          BY <2>1, <2>2, <3>1, FrameHand
        <4>2. frame_jobs[1].frame < next_frame.job
          BY <1>0, <2>3
        <4>3. frame_queued + 1 > frame_queued
          BY <2>11
        <4> HIDE DEF frame_queued
        <4> QED  BY <1>0, <2>11, <2>12, <4>1, <4>2, <4>3
      <3>2. CASE frame_jobs' # <<>>
        BY <2>8, <2>11, <3>2
      <3> QED  BY <3>1, <3>2
    <2> QED  BY <1>3, <2>1, <2>2, <2>3, <2>10, <2>11, <2>12, <2>13
  <1>4. CASE ~ReadChunk /\ ~SendFrameJob /\ ~\E w \in FrameWorkers : TakeFrameJob(w)
    <2>1. frame_jobs' = frame_jobs /\ next_frame'.job = next_frame.job
      BY <1>4, FrameEffects, FrameHand
    <2>2. /\ frame_in_hand' => frame_in_hand /\ frame_job' = frame_job /\ running'
          /\ running' /\ frame_in_hand => frame_in_hand'
          /\ running' => running
      BY <1>4, FrameHand
    <2>3. FramesQueued'
      BY <2>1, <2>2
    <2>4. running' => frame_queued' = frame_queued
      BY <2>1, <2>2
    <2>5. frame_queued' >= frame_queued
      BY <1>0, <2>1, <2>2
    <2> QED  BY <1>4, <2>3, <2>4, <2>5
  <1> QED  BY <1>1, <1>2, <1>3, <1>4

\* The pool of the frames is a pool.
LEMMA FramePoolType == TypeOK => FramePool \in Pools(FrameWorkers)
  <1> SUFFICES ASSUME TypeOK PROVE FramePool \in Pools(FrameWorkers)
    OBVIOUS
  <1>1. /\ frame_worker \in [FrameWorkers -> [state : WorkerStates, job : FrameJobs]]
        /\ frame_results \in Seq(FrameMessages) /\ frame_buffer \subseteq FrameResults
        /\ next_frame \in [job : Nat, result : Nat]
        /\ frame_jobs \in Seq(FrameJobs) /\ frame_job \in FrameJobs
    BY DEF TypeOK
  <1>2. FramePool.held \in [FrameWorkers -> Nat \cup {Nothing}]
    BY <1>1 DEF FramePool, FrameJobs
  <1>3. FramePool.results \in Seq([id : Nat, ok : BOOLEAN])
    <2>1. \A i \in 1 .. Len(frame_results) : frame_results[i] \in FrameMessages
      BY <1>1, ElementOfSeq
    <2>2. Len(frame_results) \in Nat
      BY <1>1
    <2>3. FramePool.results \in [1 .. Len(frame_results) -> [id : Nat, ok : BOOLEAN]]
      BY <2>1 DEF FramePool, FrameMessages, FrameResults, FrameJobs
    <2> QED  BY <2>2, <2>3, SeqDef, ZenonT(60)
  <1>4. FramePool.buffered \in SUBSET Nat
    BY <1>1, SMTT(40) DEF FramePool, FrameResults, FrameJobs
  <1>5. FramePool.queued \in Nat
    <2>1. frame_jobs # <<>> => frame_jobs[1] \in FrameJobs
      BY <1>1, TailOf
    <2> QED  BY <1>1, <2>1 DEF FramePool, frame_queued, FrameJobs
  <1>6. FramePool.next \in Nat
    BY <1>1 DEF FramePool
  <1>7. FramePool = [held |-> FramePool.held, results |-> FramePool.results,
                     buffered |-> FramePool.buffered, next |-> FramePool.next,
                     queued |-> FramePool.queued]
    BY DEF FramePool
  <1> QED  BY <1>2, <1>3, <1>4, <1>5, <1>6, <1>7 DEF Pools

LEMMA FramePoolTypeNext == TypeOK' => (FramePool \in Pools(FrameWorkers))'
  BY FramePoolType, PTL

\* A result added to the channel of the frames, or taken from it.
LEMMA FrameResultAdded ==
    ASSUME TypeOK, NEW m \in FrameMessages, frame_results' = Append(frame_results, m)
    PROVE  FramePool'.results
             = Append(FramePool.results, [id |-> m.value.job.frame, ok |-> m.ok])
  <1>1. frame_results \in Seq(FrameMessages)
    BY DEF TypeOK
  <1>2. /\ Len(frame_results) \in Nat /\ Len(frame_results') = Len(frame_results) + 1
        /\ \A i \in 1 .. Len(frame_results) : frame_results'[i] = frame_results[i]
        /\ frame_results'[Len(frame_results) + 1] = m
    BY <1>1, AppendOf
  <1> DEFINE x == [id |-> m.value.job.frame, ok |-> m.ok]
             f == FramePool.results
             g == FramePool'.results
  <1>3. f \in Seq([id : Nat, ok : BOOLEAN])
    BY FramePoolType DEF Pools
  <1>4. x \in [id : Nat, ok : BOOLEAN]
    BY DEF FrameMessages, FrameResults, FrameJobs
  <1>5. f = [i \in 1 .. Len(frame_results) |->
               [id |-> frame_results[i].value.job.frame, ok |-> frame_results[i].ok]]
    BY DEF FramePool
  <1>6. g = [i \in 1 .. Len(frame_results') |->
               [id |-> frame_results'[i].value.job.frame, ok |-> frame_results'[i].ok]]
    BY DEF FramePool
  <1>7. Len(f) = Len(frame_results)
    BY <1>2, <1>3, <1>5
  <1>8. Append(f, x) = [i \in 1 .. Len(f) + 1 |-> IF i = Len(f) + 1 THEN x ELSE f[i]]
    BY <1>3, <1>4
  <1>9. \A i \in 1 .. Len(frame_results) + 1 :
          g[i] = IF i = Len(frame_results) + 1 THEN x ELSE f[i]
    BY <1>2, <1>5, <1>6
  <1>10. g = [i \in 1 .. Len(frame_results) + 1 |-> g[i]]
    BY <1>2, <1>6
  <1> QED  BY <1>7, <1>8, <1>9, <1>10, SMTT(40)

LEMMA FrameResultTaken ==
    ASSUME TypeOK, frame_results # <<>>, frame_results' = Tail(frame_results)
    PROVE  /\ FramePool.results # <<>>
           /\ FramePool'.results = Tail(FramePool.results)
           /\ FramePool.results[1] = [id |-> Head(frame_results).value.job.frame,
                                      ok |-> Head(frame_results).ok]
  <1>1. frame_results \in Seq(FrameMessages)
    BY DEF TypeOK
  <1>2. /\ Len(frame_results) \in Nat /\ Len(frame_results) >= 1
        /\ Len(frame_results') = Len(frame_results) - 1
        /\ \A i \in 1 .. Len(frame_results') : frame_results'[i] = frame_results[i + 1]
        /\ Head(frame_results) = frame_results[1]
    BY <1>1, TailOf
  <1> DEFINE f == FramePool.results
             g == FramePool'.results
  <1>3. f \in Seq([id : Nat, ok : BOOLEAN])
    BY FramePoolType DEF Pools
  <1>4. f = [i \in 1 .. Len(frame_results) |->
               [id |-> frame_results[i].value.job.frame, ok |-> frame_results[i].ok]]
    BY DEF FramePool
  <1>5. g = [i \in 1 .. Len(frame_results') |->
               [id |-> frame_results'[i].value.job.frame, ok |-> frame_results'[i].ok]]
    BY DEF FramePool
  <1>6. Len(f) = Len(frame_results)
    BY <1>2, <1>3, <1>4
  <1>7. f # <<>>
    BY <1>2, <1>3, <1>6, EmptySeq
  <1>8. Tail(f) = [i \in 1 .. Len(f) - 1 |-> f[i + 1]]
    BY <1>3, <1>7, HeadTailProperties
  <1>9. \A i \in 1 .. Len(frame_results) - 1 : g[i] = f[i + 1]
    BY <1>2, <1>4, <1>5
  <1>10. g = [i \in 1 .. Len(frame_results) - 1 |-> g[i]]
    BY <1>2, <1>5
  <1>11. g = Tail(f)
    BY <1>6, <1>8, <1>9, <1>10
  <1>12. f[1] = [id |-> Head(frame_results).value.job.frame, ok |-> Head(frame_results).ok]
    BY <1>2, <1>4
  <1> QED  BY <1>7, <1>11, <1>12

\* A compression worker changes its state.
LEMMA FrameHeld ==
    ASSUME TypeOK, NEW w \in FrameWorkers, NEW state, NEW job,
           frame_worker' = [frame_worker EXCEPT ![w] = Worker(state, job)]
    PROVE  FramePool'.held
             = [FramePool.held EXCEPT ![w] = IF state = "busy" THEN job.frame ELSE Nothing]
  <1>1. frame_worker \in [FrameWorkers -> [state : WorkerStates, job : FrameJobs]]
    BY DEF TypeOK
  <1> QED  BY <1>1 DEF FramePool, Worker

\* What a worker of the frames holds.
LEMMA FrameHolding ==
    ASSUME TypeOK, NEW w \in FrameWorkers
    PROVE  /\ frame_worker[w].state = "busy" =>
                 /\ FramePool.held[w] = frame_worker[w].job.frame
                 /\ FramePool.held[w] # Nothing
                 /\ frame_worker[w].job \in FrameJobs
           /\ frame_worker[w].state # "busy" => FramePool.held[w] = Nothing
  <1>1. frame_worker \in [FrameWorkers -> [state : WorkerStates, job : FrameJobs]]
    BY DEF TypeOK
  <1> QED  BY <1>1 DEF FramePool, FrameJobs, Nothing

\* Every step of the writer is a step of the pool of frames, and a fault of a
\* compression worker is one that drops a frame.
LEMMA FramePoolStep ==
    ASSUME TypeOK, TypeOK', FramesOnce, [Next]_vars
    PROVE  LET p == FramePool
               q == FramePool'
               W == FrameWorkers
           IN  /\ Keeps(W, p, q) \/ Drops(W, p, q) \/ Wastes(W, p, q)
               /\ running' => Keeps(W, p, q) \/ Drops(W, p, q)
               /\ running' /\ ~(\E w \in W : CompressFails(w) \/ FrameWorkerPanics(w))
                     => Keeps(W, p, q)
               /\ running' /\ (\E w \in W : CompressFails(w) \/ FrameWorkerPanics(w))
                     => Drops(W, p, q)
  <1> DEFINE p == FramePool
             q == FramePool'
             W == FrameWorkers
  <1>0. /\ p = [held |-> p.held, results |-> p.results, buffered |-> p.buffered,
                next |-> p.next, queued |-> p.queued]
        /\ q = [held |-> q.held, results |-> q.results, buffered |-> q.buffered,
                next |-> q.next, queued |-> q.queued]
        /\ p.queued = frame_queued /\ q.queued = frame_queued'
        /\ p.next = next_frame.result /\ q.next = next_frame'.result
        /\ frame_queued \in Nat /\ frame_queued' \in Nat
    BY FramePoolType, FramePoolTypeNext DEF FramePool, Pools
  <1>1. /\ frame_worker' = frame_worker => q.held = p.held
        /\ frame_results' = frame_results => q.results = p.results
        /\ frame_buffer' = frame_buffer => q.buffered = p.buffered
    BY DEF FramePool
  <1>2. FramesQueued
    BY DEF FramesOnce
  <1>3. ASSUME NEW w \in W, TakeFrameJob(w)
        PROVE  Keeps(W, p, q) \/ (Wastes(W, p, q) /\ ~running')
    <2>1. /\ frame_jobs # <<>> /\ frame_queued = Head(frame_jobs).frame
          /\ frame_queued' > frame_queued
          /\ running' => frame_queued' = frame_queued + 1
      BY <1>2, <1>3, FramesQueuedStep
    <2>2. /\ q.results = p.results /\ q.buffered = p.buffered /\ q.next = p.next
      BY <1>0, <1>1, <1>3 DEF TakeFrameJob
    <2>3. /\ p.held[w] = Nothing
          /\ q.held = [p.held EXCEPT ![w] = p.queued]
      <3>1. /\ frame_worker[w].state = "idle"
            /\ frame_worker' = [frame_worker EXCEPT ![w] = Worker("busy", Head(frame_jobs))]
        BY <1>3 DEF TakeFrameJob
      <3>2. q.held = [p.held EXCEPT ![w] = Head(frame_jobs).frame]
        BY <3>1, FrameHeld
      <3>3. p.held[w] = Nothing
        BY <3>1, FrameHolding
      <3> QED  BY <1>0, <2>1, <3>2, <3>3
    <2> HIDE DEF p, q, W
    <2>4. CASE running'
      BY <1>0, <2>1, <2>2, <2>3, <2>4 DEF Keeps, Takes
    <2>5. CASE ~running'
      <3>1. q.queued > p.queued /\ q.queued >= p.queued
        BY <1>0, <2>1
      <3> QED  BY <1>3, <2>2, <2>3, <2>5, <3>1 DEF Wastes
    <2> QED  BY <2>4, <2>5
  <1>4. ~(\E w \in W : TakeFrameJob(w)) =>
          /\ running' => q.queued = p.queued
          /\ q.queued >= p.queued
    BY <1>0, <1>2, FramesQueuedStep
  <1>5. ASSUME NEW w \in W, CompressFrame(w)
        PROVE  /\ running' => Keeps(W, p, q)
               /\ Keeps(W, p, q) \/ Drops(W, p, q)
    <2>1. /\ frame_worker[w].state = "busy"
          /\ pc' = pc /\ UNCHANGED <<next_frame, frame_buffer, frame_jobs>>
          /\ UNCHANGED <<frame_job, frame_return, flush_return, emit_return>>
      BY <1>5 DEF CompressFrame
    <2>2. /\ p.held[w] = frame_worker[w].job.frame /\ p.held[w] # Nothing
          /\ frame_worker[w].job \in FrameJobs
      BY <2>1, FrameHolding
    <2>3. q.buffered = p.buffered /\ q.next = p.next /\ q.queued = p.queued
      BY <1>0, <1>1, <2>1 DEF frame_queued, frame_in_hand, receiving, appending, flushing
    <2>4. \E state \in {"stopped", "idle"} :
             frame_worker' = [frame_worker EXCEPT ![w] = Worker(state, NoFrameJob)]
      BY <1>5 DEF CompressFrame
    <2>5. q.held = [p.held EXCEPT ![w] = Nothing]
      BY <2>4, FrameHeld
    <2>6. CASE pc \in Returned
      <3>1. q.results = p.results
        BY <1>1, <1>5, <2>6 DEF CompressFrame
      <3> QED  BY <2>1, <2>2, <2>3, <2>5, <2>6, <3>1 DEF Drops, Loses, running
    <2>7. CASE pc \notin Returned
      <3>1. PICK len \in FrameLens : frame_results' = Append(frame_results,
               Ok([job |-> frame_worker[w].job, len |-> len]))
        BY <1>5, <2>7 DEF CompressFrame
      <3> DEFINE m == Ok([job |-> frame_worker[w].job, len |-> len])
      <3>2. m \in FrameMessages /\ m.value.job = frame_worker[w].job /\ m.ok = TRUE
        BY <2>2, InputAssumption DEF Ok, FrameMessages, FrameResults
      <3>3. frame_results' = Append(frame_results, m)
        BY <3>1
      <3> HIDE DEF m
      <3>4. q.results = Append(p.results, [id |-> m.value.job.frame, ok |-> m.ok])
        BY <3>2, <3>3, FrameResultAdded
      <3>5. q.results = Append(p.results, [id |-> p.held[w], ok |-> TRUE])
        BY <2>2, <3>2, <3>4
      <3> QED  BY <2>2, <2>3, <2>5, <3>5 DEF Keeps, Gives
    <2> QED  BY <2>6, <2>7
  <1>6. ASSUME NEW w \in W, CompressFails(w) \/ FrameWorkerPanics(w)
        PROVE  Drops(W, p, q)
    <2>1. /\ frame_worker[w].state = "busy"
          /\ pc' = pc /\ UNCHANGED <<next_frame, frame_buffer, frame_jobs>>
          /\ UNCHANGED <<frame_job, frame_return, flush_return, emit_return>>
      BY <1>6 DEF CompressFails, FrameWorkerPanics
    <2>2. /\ p.held[w] = frame_worker[w].job.frame /\ p.held[w] # Nothing
          /\ frame_worker[w].job \in FrameJobs
      BY <2>1, FrameHolding
    <2>3. q.buffered = p.buffered /\ q.next = p.next /\ q.queued = p.queued
      BY <1>0, <1>1, <2>1 DEF frame_queued, frame_in_hand, receiving, appending, flushing
    <2>4. \E state \in {"stopped", "panicked"} :
             frame_worker' = [frame_worker EXCEPT ![w] = Worker(state, NoFrameJob)]
      BY <1>6 DEF CompressFails, FrameWorkerPanics
    <2>5. q.held = [p.held EXCEPT ![w] = Nothing]
      BY <2>4, FrameHeld
    <2>6. CASE frame_results' = frame_results
      BY <1>1, <2>2, <2>3, <2>5, <2>6 DEF Drops, Loses
    <2>7. CASE frame_results' # frame_results
      <3> DEFINE m == Failed([job |-> frame_worker[w].job, len |-> 0])
      <3>1. frame_results' = Append(frame_results, m)
        BY <1>6, <2>7 DEF CompressFails, FrameWorkerPanics
      <3>2. m \in FrameMessages /\ m.value.job = frame_worker[w].job /\ m.ok = FALSE
        BY <2>2 DEF Failed, FrameMessages, FrameResults
      <3> HIDE DEF m
      <3>4. q.results = Append(p.results, [id |-> m.value.job.frame, ok |-> m.ok])
        BY <3>1, <3>2, FrameResultAdded
      <3>5. q.results = Append(p.results, [id |-> p.held[w], ok |-> FALSE])
        BY <2>2, <3>2, <3>4
      <3> QED  BY <2>2, <2>3, <2>5, <3>5 DEF Drops, Gives
    <2> QED  BY <2>6, <2>7
  <1>7. ASSUME NEW w \in W, FrameWorkerStops(w) PROVE Keeps(W, p, q)
    <2>1. /\ frame_worker[w].state = "idle"
          /\ frame_worker' = [frame_worker EXCEPT ![w] = Worker("stopped", NoFrameJob)]
          /\ pc' = pc /\ UNCHANGED <<next_frame, frame_buffer, frame_jobs, frame_results>>
          /\ UNCHANGED <<frame_job, frame_return, flush_return, emit_return>>
      BY <1>7 DEF FrameWorkerStops
    <2>2. q.buffered = p.buffered /\ q.next = p.next /\ q.queued = p.queued
          /\ q.results = p.results
      BY <1>0, <1>1, <2>1 DEF frame_queued, frame_in_hand, receiving, appending, flushing
    <2>3. q.held = [p.held EXCEPT ![w] = Nothing] /\ p.held[w] = Nothing
      <3>0. \E state \in {"stopped"} :
              frame_worker' = [frame_worker EXCEPT ![w] = Worker(state, NoFrameJob)]
        BY <2>1
      <3>1. q.held = [p.held EXCEPT ![w] = Nothing]
        BY <3>0, FrameHeld
      <3>2. p.held[w] = Nothing
        BY <2>1, FrameHolding
      <3> QED  BY <3>1, <3>2
    <2>4. q.held = p.held
      BY <2>3, ZenonT(60) DEF FramePool
    <2> QED  BY <1>0, <2>2, <2>4 DEF Keeps
  <1>8. ASSUME ReceiveFrame PROVE Keeps(W, p, q)
    <2>1. /\ frame_results # <<>> /\ Head(frame_results).ok
          /\ frame_buffer' = frame_buffer \cup {Head(frame_results).value}
          /\ frame_results' = Tail(frame_results)
          /\ UNCHANGED <<next_frame, frame_worker>>
          /\ pc' = "append"
      BY <1>8 DEF ReceiveFrame
    <2>2. ~\E w \in W : TakeFrameJob(w)
      BY <2>1 DEF TakeFrameJob
    <2>3. running'
      BY <2>1 DEF running
    <2>4. q.held = p.held /\ q.next = p.next /\ q.queued = p.queued
      BY <1>0, <1>1, <1>4, <2>1, <2>2, <2>3
    <2>5. /\ p.results # <<>> /\ q.results = Tail(p.results)
          /\ p.results[1].id = Head(frame_results).value.job.frame
          /\ p.results[1].ok
      BY <2>1, FrameResultTaken
    <2>6. q.buffered = p.buffered \cup {Head(frame_results).value.job.frame}
      BY <2>1 DEF FramePool
    <2> HIDE DEF p, q
    <2> QED  BY <2>4, <2>5, <2>6 DEF Keeps, Receives
  <1>9. ASSUME AppendFrame PROVE Keeps(W, p, q)
    <2>1. PICK r \in next_results :
             /\ frame_buffer' = frame_buffer \ {r}
             /\ next_frame' = [next_frame EXCEPT !.result = @ + 1]
      BY <1>9 DEF AppendFrame
    <2>2. /\ UNCHANGED <<frame_results, frame_worker, frame_jobs, pc>>
          /\ pc = "append"
      BY <1>9 DEF AppendFrame
    <2>3. ~\E w \in W : TakeFrameJob(w)
      BY <2>1, <2>2 DEF TakeFrameJob, TypeOK
    <2>4. running'
      BY <2>2 DEF running
    <2>5. r \in frame_buffer /\ r.job.frame = next_frame.result
      BY DEF next_results
    <2>6. next_frame'.result = next_frame.result + 1
      BY <2>1 DEF TypeOK
    <2>7. q.buffered = p.buffered \ {next_frame.result}
      <3>1. \A s \in frame_buffer : s.job.frame = r.job.frame => s = r
        BY <2>5 DEF FramesOnce
      <3> QED  BY <2>1, <2>5, <3>1 DEF FramePool
    <2>8. next_frame.result \in p.buffered
      BY <2>5 DEF FramePool
    <2>9. q.held = p.held /\ q.results = p.results /\ q.queued = p.queued
      BY <1>1, <1>4, <2>2, <2>3, <2>4
    <2> HIDE DEF p, q
    <2> QED  BY <1>0, <2>6, <2>7, <2>8, <2>9 DEF Keeps, Consumes
  <1>10. ASSUME ReceiveFrameFails PROVE Wastes(W, p, q) /\ ~running'
    <2>1. /\ UNCHANGED <<next_frame, frame_worker, frame_buffer, frame_jobs>>
          /\ pc' = "unwind" /\ pc = "receive"
          /\ \/ frame_results # <<>> /\ frame_results' = Tail(frame_results)
             \/ frame_results' = frame_results
      BY <1>10 DEF ReceiveFrameFails, Unwind
    <2>2. ~\E w \in W : TakeFrameJob(w)
      BY <2>1 DEF TakeFrameJob
    <2>3. q.held = p.held /\ q.next = p.next /\ q.buffered = p.buffered
          /\ q.queued >= p.queued
      BY <1>0, <1>1, <1>4, <2>1, <2>2
    <2>4. q.results = p.results \/ (p.results # <<>> /\ q.results = Tail(p.results))
      BY <1>1, <2>1, FrameResultTaken
    <2>5. Wastes(W, p, q)
      BY <2>3, <2>4 DEF Wastes
    <2> QED  BY <2>1, <2>5 DEF running
  <1>11. ASSUME ~ReceiveFrame, ~AppendFrame, ~ReceiveFrameFails,
                ~\E w \in W : FrameWorkerStep(w)
         PROVE  Keeps(W, p, q) \/ (Wastes(W, p, q) /\ ~running')
    <2>1. UNCHANGED <<frame_worker, frame_results, frame_buffer>>
      BY <1>11, FrameEffects DEF FrameWorkerStep
    <2>2. next_frame'.result = next_frame.result
      BY <1>11, FrameHand
    <2>3. ~\E w \in W : TakeFrameJob(w)
      BY <1>11 DEF FrameWorkerStep
    <2>4. /\ q.held = p.held /\ q.next = p.next /\ q.buffered = p.buffered
          /\ q.results = p.results
      BY <1>0, <1>1, <2>1, <2>2
    <2>5. CASE running'
      BY <1>0, <1>4, <2>3, <2>4, <2>5 DEF Keeps
    <2>6. CASE ~running'
      BY <1>4, <2>3, <2>4, <2>6 DEF Wastes
    <2> QED  BY <2>5, <2>6
  <1>12. (\E w \in W : CompressFails(w) \/ FrameWorkerPanics(w))
            => \E w \in W : FrameWorkerStep(w)
    BY DEF FrameWorkerStep
  <1>15. CASE \E w \in W : FrameWorkerStep(w)
    <2>1. PICK w \in W : FrameWorkerStep(w)
      BY <1>15
    <2>2. CASE \E v \in W : CompressFails(v) \/ FrameWorkerPanics(v)
      BY <1>6, <2>2
    <2>3. CASE ~\E v \in W : CompressFails(v) \/ FrameWorkerPanics(v)
      <3>1. TakeFrameJob(w) \/ CompressFrame(w) \/ FrameWorkerStops(w)
        BY <2>1, <2>3 DEF FrameWorkerStep
      <3> QED  BY <1>3, <1>5, <1>7, <2>3, <3>1
    <2> QED  BY <2>2, <2>3
  <1>16. CASE ~\E w \in W : FrameWorkerStep(w)
    BY <1>8, <1>9, <1>10, <1>11, <1>12, <1>16
  <1> QED  BY <1>15, <1>16

-----------------------------------------------------------------------------
(***************************************************************************)
(* The pipeline of the envelopes                                           *)
(***************************************************************************)

Seals == SealForAppend \/ FinalSeal

\* What happens to the envelope job in the main thread's hand.
LEMMA EnvelopeHand ==
    ASSUME TypeOK, [Next]_vars
    PROVE  /\ envelope_in_hand' => Seals \/ (envelope_in_hand /\ UNCHANGED envelope_job)
           /\ running' /\ envelope_in_hand => envelope_in_hand' \/ SendEnvelopeJob
           /\ envelope_in_hand' => running'
           /\ Seals => /\ ~envelope_in_hand /\ running' /\ envelope_in_hand'
                       /\ envelope_job'.index = envelope.index
                       /\ envelope'.index = envelope.index + 1
                       /\ UNCHANGED envelope_worker
           /\ SendEnvelopeJob => envelope_in_hand /\ ~envelope_in_hand' /\ running'
           /\ SendEnvelopeJob => UNCHANGED envelope_worker
           /\ Seals \/ envelope'.index = envelope.index
           /\ EmitEnvelope \/ next_envelope' = next_envelope
           /\ running' => running
  <1>0. /\ frame_return \in {"drain", "send", "finish_frames"}
        /\ flush_return \in {"append", "finish_envelopes"}
        /\ emit_return \in {"drain", "seal", "finish_envelopes"}
        /\ envelope \in [index : Nat, plaintext : Seq(Nat), len : Nat]
    BY DEF TypeOK
  <1>1. Seals => /\ envelope_job'.index = envelope.index
                 /\ envelope'.index = envelope.index + 1
                 /\ UNCHANGED envelope_worker
                 /\ pc \in {"append", "finish_frames"} /\ pc' = "seal"
    BY DEF Seals, SealForAppend, FinalSeal, Seal, EmptyEnvelope
  <1>2. AppendFrame => envelope'.index = envelope.index
    BY <1>0 DEF AppendFrame, extend_envelope
  <1>3. SendEnvelopeJob => /\ pc = "seal" /\ pc' = "collect" /\ emit_return' = "drain"
                           /\ UNCHANGED <<envelope_worker, envelope>>
    BY DEF SendEnvelopeJob
  <1>4. SinkFails => UNCHANGED next_envelope
    BY SMTT(40) DEF SinkFails
  <1> USE DEF BeginMember, EndMembers, ReadChunk, ReadFails, MemberDone,
              SendFrameJob, FrameJobsFull, ReceiveFrame, ReceiveFrameFails,
              DrainedFrames, AppendFrame, FrameTooLarge, AppendDone,
              SealForAppend, SendEnvelopeJob, EnvelopeJobsFull,
              ReceiveEnvelope, ReceiveEnvelopeFails, DrainedEnvelopes,
              EmitEnvelope, SinkFails, EmitDone, AwaitFrames, FinalSeal,
              NothingToSeal, AwaitEnvelopes, EnvelopesDone, Join, ScopeEnds,
              Finished, TakeFrameJob, CompressFrame, CompressFails,
              FrameWorkerPanics, FrameWorkerStops, TakeEnvelopeJob,
              EncryptEnvelope, EncryptFails, EnvelopeWorkerPanics,
              EnvelopeWorkerStops, Next, MainStep, FrameWorkerStep,
              EnvelopeWorkerStep, Unwind, Fault, Seal, Seals
  <1>5. envelope_in_hand' => Seals \/ envelope_in_hand
    BY <1>0, ZenonT(60) DEF envelope_in_hand
  <1>6. running' /\ envelope_in_hand => envelope_in_hand' \/ SendEnvelopeJob
    BY <1>0, ZenonT(60) DEF envelope_in_hand, running
  <1>7. Seals \/ SendEnvelopeJob \/ UNCHANGED envelope_job
    OBVIOUS
  <1>8. Seals \/ AppendFrame \/ UNCHANGED envelope
    OBVIOUS
  <1>9. EmitEnvelope \/ SinkFails \/ UNCHANGED next_envelope
    BY Effects
  <1>10. running' => running
    BY Effects DEF running
  <1> HIDE DEF Seals, SealForAppend, FinalSeal, SendEnvelopeJob, AppendFrame,
               EmitEnvelope, SinkFails, Next, Seal
  <1> USE DEF envelope_in_hand, running
  <1>11. envelope_in_hand' => running'
    OBVIOUS
  <1>12. Seals => ~envelope_in_hand /\ running' /\ envelope_in_hand'
    BY <1>1
  <1>13. SendEnvelopeJob => envelope_in_hand /\ ~envelope_in_hand' /\ running'
    BY <1>3
  <1> QED  BY <1>1, <1>2, <1>3, <1>4, <1>5, <1>6, <1>7, <1>8, <1>9, <1>10, <1>11, <1>12, <1>13

\* The jobs stay in order; a job leaves the channel to the worker that takes it,
\* and after an error return the one in the main thread's hand is dropped.
LEMMA EnvelopesQueuedStep ==
    ASSUME TypeOK, EnvelopesQueued, [Next]_vars
    PROVE  /\ EnvelopesQueued'
           /\ (\E w \in EnvelopeWorkers : TakeEnvelopeJob(w)) =>
                 /\ envelope_jobs # <<>> /\ envelope_queued = Head(envelope_jobs).index
                 /\ envelope_queued' > envelope_queued
                 /\ running' => envelope_queued' = envelope_queued + 1
           /\ ~(\E w \in EnvelopeWorkers : TakeEnvelopeJob(w)) =>
                 /\ running' => envelope_queued' = envelope_queued
                 /\ envelope_queued' >= envelope_queued
  <1> USE DEF EnvelopesQueued, envelope_queued
  <1>0. /\ envelope_jobs \in Seq(EnvelopeJobs) /\ Len(envelope_jobs) \in Nat
        /\ envelope.index \in Nat /\ envelope_job \in EnvelopeJobs /\ envelope_job.index \in Nat
        /\ envelope_jobs # <<>> => Len(envelope_jobs) >= 1
        /\ \A i \in 1 .. Len(envelope_jobs) : envelope_jobs[i].index \in Nat
    <2>1. /\ envelope_jobs \in Seq(EnvelopeJobs) /\ envelope.index \in Nat
          /\ envelope_job \in EnvelopeJobs
      BY DEF TypeOK
    <2>2. \A i \in 1 .. Len(envelope_jobs) : envelope_jobs[i] \in EnvelopeJobs
      BY <2>1, ElementOfSeq
    <2> QED  BY <2>1, <2>2, TailOf, LenProperties DEF EnvelopeJobs
  <1>1. CASE Seals
    <2>1. envelope_jobs' = envelope_jobs
      BY <1>1 DEF Seals, SealForAppend, FinalSeal, Seal
    <2>2. ~\E w \in EnvelopeWorkers : TakeEnvelopeJob(w)
      BY <1>1 DEF Seals, SealForAppend, FinalSeal, Seal, TakeEnvelopeJob
    <2>3. /\ ~envelope_in_hand /\ running' /\ envelope_in_hand'
          /\ envelope_job'.index = envelope.index /\ envelope'.index = envelope.index + 1
          /\ running
      BY <1>1, EnvelopeHand
    <2>4. EnvelopesQueued'
      BY <1>0, <2>1, <2>3
    <2>5. envelope_queued' = envelope_queued /\ envelope_queued \in Nat
      BY <1>0, <2>1, <2>3
    <2> HIDE DEF EnvelopesQueued, envelope_queued
    <2> QED  BY <2>2, <2>4, <2>5
  <1>2. CASE SendEnvelopeJob
    <2>1. envelope_jobs' = Append(envelope_jobs, envelope_job)
      BY <1>2 DEF SendEnvelopeJob
    <2>2. ~\E w \in EnvelopeWorkers : TakeEnvelopeJob(w)
      BY <1>2 DEF SendEnvelopeJob, TakeEnvelopeJob
    <2>3. /\ envelope_in_hand /\ ~envelope_in_hand' /\ running' /\ running
          /\ envelope'.index = envelope.index
      BY <1>2, EnvelopeHand
    <2>4. /\ Len(envelope_jobs') = Len(envelope_jobs) + 1
          /\ \A i \in 1 .. Len(envelope_jobs) : envelope_jobs'[i] = envelope_jobs[i]
          /\ envelope_jobs'[Len(envelope_jobs) + 1] = envelope_job
          /\ envelope_jobs' # <<>>
      BY <1>0, <2>1, AppendOf, AppendProperties
    <2>5. envelope_job.index = envelope.index - 1
      BY <2>3
    <2>6. ASSUME NEW i \in 1 .. Len(envelope_jobs') - 1
          PROVE  envelope_jobs'[i + 1].index = envelope_jobs'[i].index + 1
      <3>1. CASE i = Len(envelope_jobs)
        <4>1. envelope_jobs # <<>>
          BY <1>0, <2>4, <3>1, EmptySeq
        <4> QED  BY <1>0, <2>3, <2>4, <3>1, <4>1
      <3>2. CASE i # Len(envelope_jobs)
        <4>1. i \in 1 .. Len(envelope_jobs) - 1 /\ i \in 1 .. Len(envelope_jobs) /\ i + 1 \in 1 .. Len(envelope_jobs)
          BY <1>0, <2>4, <3>2
        <4> QED  BY <2>4, <4>1
      <3> QED  BY <3>1, <3>2
    <2>7. ASSUME NEW i \in 1 .. Len(envelope_jobs') PROVE envelope_jobs'[i].index < envelope'.index
      BY <1>0, <2>3, <2>4, <2>5
    <2>8. EnvelopesQueued'
      BY <1>0, <2>3, <2>4, <2>5, <2>6, <2>7
    <2>9. envelope_queued' = envelope_queued
      <3>1. CASE envelope_jobs = <<>>
        BY <1>0, <2>3, <2>4, <3>1, EmptySeq
      <3>2. CASE envelope_jobs # <<>>
        BY <1>0, <2>4, <3>2
      <3> QED  BY <3>1, <3>2
    <2>10. envelope_queued \in Nat
      BY <1>0, SMTT(40)
    <2> HIDE DEF envelope_queued, EnvelopesQueued
    <2> QED  BY <2>2, <2>8, <2>9, <2>10
  <1>3. CASE \E w \in EnvelopeWorkers : TakeEnvelopeJob(w)
    <2>1. /\ envelope_jobs # <<>> /\ envelope_jobs' = Tail(envelope_jobs)
          /\ pc' = pc /\ frame_return' = frame_return /\ flush_return' = flush_return
          /\ emit_return' = emit_return /\ envelope_job' = envelope_job /\ envelope' = envelope
      BY <1>3 DEF TakeEnvelopeJob
    <2>2. /\ envelope_in_hand' <=> envelope_in_hand
          /\ running' <=> running
      BY <2>1 DEF envelope_in_hand, running
    <2>3. /\ Len(envelope_jobs) >= 1 /\ Len(envelope_jobs') = Len(envelope_jobs) - 1
          /\ \A i \in 1 .. Len(envelope_jobs') : envelope_jobs'[i] = envelope_jobs[i + 1]
          /\ Head(envelope_jobs) = envelope_jobs[1]
          /\ envelope_jobs' \in Seq(EnvelopeJobs)
      BY <1>0, <2>1, TailOf
    <2>4. \A i \in 1 .. Len(envelope_jobs') : i + 1 \in 1 .. Len(envelope_jobs)
      BY <1>0, <2>3
    <2>5. \A i \in 1 .. Len(envelope_jobs') - 1 :
            /\ i \in 1 .. Len(envelope_jobs') /\ i + 1 \in 1 .. Len(envelope_jobs')
            /\ i + 1 \in 1 .. Len(envelope_jobs) - 1
      BY <1>0, <2>3
    <2>6. \A i \in 1 .. Len(envelope_jobs') - 1 : envelope_jobs'[i + 1].index = envelope_jobs'[i].index + 1
      BY <2>3, <2>5, SMTT(40)
    <2>7. \A i \in 1 .. Len(envelope_jobs') : envelope_jobs'[i].index < envelope'.index
      BY <2>1, <2>3, <2>4
    <2>8. envelope_jobs' # <<>> =>
            /\ Len(envelope_jobs') >= 1
            /\ envelope_jobs'[Len(envelope_jobs')] = envelope_jobs[Len(envelope_jobs)]
            /\ envelope_jobs'[1] = envelope_jobs[2] /\ envelope_jobs[2].index = envelope_jobs[1].index + 1
      <3> HAVE envelope_jobs' # <<>>
      <3>1. Len(envelope_jobs') \in Nat /\ Len(envelope_jobs') >= 1
        BY <2>3, TailOf
      <3>2. Len(envelope_jobs') + 1 = Len(envelope_jobs) /\ 1 \in 1 .. Len(envelope_jobs) - 1
        BY <1>0, <2>3, <3>1
      <3> QED  BY <2>3, <3>1, <3>2
    <2>9. envelope_jobs' = <<>> => Len(envelope_jobs) = 1
      BY <1>0, <2>3, EmptySeq
    <2>10. EnvelopesQueued'
      BY <2>1, <2>2, <2>6, <2>7, <2>8
    <2>11. envelope_queued = envelope_jobs[1].index /\ envelope_jobs[1].index \in Nat
      BY <1>0, <2>1
    <2>12. running => envelope_queued' = envelope_queued + 1
      <3>1. CASE envelope_jobs' = <<>>
        BY <1>0, <2>1, <2>2, <2>9, <2>11, <3>1
      <3>2. CASE envelope_jobs' # <<>>
        BY <2>8, <2>11, <3>2
      <3> QED  BY <3>1, <3>2
    <2>13. envelope_queued' > envelope_queued
      <3>1. CASE envelope_jobs' = <<>>
        <4>1. ~running => envelope_queued' = envelope.index
          BY <2>1, <2>2, <3>1, EnvelopeHand
        <4>2. envelope_jobs[1].index < envelope.index
          BY <1>0, <2>3
        <4>3. envelope_queued + 1 > envelope_queued
          BY <2>11
        <4> HIDE DEF envelope_queued
        <4> QED  BY <1>0, <2>11, <2>12, <4>1, <4>2, <4>3
      <3>2. CASE envelope_jobs' # <<>>
        BY <2>8, <2>11, <3>2
      <3> QED  BY <3>1, <3>2
    <2> QED  BY <1>3, <2>1, <2>2, <2>3, <2>10, <2>11, <2>12, <2>13
  <1>4. CASE ~Seals /\ ~SendEnvelopeJob /\ ~\E w \in EnvelopeWorkers : TakeEnvelopeJob(w)
    <2>1. envelope_jobs' = envelope_jobs /\ envelope'.index = envelope.index
      BY <1>4, Effects, EnvelopeHand
    <2>2. /\ envelope_in_hand' => envelope_in_hand /\ envelope_job' = envelope_job /\ running'
          /\ running' /\ envelope_in_hand => envelope_in_hand'
          /\ running' => running
      BY <1>4, EnvelopeHand
    <2>3. EnvelopesQueued'
      BY <2>1, <2>2
    <2>4. running' => envelope_queued' = envelope_queued
      BY <2>1, <2>2
    <2>5. envelope_queued' >= envelope_queued
      BY <1>0, <2>1, <2>2
    <2> QED  BY <1>4, <2>3, <2>4, <2>5
  <1> QED  BY <1>1, <1>2, <1>3, <1>4

\* The pool of the envelopes is a pool.
LEMMA EnvelopePoolType == TypeOK => EnvelopePool \in Pools(EnvelopeWorkers)
  <1> SUFFICES ASSUME TypeOK PROVE EnvelopePool \in Pools(EnvelopeWorkers)
    OBVIOUS
  <1>1. /\ envelope_worker \in [EnvelopeWorkers -> [state : WorkerStates, job : EnvelopeJobs]]
        /\ envelope_results \in Seq(EnvelopeMessages) /\ envelope_buffer \subseteq EnvelopeJobs
        /\ next_envelope \in Nat /\ envelope.index \in Nat
        /\ envelope_jobs \in Seq(EnvelopeJobs) /\ envelope_job \in EnvelopeJobs
    BY DEF TypeOK
  <1>2. EnvelopePool.held \in [EnvelopeWorkers -> Nat \cup {Nothing}]
    BY <1>1 DEF EnvelopePool, EnvelopeJobs
  <1>3. EnvelopePool.results \in Seq([id : Nat, ok : BOOLEAN])
    <2>1. \A i \in 1 .. Len(envelope_results) : envelope_results[i] \in EnvelopeMessages
      BY <1>1, ElementOfSeq
    <2>2. Len(envelope_results) \in Nat
      BY <1>1
    <2>3. EnvelopePool.results \in [1 .. Len(envelope_results) -> [id : Nat, ok : BOOLEAN]]
      BY <2>1 DEF EnvelopePool, EnvelopeMessages, EnvelopeJobs
    <2> QED  BY <2>2, <2>3, SeqDef
  <1>4. EnvelopePool.buffered \in SUBSET Nat
    BY <1>1 DEF EnvelopePool, EnvelopeJobs
  <1>5. EnvelopePool.queued \in Nat
    <2>1. envelope_jobs # <<>> => envelope_jobs[1] \in EnvelopeJobs
      BY <1>1, TailOf
    <2> QED  BY <1>1, <2>1 DEF EnvelopePool, envelope_queued, EnvelopeJobs
  <1>6. EnvelopePool.next \in Nat
    BY <1>1 DEF EnvelopePool
  <1>7. EnvelopePool = [held |-> EnvelopePool.held, results |-> EnvelopePool.results,
                     buffered |-> EnvelopePool.buffered, next |-> EnvelopePool.next,
                     queued |-> EnvelopePool.queued]
    BY DEF EnvelopePool
  <1> QED  BY <1>2, <1>3, <1>4, <1>5, <1>6, <1>7 DEF Pools

LEMMA EnvelopePoolTypeNext == TypeOK' => (EnvelopePool \in Pools(EnvelopeWorkers))'
  BY EnvelopePoolType, PTL

\* A result added to the channel of the envelopes, or taken from it.
LEMMA EnvelopeResultAdded ==
    ASSUME TypeOK, NEW m \in EnvelopeMessages, envelope_results' = Append(envelope_results, m)
    PROVE  EnvelopePool'.results
             = Append(EnvelopePool.results, [id |-> m.value.index, ok |-> m.ok])
  <1>1. envelope_results \in Seq(EnvelopeMessages)
    BY DEF TypeOK
  <1>2. /\ Len(envelope_results) \in Nat /\ Len(envelope_results') = Len(envelope_results) + 1
        /\ \A i \in 1 .. Len(envelope_results) : envelope_results'[i] = envelope_results[i]
        /\ envelope_results'[Len(envelope_results) + 1] = m
    BY <1>1, AppendOf
  <1> DEFINE x == [id |-> m.value.index, ok |-> m.ok]
             f == EnvelopePool.results
             g == EnvelopePool'.results
  <1>3. f \in Seq([id : Nat, ok : BOOLEAN])
    BY EnvelopePoolType DEF Pools
  <1>4. x \in [id : Nat, ok : BOOLEAN]
    BY DEF EnvelopeMessages, EnvelopeJobs
  <1>5. f = [i \in 1 .. Len(envelope_results) |->
               [id |-> envelope_results[i].value.index, ok |-> envelope_results[i].ok]]
    BY DEF EnvelopePool
  <1>6. g = [i \in 1 .. Len(envelope_results') |->
               [id |-> envelope_results'[i].value.index, ok |-> envelope_results'[i].ok]]
    BY DEF EnvelopePool
  <1>7. Len(f) = Len(envelope_results)
    BY <1>2, <1>3, <1>5
  <1>8. Append(f, x) = [i \in 1 .. Len(f) + 1 |-> IF i = Len(f) + 1 THEN x ELSE f[i]]
    BY <1>3, <1>4
  <1>9. \A i \in 1 .. Len(envelope_results) + 1 :
          g[i] = IF i = Len(envelope_results) + 1 THEN x ELSE f[i]
    BY <1>2, <1>5, <1>6
  <1>10. g = [i \in 1 .. Len(envelope_results) + 1 |-> g[i]]
    BY <1>2, <1>6
  <1> HIDE DEF f, g, x
  <1>11. g = Append(f, x)
    BY <1>7, <1>8, <1>9, <1>10
  <1> QED  BY <1>11 DEF f, g, x

LEMMA EnvelopeResultTaken ==
    ASSUME TypeOK, envelope_results # <<>>, envelope_results' = Tail(envelope_results)
    PROVE  /\ EnvelopePool.results # <<>>
           /\ EnvelopePool'.results = Tail(EnvelopePool.results)
           /\ EnvelopePool.results[1] = [id |-> Head(envelope_results).value.index,
                                      ok |-> Head(envelope_results).ok]
  <1>1. envelope_results \in Seq(EnvelopeMessages)
    BY DEF TypeOK
  <1>2. /\ Len(envelope_results) \in Nat /\ Len(envelope_results) >= 1
        /\ Len(envelope_results') = Len(envelope_results) - 1
        /\ \A i \in 1 .. Len(envelope_results') : envelope_results'[i] = envelope_results[i + 1]
        /\ Head(envelope_results) = envelope_results[1]
    BY <1>1, TailOf
  <1> DEFINE f == EnvelopePool.results
             g == EnvelopePool'.results
  <1>3. f \in Seq([id : Nat, ok : BOOLEAN])
    BY EnvelopePoolType DEF Pools
  <1>4. f = [i \in 1 .. Len(envelope_results) |->
               [id |-> envelope_results[i].value.index, ok |-> envelope_results[i].ok]]
    BY DEF EnvelopePool
  <1>5. g = [i \in 1 .. Len(envelope_results') |->
               [id |-> envelope_results'[i].value.index, ok |-> envelope_results'[i].ok]]
    BY DEF EnvelopePool
  <1>6. Len(f) = Len(envelope_results)
    BY <1>2, <1>3, <1>4
  <1>7. f # <<>>
    BY <1>2, <1>3, <1>6, EmptySeq
  <1>8. Tail(f) = [i \in 1 .. Len(f) - 1 |-> f[i + 1]]
    BY <1>3, <1>7, HeadTailProperties
  <1>9. \A i \in 1 .. Len(envelope_results) - 1 : g[i] = f[i + 1]
    BY <1>2, <1>4, <1>5
  <1>10. g = [i \in 1 .. Len(envelope_results) - 1 |-> g[i]]
    BY <1>2, <1>5
  <1>11. g = Tail(f)
    BY <1>6, <1>8, <1>9, <1>10
  <1>12. f[1] = [id |-> Head(envelope_results).value.index, ok |-> Head(envelope_results).ok]
    BY <1>2, <1>4
  <1> QED  BY <1>7, <1>11, <1>12

\* A encryption worker changes its state.
LEMMA EnvelopeHeld ==
    ASSUME TypeOK, NEW w \in EnvelopeWorkers, NEW state, NEW job,
           envelope_worker' = [envelope_worker EXCEPT ![w] = Worker(state, job)]
    PROVE  EnvelopePool'.held
             = [EnvelopePool.held EXCEPT ![w] = IF state = "busy" THEN job.index ELSE Nothing]
  <1>1. envelope_worker \in [EnvelopeWorkers -> [state : WorkerStates, job : EnvelopeJobs]]
    BY DEF TypeOK
  <1> QED  BY <1>1 DEF EnvelopePool, Worker

\* What a worker of the envelopes holds.
LEMMA EnvelopeHolding ==
    ASSUME TypeOK, NEW w \in EnvelopeWorkers
    PROVE  /\ envelope_worker[w].state = "busy" =>
                 /\ EnvelopePool.held[w] = envelope_worker[w].job.index
                 /\ EnvelopePool.held[w] # Nothing
                 /\ envelope_worker[w].job \in EnvelopeJobs
           /\ envelope_worker[w].state # "busy" => EnvelopePool.held[w] = Nothing
  <1>1. envelope_worker \in [EnvelopeWorkers -> [state : WorkerStates, job : EnvelopeJobs]]
    BY DEF TypeOK
  <1> QED  BY <1>1 DEF EnvelopePool, EnvelopeJobs, Nothing

\* Every step of the writer is a step of the pool of envelopes, and a fault of a
\* encryption worker is one that drops an envelope.
LEMMA EnvelopePoolStep ==
    ASSUME TypeOK, TypeOK', EnvelopesOnce, [Next]_vars
    PROVE  LET p == EnvelopePool
               q == EnvelopePool'
               W == EnvelopeWorkers
           IN  /\ Keeps(W, p, q) \/ Drops(W, p, q) \/ Wastes(W, p, q)
               /\ running' => Keeps(W, p, q) \/ Drops(W, p, q)
               /\ running' /\ ~(\E w \in W : EncryptFails(w) \/ EnvelopeWorkerPanics(w))
                     => Keeps(W, p, q)
               /\ running' /\ (\E w \in W : EncryptFails(w) \/ EnvelopeWorkerPanics(w))
                     => Drops(W, p, q)
  <1> DEFINE p == EnvelopePool
             q == EnvelopePool'
             W == EnvelopeWorkers
  <1>0. /\ p = [held |-> p.held, results |-> p.results, buffered |-> p.buffered,
                next |-> p.next, queued |-> p.queued]
        /\ q = [held |-> q.held, results |-> q.results, buffered |-> q.buffered,
                next |-> q.next, queued |-> q.queued]
        /\ p.queued = envelope_queued /\ q.queued = envelope_queued'
        /\ p.next = next_envelope /\ q.next = next_envelope'
        /\ envelope_queued \in Nat /\ envelope_queued' \in Nat
    BY EnvelopePoolType, EnvelopePoolTypeNext DEF EnvelopePool, Pools
  <1>1. /\ envelope_worker' = envelope_worker => q.held = p.held
        /\ envelope_results' = envelope_results => q.results = p.results
        /\ envelope_buffer' = envelope_buffer => q.buffered = p.buffered
    BY DEF EnvelopePool
  <1>2. EnvelopesQueued
    BY DEF EnvelopesOnce
  <1>3. ASSUME NEW w \in W, TakeEnvelopeJob(w)
        PROVE  Keeps(W, p, q) \/ (Wastes(W, p, q) /\ ~running')
    <2>1. /\ envelope_jobs # <<>> /\ envelope_queued = Head(envelope_jobs).index
          /\ envelope_queued' > envelope_queued
          /\ running' => envelope_queued' = envelope_queued + 1
      BY <1>2, <1>3, EnvelopesQueuedStep
    <2>2. /\ q.results = p.results /\ q.buffered = p.buffered /\ q.next = p.next
      BY <1>0, <1>1, <1>3 DEF TakeEnvelopeJob
    <2>3. /\ p.held[w] = Nothing
          /\ q.held = [p.held EXCEPT ![w] = p.queued]
      <3>1. /\ envelope_worker[w].state = "idle"
            /\ envelope_worker' = [envelope_worker EXCEPT ![w] = Worker("busy", Head(envelope_jobs))]
        BY <1>3 DEF TakeEnvelopeJob
      <3>2. q.held = [p.held EXCEPT ![w] = Head(envelope_jobs).index]
        BY <3>1, EnvelopeHeld
      <3>3. p.held[w] = Nothing
        BY <3>1, EnvelopeHolding
      <3> QED  BY <1>0, <2>1, <3>2, <3>3
    <2> HIDE DEF p, q, W
    <2>4. CASE running'
      BY <1>0, <2>1, <2>2, <2>3, <2>4 DEF Keeps, Takes
    <2>5. CASE ~running'
      <3>1. q.queued > p.queued /\ q.queued >= p.queued
        BY <1>0, <2>1
      <3> QED  BY <1>3, <2>2, <2>3, <2>5, <3>1 DEF Wastes
    <2> QED  BY <2>4, <2>5
  <1>4. ~(\E w \in W : TakeEnvelopeJob(w)) =>
          /\ running' => q.queued = p.queued
          /\ q.queued >= p.queued
    BY <1>0, <1>2, EnvelopesQueuedStep
  <1>5. ASSUME NEW w \in W, EncryptEnvelope(w)
        PROVE  /\ running' => Keeps(W, p, q)
               /\ Keeps(W, p, q) \/ Drops(W, p, q)
    <2>1. /\ envelope_worker[w].state = "busy"
          /\ pc' = pc /\ UNCHANGED <<envelope, next_envelope, envelope_buffer, envelope_jobs>>
          /\ UNCHANGED <<envelope_job, frame_return, flush_return, emit_return>>
      BY <1>5 DEF EncryptEnvelope
    <2>2. /\ p.held[w] = envelope_worker[w].job.index /\ p.held[w] # Nothing
          /\ envelope_worker[w].job \in EnvelopeJobs
      BY <2>1, EnvelopeHolding
    <2>3. q.buffered = p.buffered /\ q.next = p.next /\ q.queued = p.queued
      BY <1>0, <1>1, <2>1 DEF envelope_queued, envelope_in_hand
    <2>4. \E state \in {"stopped", "idle"} :
             envelope_worker' = [envelope_worker EXCEPT ![w] = Worker(state, NoEnvelopeJob)]
      BY <1>5 DEF EncryptEnvelope
    <2>5. q.held = [p.held EXCEPT ![w] = Nothing]
      BY <2>4, EnvelopeHeld
    <2>6. CASE pc \in Returned
      <3>1. q.results = p.results
        BY <1>1, <1>5, <2>6 DEF EncryptEnvelope
      <3> QED  BY <2>1, <2>2, <2>3, <2>5, <2>6, <3>1 DEF Drops, Loses, running
    <2>7. CASE pc \notin Returned
      <3>1. envelope_results' = Append(envelope_results, Ok(envelope_worker[w].job))
        BY <1>5, <2>7 DEF EncryptEnvelope
      <3> DEFINE m == Ok(envelope_worker[w].job)
      <3>2. m \in EnvelopeMessages /\ m.value = envelope_worker[w].job /\ m.ok = TRUE
        BY <2>2 DEF Ok, EnvelopeMessages
      <3>3. envelope_results' = Append(envelope_results, m)
        BY <3>1
      <3> HIDE DEF m
      <3>4. q.results = Append(p.results, [id |-> m.value.index, ok |-> m.ok])
        BY <3>2, <3>3, EnvelopeResultAdded
      <3>5. q.results = Append(p.results, [id |-> p.held[w], ok |-> TRUE])
        BY <2>2, <3>2, <3>4
      <3> QED  BY <2>2, <2>3, <2>5, <3>5 DEF Keeps, Gives
    <2> QED  BY <2>6, <2>7
  <1>6. ASSUME NEW w \in W, EncryptFails(w) \/ EnvelopeWorkerPanics(w)
        PROVE  Drops(W, p, q)
    <2>1. /\ envelope_worker[w].state = "busy"
          /\ pc' = pc /\ UNCHANGED <<envelope, next_envelope, envelope_buffer, envelope_jobs>>
          /\ UNCHANGED <<envelope_job, frame_return, flush_return, emit_return>>
      BY <1>6 DEF EncryptFails, EnvelopeWorkerPanics
    <2>2. /\ p.held[w] = envelope_worker[w].job.index /\ p.held[w] # Nothing
          /\ envelope_worker[w].job \in EnvelopeJobs
      BY <2>1, EnvelopeHolding
    <2>3. q.buffered = p.buffered /\ q.next = p.next /\ q.queued = p.queued
      BY <1>0, <1>1, <2>1 DEF envelope_queued, envelope_in_hand
    <2>4. \E state \in {"stopped", "panicked"} :
             envelope_worker' = [envelope_worker EXCEPT ![w] = Worker(state, NoEnvelopeJob)]
      BY <1>6 DEF EncryptFails, EnvelopeWorkerPanics
    <2>5. q.held = [p.held EXCEPT ![w] = Nothing]
      BY <2>4, EnvelopeHeld
    <2>6. CASE envelope_results' = envelope_results
      BY <1>1, <2>2, <2>3, <2>5, <2>6 DEF Drops, Loses
    <2>7. CASE envelope_results' # envelope_results
      <3> DEFINE m == Failed(envelope_worker[w].job)
      <3>1. envelope_results' = Append(envelope_results, m)
        BY <1>6, <2>7 DEF EncryptFails, EnvelopeWorkerPanics
      <3>2. m \in EnvelopeMessages /\ m.value = envelope_worker[w].job /\ m.ok = FALSE
        BY <2>2 DEF Failed, EnvelopeMessages
      <3> HIDE DEF m
      <3>4. q.results = Append(p.results, [id |-> m.value.index, ok |-> m.ok])
        BY <3>1, <3>2, EnvelopeResultAdded
      <3>5. q.results = Append(p.results, [id |-> p.held[w], ok |-> FALSE])
        BY <2>2, <3>2, <3>4
      <3> QED  BY <2>2, <2>3, <2>5, <3>5 DEF Drops, Gives
    <2> QED  BY <2>6, <2>7
  <1>7. ASSUME NEW w \in W, EnvelopeWorkerStops(w) PROVE Keeps(W, p, q)
    <2>1. /\ envelope_worker[w].state = "idle"
          /\ envelope_worker' = [envelope_worker EXCEPT ![w] = Worker("stopped", NoEnvelopeJob)]
          /\ pc' = pc /\ UNCHANGED <<envelope, next_envelope, envelope_buffer, envelope_jobs,
                                    envelope_results>>
          /\ UNCHANGED <<envelope_job, frame_return, flush_return, emit_return>>
      BY <1>7 DEF EnvelopeWorkerStops
    <2>2. q.buffered = p.buffered /\ q.next = p.next /\ q.queued = p.queued
          /\ q.results = p.results
      BY <1>0, <1>1, <2>1 DEF envelope_queued, envelope_in_hand
    <2>3. q.held = [p.held EXCEPT ![w] = Nothing] /\ p.held[w] = Nothing
      <3>0. \E state \in {"stopped"} :
              envelope_worker' = [envelope_worker EXCEPT ![w] = Worker(state, NoEnvelopeJob)]
        BY <2>1
      <3>1. q.held = [p.held EXCEPT ![w] = Nothing]
        BY <3>0, EnvelopeHeld
      <3>2. p.held[w] = Nothing
        BY <2>1, EnvelopeHolding
      <3> QED  BY <3>1, <3>2
    <2>4. q.held = p.held
      BY <2>3, ZenonT(60) DEF EnvelopePool
    <2> QED  BY <1>0, <2>2, <2>4 DEF Keeps
  <1>8. ASSUME ReceiveEnvelope PROVE Keeps(W, p, q)
    <2>1. /\ envelope_results # <<>> /\ Head(envelope_results).ok
          /\ envelope_buffer' = envelope_buffer \cup {Head(envelope_results).value}
          /\ envelope_results' = Tail(envelope_results)
          /\ UNCHANGED <<next_envelope, envelope_worker>>
          /\ pc' = "emit"
      BY <1>8 DEF ReceiveEnvelope
    <2>2. ~\E w \in W : TakeEnvelopeJob(w)
      BY <2>1 DEF TakeEnvelopeJob
    <2>3. running'
      BY <2>1 DEF running
    <2>4. q.held = p.held /\ q.next = p.next /\ q.queued = p.queued
      BY <1>0, <1>1, <1>4, <2>1, <2>2, <2>3
    <2>5. /\ p.results # <<>> /\ q.results = Tail(p.results)
          /\ p.results[1].id = Head(envelope_results).value.index
          /\ p.results[1].ok
      BY <2>1, EnvelopeResultTaken
    <2>6. q.buffered = p.buffered \cup {Head(envelope_results).value.index}
      BY <2>1 DEF EnvelopePool
    <2> HIDE DEF p, q
    <2> QED  BY <2>4, <2>5, <2>6 DEF Keeps, Receives
  <1>9. ASSUME EmitEnvelope PROVE Keeps(W, p, q)
    <2>1. PICK e \in next_sealed :
             /\ envelope_buffer' = envelope_buffer \ {e}
             /\ next_envelope' = next_envelope + 1
      BY <1>9 DEF EmitEnvelope
    <2>2. /\ UNCHANGED <<envelope_results, envelope_worker, envelope_jobs, pc>>
          /\ pc = "emit"
      BY <1>9 DEF EmitEnvelope
    <2>3. ~\E w \in W : TakeEnvelopeJob(w)
      BY <2>1, <2>2 DEF TakeEnvelopeJob, TypeOK
    <2>4. running'
      BY <2>2 DEF running
    <2>5. e \in envelope_buffer /\ e.index = next_envelope
      BY DEF next_sealed
    <2>6. next_envelope' = next_envelope + 1
      BY <2>1 DEF TypeOK
    <2>7. q.buffered = p.buffered \ {next_envelope}
      <3>1. \A d \in envelope_buffer : d.index = e.index => d = e
        BY <2>5 DEF EnvelopesOnce
      <3> QED  BY <2>1, <2>5, <3>1 DEF EnvelopePool
    <2>8. next_envelope \in p.buffered
      BY <2>5 DEF EnvelopePool
    <2>9. q.held = p.held /\ q.results = p.results /\ q.queued = p.queued
      BY <1>1, <1>4, <2>2, <2>3, <2>4
    <2> HIDE DEF p, q
    <2> QED  BY <1>0, <2>6, <2>7, <2>8, <2>9 DEF Keeps, Consumes
  <1>10. ASSUME ReceiveEnvelopeFails PROVE Wastes(W, p, q) /\ ~running'
    <2>1. /\ UNCHANGED <<next_envelope, envelope_worker, envelope_buffer, envelope_jobs>>
          /\ pc' = "unwind" /\ pc = "collect"
          /\ \/ envelope_results # <<>> /\ envelope_results' = Tail(envelope_results)
             \/ envelope_results' = envelope_results
      BY <1>10 DEF ReceiveEnvelopeFails, Unwind
    <2>2. ~\E w \in W : TakeEnvelopeJob(w)
      BY <2>1 DEF TakeEnvelopeJob
    <2>3. q.held = p.held /\ q.next = p.next /\ q.buffered = p.buffered
          /\ q.queued >= p.queued
      BY <1>0, <1>1, <1>4, <2>1, <2>2
    <2>4. q.results = p.results \/ (p.results # <<>> /\ q.results = Tail(p.results))
      BY <1>1, <2>1, EnvelopeResultTaken
    <2>5. Wastes(W, p, q)
      BY <2>3, <2>4 DEF Wastes
    <2> QED  BY <2>1, <2>5 DEF running
  <1>13. ASSUME SinkFails PROVE Wastes(W, p, q) /\ ~running'
    <2>1. /\ UNCHANGED <<next_envelope, envelope_worker, envelope_results, envelope_jobs>>
          /\ envelope_buffer' \subseteq envelope_buffer /\ pc = "emit" /\ pc' = "unwind"
      BY <1>13 DEF SinkFails, Unwind
    <2>2. ~\E w \in W : TakeEnvelopeJob(w)
      BY <2>1 DEF TakeEnvelopeJob
    <2>3. q.held = p.held /\ q.next = p.next /\ q.results = p.results
          /\ q.queued >= p.queued
      BY <1>0, <1>1, <1>4, <2>1, <2>2
    <2>4. q.buffered \subseteq p.buffered
      BY <2>1 DEF EnvelopePool
    <2>5. Wastes(W, p, q)
      BY <2>3, <2>4 DEF Wastes
    <2> QED  BY <2>1, <2>5 DEF running
  <1>11. ASSUME ~ReceiveEnvelope, ~EmitEnvelope, ~ReceiveEnvelopeFails, ~SinkFails,
                ~\E w \in W : EnvelopeWorkerStep(w)
         PROVE  Keeps(W, p, q) \/ (Wastes(W, p, q) /\ ~running')
    <2>1. UNCHANGED <<envelope_worker, envelope_results, envelope_buffer>>
      BY <1>11, Effects DEF EnvelopeWorkerStep
    <2>2. next_envelope' = next_envelope
      BY <1>11, EnvelopeHand
    <2>3. ~\E w \in W : TakeEnvelopeJob(w)
      BY <1>11 DEF EnvelopeWorkerStep
    <2>4. /\ q.held = p.held /\ q.next = p.next /\ q.buffered = p.buffered
          /\ q.results = p.results
      BY <1>0, <1>1, <2>1, <2>2
    <2>5. CASE running'
      BY <1>0, <1>4, <2>3, <2>4, <2>5 DEF Keeps
    <2>6. CASE ~running'
      BY <1>4, <2>3, <2>4, <2>6 DEF Wastes
    <2> QED  BY <2>5, <2>6
  <1>12. (\E w \in W : EncryptFails(w) \/ EnvelopeWorkerPanics(w))
            => \E w \in W : EnvelopeWorkerStep(w)
    BY DEF EnvelopeWorkerStep
  <1>15. CASE \E w \in W : EnvelopeWorkerStep(w)
    <2>1. PICK w \in W : EnvelopeWorkerStep(w)
      BY <1>15
    <2>2. CASE \E v \in W : EncryptFails(v) \/ EnvelopeWorkerPanics(v)
      BY <1>6, <2>2
    <2>3. CASE ~\E v \in W : EncryptFails(v) \/ EnvelopeWorkerPanics(v)
      <3>1. TakeEnvelopeJob(w) \/ EncryptEnvelope(w) \/ EnvelopeWorkerStops(w)
        BY <2>1, <2>3 DEF EnvelopeWorkerStep
      <3> QED  BY <1>3, <1>5, <1>7, <2>3, <3>1
    <2> QED  BY <2>2, <2>3
  <1>16. CASE ~\E w \in W : EnvelopeWorkerStep(w)
    BY <1>8, <1>9, <1>10, <1>11, <1>12, <1>13, <1>16
  <1> QED  BY <1>15, <1>16

-----------------------------------------------------------------------------
(***************************************************************************)
(* Numbers are in one place, and faults show                               *)
(***************************************************************************)

\* The worker faults that lose a job.
FrameFault == \E w \in FrameWorkers : CompressFails(w) \/ FrameWorkerPanics(w)
EnvelopeFault == \E w \in EnvelopeWorkers : EncryptFails(w) \/ EnvelopeWorkerPanics(w)

\* A fault is never forgotten; one that happens while the writer goes on is a
\* worker's.
LEMMA FaultEffects ==
    ASSUME TypeOK, [Next]_vars
    PROVE  /\ faults \subseteq faults'
           /\ FrameFault \/ EnvelopeFault => faults' # {}
           /\ running' /\ faults = {} /\ faults' # {} => FrameFault \/ EnvelopeFault
  <1> USE DEF BeginMember, EndMembers, ReadChunk, ReadFails, MemberDone,
              SendFrameJob, FrameJobsFull, ReceiveFrame, ReceiveFrameFails,
              DrainedFrames, AppendFrame, FrameTooLarge, AppendDone,
              SealForAppend, SendEnvelopeJob, EnvelopeJobsFull,
              ReceiveEnvelope, ReceiveEnvelopeFails, DrainedEnvelopes,
              EmitEnvelope, SinkFails, EmitDone, AwaitFrames, FinalSeal,
              NothingToSeal, AwaitEnvelopes, EnvelopesDone, Join, ScopeEnds,
              Finished, TakeFrameJob, CompressFrame, CompressFails,
              FrameWorkerPanics, FrameWorkerStops, TakeEnvelopeJob,
              EncryptEnvelope, EncryptFails, EnvelopeWorkerPanics,
              EnvelopeWorkerStops, Next, MainStep, FrameWorkerStep,
              EnvelopeWorkerStep, Unwind, Fault, Seal
  <1>1. faults \subseteq faults'
    OBVIOUS
  <1>2. FrameFault \/ EnvelopeFault => faults' # {}
    BY DEF FrameFault, EnvelopeFault
  <1>3. running' => FrameFault \/ EnvelopeFault \/ faults' = faults
    BY DEF FrameFault, EnvelopeFault, running
  <1> QED  BY <1>1, <1>2, <1>3, SMTT(40)

\* A frame number stays in one place.
LEMMA FramesOnceStep ==
    ASSUME TypeOK, TypeOK', FramesOnce, [Next]_vars
    PROVE  FramesOnce'
  <1> DEFINE p == FramePool
             q == FramePool'
  <1>1. p \in Pools(FrameWorkers) /\ q \in Pools(FrameWorkers)
    BY FramePoolType, FramePoolTypeNext
  <1>2. \/ Keeps(FrameWorkers, p, q) \/ Drops(FrameWorkers, p, q)
        \/ Wastes(FrameWorkers, p, q)
    BY FramePoolStep
  <1>3. Apart(FrameWorkers, p) /\ Ranged(FrameWorkers, p)
    BY DEF FramesOnce
  <1>4. Apart(FrameWorkers, q) /\ Ranged(FrameWorkers, q)
    <2> HIDE DEF p, q
    <2> QED  BY <1>1, <1>2, <1>3, PoolStep
  <1>5. FramesQueued'
    BY FramesQueuedStep DEF FramesOnce
  <1>6. \A r, s \in frame_buffer' : r.job.frame = s.job.frame => r = s
    <2>1. CASE ReceiveFrame
      <3>1. /\ frame_results # <<>> /\ frame_results' = Tail(frame_results)
            /\ frame_buffer' = frame_buffer \cup {Head(frame_results).value}
        BY <2>1 DEF ReceiveFrame
      <3>2. /\ p.results # <<>>
            /\ p.results[1].id = Head(frame_results).value.job.frame
        BY <3>1, FrameResultTaken
      <3>3. p.results \in Seq([id : Nat, ok : BOOLEAN])
        BY <1>1 DEF Pools
      <3>4. 1 \in 1 .. Len(p.results)
        BY <3>2, <3>3, TailOf
      <3>5. Head(frame_results).value.job.frame \notin p.buffered
        BY <1>3, <3>2, <3>4 DEF Apart
      <3>6. \A r \in frame_buffer : r.job.frame # Head(frame_results).value.job.frame
        BY <3>5 DEF FramePool
      <3> QED  BY <3>1, <3>6 DEF FramesOnce
    <2>2. CASE AppendFrame \/ UNCHANGED frame_buffer
      <3>1. frame_buffer' \subseteq frame_buffer
        BY <2>2 DEF AppendFrame
      <3> QED  BY <3>1 DEF FramesOnce
    <2> QED  BY <2>1, <2>2, FrameEffects
  <1> QED  BY <1>4, <1>5, <1>6 DEF FramesOnce

\* An envelope index stays in one place.
LEMMA EnvelopesOnceStep ==
    ASSUME TypeOK, TypeOK', EnvelopesOnce, [Next]_vars
    PROVE  EnvelopesOnce'
  <1> DEFINE p == EnvelopePool
             q == EnvelopePool'
  <1>1. p \in Pools(EnvelopeWorkers) /\ q \in Pools(EnvelopeWorkers)
    BY EnvelopePoolType, EnvelopePoolTypeNext
  <1>2. \/ Keeps(EnvelopeWorkers, p, q) \/ Drops(EnvelopeWorkers, p, q)
        \/ Wastes(EnvelopeWorkers, p, q)
    BY EnvelopePoolStep
  <1>3. Apart(EnvelopeWorkers, p) /\ Ranged(EnvelopeWorkers, p)
    BY DEF EnvelopesOnce
  <1>4. Apart(EnvelopeWorkers, q) /\ Ranged(EnvelopeWorkers, q)
    <2> HIDE DEF p, q
    <2> QED  BY <1>1, <1>2, <1>3, PoolStep
  <1>5. EnvelopesQueued'
    BY EnvelopesQueuedStep DEF EnvelopesOnce
  <1>6. \A d, e \in envelope_buffer' : d.index = e.index => d = e
    <2>1. CASE ReceiveEnvelope
      <3>1. /\ envelope_results # <<>> /\ envelope_results' = Tail(envelope_results)
            /\ envelope_buffer' = envelope_buffer \cup {Head(envelope_results).value}
        BY <2>1 DEF ReceiveEnvelope
      <3>2. /\ p.results # <<>>
            /\ p.results[1].id = Head(envelope_results).value.index
        BY <3>1, EnvelopeResultTaken
      <3>3. p.results \in Seq([id : Nat, ok : BOOLEAN])
        BY <1>1 DEF Pools
      <3>4. 1 \in 1 .. Len(p.results)
        BY <3>2, <3>3, TailOf
      <3>5. Head(envelope_results).value.index \notin p.buffered
        BY <1>3, <3>2, <3>4 DEF Apart
      <3>6. \A e \in envelope_buffer : e.index # Head(envelope_results).value.index
        BY <3>5 DEF EnvelopePool
      <3> QED  BY <3>1, <3>6 DEF EnvelopesOnce
    <2>2. CASE EmitEnvelope \/ SinkFails \/ UNCHANGED envelope_buffer
      <3>1. envelope_buffer' \subseteq envelope_buffer
        BY <2>2 DEF EmitEnvelope, SinkFails
      <3> QED  BY <3>1 DEF EnvelopesOnce
    <2> QED  BY <2>1, <2>2, Effects
  <1> QED  BY <1>4, <1>5, <1>6 DEF EnvelopesOnce

\* While the writer runs, a number is missing exactly if a fault has happened.
LEMMA FaultsShowStep ==
    ASSUME TypeOK, TypeOK', FramesOnce, EnvelopesOnce, FaultsShow, [Next]_vars
    PROVE  FaultsShow'
  <1> SUFFICES ASSUME running'
               PROVE  /\ faults' = {} => /\ AllLive(FrameWorkers, FramePool')
                                         /\ AllLive(EnvelopeWorkers, EnvelopePool')
                      /\ faults' # {} => \/ Spoilt(FrameWorkers, FramePool')
                                         \/ Spoilt(EnvelopeWorkers, EnvelopePool')
    BY DEF FaultsShow
  <1> DEFINE p == FramePool
             q == FramePool'
             d == EnvelopePool
             e == EnvelopePool'
  <1>1. /\ p \in Pools(FrameWorkers) /\ q \in Pools(FrameWorkers)
        /\ Apart(FrameWorkers, p) /\ Ranged(FrameWorkers, p)
        /\ d \in Pools(EnvelopeWorkers) /\ e \in Pools(EnvelopeWorkers)
        /\ Apart(EnvelopeWorkers, d) /\ Ranged(EnvelopeWorkers, d)
    BY FramePoolType, FramePoolTypeNext, EnvelopePoolType, EnvelopePoolTypeNext
       DEF FramesOnce, EnvelopesOnce
  <1>2. /\ Keeps(FrameWorkers, p, q) \/ Drops(FrameWorkers, p, q)
        /\ ~FrameFault => Keeps(FrameWorkers, p, q)
        /\ FrameFault => Drops(FrameWorkers, p, q)
    BY FramePoolStep DEF FrameFault
  <1>3. /\ Keeps(EnvelopeWorkers, d, e) \/ Drops(EnvelopeWorkers, d, e)
        /\ ~EnvelopeFault => Keeps(EnvelopeWorkers, d, e)
        /\ EnvelopeFault => Drops(EnvelopeWorkers, d, e)
    BY EnvelopePoolStep DEF EnvelopeFault
  <1>4. /\ running
        /\ faults = {} => AllLive(FrameWorkers, p) /\ AllLive(EnvelopeWorkers, d)
        /\ faults # {} => Spoilt(FrameWorkers, p) \/ Spoilt(EnvelopeWorkers, d)
    BY FrameHand DEF FaultsShow
  <1> HIDE DEF p, q, d, e
  <1>5. /\ Keeps(FrameWorkers, p, q) => /\ AllLive(FrameWorkers, p) => AllLive(FrameWorkers, q)
                                        /\ Spoilt(FrameWorkers, p) => Spoilt(FrameWorkers, q)
        /\ Drops(FrameWorkers, p, q) => Spoilt(FrameWorkers, q)
    BY <1>1, <1>2, PoolStep
  <1>6. /\ Keeps(EnvelopeWorkers, d, e) =>
             /\ AllLive(EnvelopeWorkers, d) => AllLive(EnvelopeWorkers, e)
             /\ Spoilt(EnvelopeWorkers, d) => Spoilt(EnvelopeWorkers, e)
        /\ Drops(EnvelopeWorkers, d, e) => Spoilt(EnvelopeWorkers, e)
    BY <1>1, <1>3, PoolStep
  <1>7. faults' = {} => AllLive(FrameWorkers, q) /\ AllLive(EnvelopeWorkers, e)
    <2> HAVE faults' = {}
    <2>1. faults = {} /\ ~FrameFault /\ ~EnvelopeFault
      BY FaultEffects
    <2> QED  BY <1>2, <1>3, <1>4, <1>5, <1>6, <2>1
  <1>8. faults' # {} => Spoilt(FrameWorkers, q) \/ Spoilt(EnvelopeWorkers, e)
    <2> HAVE faults' # {}
    <2>1. faults # {} \/ FrameFault \/ EnvelopeFault
      BY FaultEffects
    <2> QED  BY <1>2, <1>3, <1>4, <1>5, <1>6, <2>1
  <1> QED  BY <1>7, <1>8 DEF q, e

\* Without a fault the workers only stop when there is nothing left to come.
LEMMA FaultlessStep ==
    ASSUME TypeOK, TypeOK', KnowsFrames, KnowsEnvelopes, FaultlessWorkers, [Next]_vars
    PROVE  FaultlessWorkers'
  <1> SUFFICES ASSUME faults' = {}
               PROVE  /\ \A w \in FrameWorkers : frame_worker'[w].state # "panicked"
                      /\ \A w \in EnvelopeWorkers : envelope_worker'[w].state # "panicked"
                      /\ \A i \in 1 .. Len(frame_results') : frame_results'[i].ok
                      /\ \A i \in 1 .. Len(envelope_results') : envelope_results'[i].ok
                      /\ running' /\ (\E w \in FrameWorkers : frame_worker'[w].state \in Gone)
                            => "frame" \notin senders' /\ frame_jobs' = <<>>
                      /\ running' /\ (\E w \in EnvelopeWorkers : envelope_worker'[w].state \in Gone)
                            => "envelope" \notin senders' /\ envelope_jobs' = <<>>
    BY DEF FaultlessWorkers
  <1>1. faults = {} /\ ~FrameFault /\ ~EnvelopeFault
    BY FaultEffects
  <1>2. /\ frame_worker \in [FrameWorkers -> [state : WorkerStates, job : FrameJobs]]
        /\ envelope_worker \in [EnvelopeWorkers -> [state : WorkerStates, job : EnvelopeJobs]]
        /\ frame_results \in Seq(FrameMessages)
        /\ envelope_results \in Seq(EnvelopeMessages)
        /\ frame_jobs \in Seq(FrameJobs) /\ envelope_jobs \in Seq(EnvelopeJobs)
    BY DEF TypeOK
  <1>3. /\ \A w \in FrameWorkers : frame_worker[w].state # "panicked"
        /\ \A w \in EnvelopeWorkers : envelope_worker[w].state # "panicked"
        /\ \A i \in 1 .. Len(frame_results) : frame_results[i].ok
        /\ \A i \in 1 .. Len(envelope_results) : envelope_results[i].ok
        /\ running /\ (\E w \in FrameWorkers : frame_worker[w].state \in Gone)
              => "frame" \notin senders /\ frame_jobs = <<>>
        /\ running /\ (\E w \in EnvelopeWorkers : envelope_worker[w].state \in Gone)
              => "envelope" \notin senders /\ envelope_jobs = <<>>
    BY <1>1 DEF FaultlessWorkers
  <1>4. \/ \E w \in FrameWorkers : TakeFrameJob(w) \/ CompressFrame(w) \/ FrameWorkerStops(w)
        \/ UNCHANGED frame_worker
    BY <1>1, FrameEffects DEF FrameWorkerStep, FrameFault
  <1>5. \/ \E w \in EnvelopeWorkers :
             TakeEnvelopeJob(w) \/ EncryptEnvelope(w) \/ EnvelopeWorkerStops(w)
        \/ UNCHANGED envelope_worker
    BY <1>1, Effects DEF EnvelopeWorkerStep, EnvelopeFault
  <1>6. \A w \in FrameWorkers :
           /\ frame_worker'[w].state # "panicked"
           /\ running' /\ frame_worker'[w].state \in Gone
                 => frame_worker[w].state \in Gone \/ \E v \in FrameWorkers : FrameWorkerStops(v)
    <2>1. CASE UNCHANGED frame_worker
      BY <1>3, <2>1
    <2>2. ASSUME NEW v \in FrameWorkers, TakeFrameJob(v) \/ CompressFrame(v) \/ FrameWorkerStops(v)
          PROVE  \A w \in FrameWorkers :
                    /\ frame_worker'[w].state # "panicked"
                    /\ running' /\ frame_worker'[w].state \in Gone
                          => frame_worker[w].state \in Gone \/ \E u \in FrameWorkers : FrameWorkerStops(u)
      <3>1. \E state \in {"busy", "idle", "stopped"} : \E job :
              /\ frame_worker' = [frame_worker EXCEPT ![v] = Worker(state, job)]
              /\ state = "stopped" => ~running' \/ FrameWorkerStops(v)
        <4>1. CASE TakeFrameJob(v)
          BY <4>1 DEF TakeFrameJob
        <4>2. CASE CompressFrame(v)
          BY <4>2 DEF CompressFrame, running
        <4>3. CASE FrameWorkerStops(v)
          BY <4>3 DEF FrameWorkerStops
        <4> QED  BY <2>2, <4>1, <4>2, <4>3
      <3>5. PICK state \in {"busy", "idle", "stopped"} : \E job :
              /\ frame_worker' = [frame_worker EXCEPT ![v] = Worker(state, job)]
              /\ state = "stopped" => ~running' \/ FrameWorkerStops(v)
        BY <3>1
      <3>2. PICK job :
              /\ frame_worker' = [frame_worker EXCEPT ![v] = Worker(state, job)]
              /\ state = "stopped" => ~running' \/ FrameWorkerStops(v)
        BY <3>5
      <3>3. /\ frame_worker'[v].state = state
            /\ \A w \in FrameWorkers : w # v => frame_worker'[w] = frame_worker[w]
        BY <1>2, <3>2 DEF Worker
      <3> QED  BY <1>3, <3>2, <3>3 DEF Gone
    <2> QED  BY <1>4, <2>1, <2>2
  <1>7. \A w \in EnvelopeWorkers :
           /\ envelope_worker'[w].state # "panicked"
           /\ running' /\ envelope_worker'[w].state \in Gone
                 => envelope_worker[w].state \in Gone \/ \E v \in EnvelopeWorkers : EnvelopeWorkerStops(v)
    <2>1. CASE UNCHANGED envelope_worker
      BY <1>3, <2>1
    <2>2. ASSUME NEW v \in EnvelopeWorkers, TakeEnvelopeJob(v) \/ EncryptEnvelope(v) \/ EnvelopeWorkerStops(v)
          PROVE  \A w \in EnvelopeWorkers :
                    /\ envelope_worker'[w].state # "panicked"
                    /\ running' /\ envelope_worker'[w].state \in Gone
                          => envelope_worker[w].state \in Gone \/ \E u \in EnvelopeWorkers : EnvelopeWorkerStops(u)
      <3>1. \E state \in {"busy", "idle", "stopped"} : \E job :
              /\ envelope_worker' = [envelope_worker EXCEPT ![v] = Worker(state, job)]
              /\ state = "stopped" => ~running' \/ EnvelopeWorkerStops(v)
        <4>1. CASE TakeEnvelopeJob(v)
          BY <4>1 DEF TakeEnvelopeJob
        <4>2. CASE EncryptEnvelope(v)
          BY <4>2 DEF EncryptEnvelope, running
        <4>3. CASE EnvelopeWorkerStops(v)
          BY <4>3 DEF EnvelopeWorkerStops
        <4> QED  BY <2>2, <4>1, <4>2, <4>3
      <3>5. PICK state \in {"busy", "idle", "stopped"} : \E job :
              /\ envelope_worker' = [envelope_worker EXCEPT ![v] = Worker(state, job)]
              /\ state = "stopped" => ~running' \/ EnvelopeWorkerStops(v)
        BY <3>1
      <3>2. PICK job :
              /\ envelope_worker' = [envelope_worker EXCEPT ![v] = Worker(state, job)]
              /\ state = "stopped" => ~running' \/ EnvelopeWorkerStops(v)
        BY <3>5
      <3>3. /\ envelope_worker'[v].state = state
            /\ \A w \in EnvelopeWorkers : w # v => envelope_worker'[w] = envelope_worker[w]
        BY <1>2, <3>2 DEF Worker
      <3> QED  BY <1>3, <3>2, <3>3 DEF Gone
    <2> QED  BY <1>5, <2>1, <2>2
  <1>8. \A i \in 1 .. Len(frame_results') : frame_results'[i].ok
    <2>1. CASE ReceiveFrame \/ ReceiveFrameFails \/ UNCHANGED frame_results
      <3>1. \/ frame_results # <<>> /\ frame_results' = Tail(frame_results)
            \/ frame_results' = frame_results
        BY <2>1 DEF ReceiveFrame, ReceiveFrameFails
      <3>2. CASE frame_results # <<>> /\ frame_results' = Tail(frame_results)
        <4>1. \A i \in 1 .. Len(frame_results') : i + 1 \in 1 .. Len(frame_results) /\ frame_results'[i] = frame_results[i + 1]
          BY <1>2, <3>2, TailOf
        <4> QED  BY <1>3, <4>1
      <3> QED  BY <1>3, <3>1, <3>2
    <2>2. CASE \E w \in FrameWorkers : CompressFrame(w)
      <3>1. PICK w \in FrameWorkers : CompressFrame(w)
        BY <2>2
      <3>2. \/ \E len \in FrameLens :
                 frame_results' = Append(frame_results,
                                    Ok([job |-> frame_worker[w].job, len |-> len]))
            \/ frame_results' = frame_results
        BY <3>1 DEF CompressFrame
      <3>3. \A len \in FrameLens : Ok([job |-> frame_worker[w].job, len |-> len]) \in FrameMessages
        BY <1>2, InputAssumption DEF Ok, FrameMessages, FrameResults
      <3>4. \A len \in FrameLens : Ok([job |-> frame_worker[w].job, len |-> len]).ok
        BY DEF Ok
      <3>5. \/ \E m \in FrameMessages : m.ok /\ frame_results' = Append(frame_results, m)
            \/ frame_results' = frame_results
        BY <3>2, <3>3, <3>4
      <3>6. ASSUME NEW m \in FrameMessages, m.ok, frame_results' = Append(frame_results, m),
                   NEW i \in 1 .. Len(frame_results')
            PROVE  frame_results'[i].ok
        <4>1. /\ Len(frame_results) \in Nat /\ Len(frame_results') = Len(frame_results) + 1
              /\ \A j \in 1 .. Len(frame_results) : frame_results'[j] = frame_results[j]
              /\ frame_results'[Len(frame_results) + 1] = m
          BY <1>2, <3>6, AppendOf
        <4>2. CASE i = Len(frame_results) + 1
          BY <3>6, <4>1, <4>2
        <4>3. CASE i # Len(frame_results) + 1
          <5>1. i \in 1 .. Len(frame_results)
            BY <4>1, <4>3
          <5> QED  BY <1>3, <4>1, <5>1
        <4> QED  BY <4>2, <4>3
      <3> QED  BY <1>3, <3>5, <3>6
    <2> QED  BY <1>1, <2>1, <2>2, FrameEffects DEF FrameFault
  <1>9. \A i \in 1 .. Len(envelope_results') : envelope_results'[i].ok
    <2>1. CASE ReceiveEnvelope \/ ReceiveEnvelopeFails \/ UNCHANGED envelope_results
      <3>1. \/ envelope_results # <<>> /\ envelope_results' = Tail(envelope_results)
            \/ envelope_results' = envelope_results
        BY <2>1 DEF ReceiveEnvelope, ReceiveEnvelopeFails
      <3>2. CASE envelope_results # <<>> /\ envelope_results' = Tail(envelope_results)
        <4>1. \A i \in 1 .. Len(envelope_results') : i + 1 \in 1 .. Len(envelope_results) /\ envelope_results'[i] = envelope_results[i + 1]
          BY <1>2, <3>2, TailOf
        <4> QED  BY <1>3, <4>1
      <3> QED  BY <1>3, <3>1, <3>2
    <2>2. CASE \E w \in EnvelopeWorkers : EncryptEnvelope(w)
      <3>1. PICK w \in EnvelopeWorkers : EncryptEnvelope(w)
        BY <2>2
      <3>2. \/ envelope_results' = Append(envelope_results, Ok(envelope_worker[w].job))
            \/ envelope_results' = envelope_results
        BY <3>1 DEF EncryptEnvelope
      <3>3. Ok(envelope_worker[w].job) \in EnvelopeMessages /\ Ok(envelope_worker[w].job).ok
        BY <1>2 DEF Ok, EnvelopeMessages
      <3>5. \/ \E m \in EnvelopeMessages : m.ok /\ envelope_results' = Append(envelope_results, m)
            \/ envelope_results' = envelope_results
        BY <3>2, <3>3
      <3>6. ASSUME NEW m \in EnvelopeMessages, m.ok,
                   envelope_results' = Append(envelope_results, m),
                   NEW i \in 1 .. Len(envelope_results')
            PROVE  envelope_results'[i].ok
        <4>1. /\ Len(envelope_results) \in Nat
              /\ Len(envelope_results') = Len(envelope_results) + 1
              /\ \A j \in 1 .. Len(envelope_results) : envelope_results'[j] = envelope_results[j]
              /\ envelope_results'[Len(envelope_results) + 1] = m
          BY <1>2, <3>6, AppendOf
        <4>2. CASE i = Len(envelope_results) + 1
          BY <3>6, <4>1, <4>2
        <4>3. CASE i # Len(envelope_results) + 1
          <5>1. i \in 1 .. Len(envelope_results)
            BY <4>1, <4>3
          <5> QED  BY <1>3, <4>1, <5>1
        <4> QED  BY <4>2, <4>3
      <3> QED  BY <1>3, <3>5, <3>6
    <2> QED  BY <1>1, <2>1, <2>2, Effects DEF EnvelopeFault
  <1>10. ASSUME running', NEW w \in FrameWorkers, frame_worker'[w].state \in Gone
         PROVE  "frame" \notin senders' /\ frame_jobs' = <<>>
    <2>1. running /\ senders' \subseteq senders
      <3>1. senders' \subseteq senders
        BY DEF BeginMember, EndMembers, ReadChunk, ReadFails, MemberDone,
              SendFrameJob, FrameJobsFull, ReceiveFrame, ReceiveFrameFails,
              DrainedFrames, AppendFrame, FrameTooLarge, AppendDone,
              SealForAppend, SendEnvelopeJob, EnvelopeJobsFull,
              ReceiveEnvelope, ReceiveEnvelopeFails, DrainedEnvelopes,
              EmitEnvelope, SinkFails, EmitDone, AwaitFrames, FinalSeal,
              NothingToSeal, AwaitEnvelopes, EnvelopesDone, Join, ScopeEnds,
              Finished, TakeFrameJob, CompressFrame, CompressFails,
              FrameWorkerPanics, FrameWorkerStops, TakeEnvelopeJob,
              EncryptEnvelope, EncryptFails, EnvelopeWorkerPanics,
              EnvelopeWorkerStops, Next, MainStep, FrameWorkerStep,
              EnvelopeWorkerStep, Unwind, Fault, Seal
      <3> QED  BY <1>10, <3>1, FrameHand, SMTT(40)
    <2>2. CASE \E v \in FrameWorkers : FrameWorkerStops(v)
      BY <2>2 DEF FrameWorkerStops
    <2>3. CASE ~\E v \in FrameWorkers : FrameWorkerStops(v)
      <3>1. frame_worker[w].state \in Gone
        BY <1>6, <1>10, <2>3
      <3>2. "frame" \notin senders /\ frame_jobs = <<>>
        BY <1>3, <2>1, <3>1
      <3>3. ~SendFrameJob
        BY <3>2 DEF SendFrameJob, KnowsFrames
      <3>4. ~\E v \in FrameWorkers : TakeFrameJob(v)
        BY <3>2 DEF TakeFrameJob
      <3> QED  BY <2>1, <3>2, <3>3, <3>4, FrameEffects
    <2> QED  BY <2>2, <2>3
  <1>11. ASSUME running', NEW w \in EnvelopeWorkers, envelope_worker'[w].state \in Gone
         PROVE  "envelope" \notin senders' /\ envelope_jobs' = <<>>
    <2>1. running /\ senders' \subseteq senders
      <3>1. senders' \subseteq senders
        BY DEF BeginMember, EndMembers, ReadChunk, ReadFails, MemberDone,
              SendFrameJob, FrameJobsFull, ReceiveFrame, ReceiveFrameFails,
              DrainedFrames, AppendFrame, FrameTooLarge, AppendDone,
              SealForAppend, SendEnvelopeJob, EnvelopeJobsFull,
              ReceiveEnvelope, ReceiveEnvelopeFails, DrainedEnvelopes,
              EmitEnvelope, SinkFails, EmitDone, AwaitFrames, FinalSeal,
              NothingToSeal, AwaitEnvelopes, EnvelopesDone, Join, ScopeEnds,
              Finished, TakeFrameJob, CompressFrame, CompressFails,
              FrameWorkerPanics, FrameWorkerStops, TakeEnvelopeJob,
              EncryptEnvelope, EncryptFails, EnvelopeWorkerPanics,
              EnvelopeWorkerStops, Next, MainStep, FrameWorkerStep,
              EnvelopeWorkerStep, Unwind, Fault, Seal
      <3> QED  BY <1>11, <3>1, FrameHand, SMTT(40)
    <2>2. CASE \E v \in EnvelopeWorkers : EnvelopeWorkerStops(v)
      BY <2>2 DEF EnvelopeWorkerStops
    <2>3. CASE ~\E v \in EnvelopeWorkers : EnvelopeWorkerStops(v)
      <3>1. envelope_worker[w].state \in Gone
        BY <1>7, <1>11, <2>3
      <3>2. "envelope" \notin senders /\ envelope_jobs = <<>>
        BY <1>3, <2>1, <3>1
      <3>3. ~SendEnvelopeJob
        BY <3>2 DEF SendEnvelopeJob, KnowsEnvelopes, awaiting, running
      <3>4. ~\E v \in EnvelopeWorkers : TakeEnvelopeJob(v)
        BY <3>2 DEF TakeEnvelopeJob
      <3> QED  BY <2>1, <3>2, <3>3, <3>4, Effects
    <2> QED  BY <2>2, <2>3
  <1> QED  BY <1>6, <1>7, <1>8, <1>9, <1>10, <1>11

-----------------------------------------------------------------------------
(***************************************************************************)
(* How the writer ends                                                     *)
(***************************************************************************)

\* At join every number has come back, so nothing was lost on the way.
LEMMA NothingMissedAtJoin ==
    ASSUME TypeOK, KnowsFrames, KnowsEnvelopes, FramesOnce, EnvelopesOnce, FaultsShow,
           pc = "join"
    PROVE  faults = {}
  <1>1. /\ next_frame.result = next_frame.job /\ next_envelope = envelope.index
        /\ ~frame_in_hand /\ ~envelope_in_hand
    BY DEF KnowsFrames, KnowsEnvelopes, finishing, awaiting, frame_in_hand, receiving,
           appending, flushing, envelope_in_hand
  <1>2. /\ next_frame.job \in Nat /\ envelope.index \in Nat
        /\ frame_jobs \in Seq(FrameJobs) /\ envelope_jobs \in Seq(EnvelopeJobs)
    BY DEF TypeOK
  <1>3. ~Spoilt(FrameWorkers, FramePool)
    <2>1. frame_queued <= next_frame.job /\ frame_queued \in Nat
      <3>1. CASE frame_jobs = <<>>
        BY <1>1, <1>2, <3>1 DEF frame_queued
      <3>2. CASE frame_jobs # <<>>
        <4>1. 1 \in 1 .. Len(frame_jobs) /\ frame_jobs[1] \in FrameJobs
          BY <1>2, <3>2, TailOf
        <4>2. frame_jobs[1].frame < next_frame.job /\ frame_jobs[1].frame \in Nat
          BY <4>1 DEF FramesOnce, FramesQueued, FrameJobs
        <4> QED  BY <1>2, <3>2, <4>2 DEF frame_queued
      <3> QED  BY <3>1, <3>2
    <2>2. FramePool.next = next_frame.job /\ FramePool.queued = frame_queued
      BY <1>1 DEF FramePool
    <2>3. \A k \in Nat : ~InRange(FramePool, k)
      BY <1>2, <2>1, <2>2 DEF InRange
    <2> QED  BY <2>3 DEF Spoilt
  <1>4. ~Spoilt(EnvelopeWorkers, EnvelopePool)
    <2>1. envelope_queued <= envelope.index /\ envelope_queued \in Nat
      <3>1. CASE envelope_jobs = <<>>
        BY <1>1, <1>2, <3>1 DEF envelope_queued
      <3>2. CASE envelope_jobs # <<>>
        <4>1. 1 \in 1 .. Len(envelope_jobs) /\ envelope_jobs[1] \in EnvelopeJobs
          BY <1>2, <3>2, TailOf
        <4>2. envelope_jobs[1].index < envelope.index /\ envelope_jobs[1].index \in Nat
          BY <4>1 DEF EnvelopesOnce, EnvelopesQueued, EnvelopeJobs
        <4> QED  BY <1>2, <3>2, <4>2 DEF envelope_queued
      <3> QED  BY <3>1, <3>2
    <2>2. EnvelopePool.next = envelope.index /\ EnvelopePool.queued = envelope_queued
      BY <1>1 DEF EnvelopePool
    <2>3. \A k \in Nat : ~InRange(EnvelopePool, k)
      BY <1>2, <2>1, <2>2 DEF InRange
    <2> QED  BY <2>3 DEF Spoilt
  <1> QED  BY <1>3, <1>4 DEF FaultsShow, running

\* "Frame worker stopped" is only seen after a fault: as long as none has
\* happened, the next frame is with a worker or has come back.
LEMMA FrameWorkersNeeded ==
    ASSUME TypeOK, KnowsFrames, FaultlessWorkers, FaultsShow, ReceiveFrameFails
    PROVE  faults # {}
  <1>0. pc = "receive" /\ running /\ ~appending /\ receiving
    BY DEF ReceiveFrameFails, running, appending, receiving, flushing
  <1>1. CASE frame_results # <<>> /\ ~Head(frame_results).ok
    <2>1. frame_results \in Seq(FrameMessages)
      BY DEF TypeOK
    <2>2. 1 \in 1 .. Len(frame_results) /\ Head(frame_results) = frame_results[1]
      BY <1>1, <2>1, TailOf
    <2> QED  BY <1>1, <2>2 DEF FaultlessWorkers
  <1>2. CASE frame_results = <<>> /\ frame_return # "drain" /\ frames_gone
    <2> SUFFICES ASSUME faults = {}
                 PROVE  FALSE
      OBVIOUS
    <2>1. PICK w \in FrameWorkers : TRUE
      BY WorkersAssumption
    <2>2. "frame" \notin senders /\ frame_jobs = <<>>
      BY <1>0, <1>2, <2>1 DEF frames_gone, FaultlessWorkers
    <2>3. frame_return = "finish_frames"
      BY <1>0, <2>2 DEF KnowsFrames
    <2>4. next_frame.result < next_frame.job /\ next_results = {}
      BY <1>0, <2>3 DEF KnowsFrames
    <2>5. next_frame.result \in Nat /\ next_frame.job \in Nat
      BY DEF TypeOK
    <2>6. /\ FramePool.next = next_frame.result /\ FramePool.queued = next_frame.job
          /\ Len(FramePool.results) = 0
      <3>1. ~frame_in_hand
        BY <1>0, <2>3 DEF frame_in_hand
      <3>2. frame_queued = next_frame.job
        BY <2>2, <3>1 DEF frame_queued
      <3>3. FramePool.results = <<>>
        BY <1>2 DEF FramePool
      <3>4. FramePool.next = next_frame.result /\ FramePool.queued = frame_queued
        BY DEF FramePool
      <3> QED  BY <3>2, <3>3, <3>4
    <2>7. Live(FrameWorkers, FramePool, next_frame.result)
      <3>1. AllLive(FrameWorkers, FramePool)
        BY <1>0 DEF FaultsShow
      <3>2. InRange(FramePool, next_frame.result)
        BY <2>4, <2>5, <2>6 DEF InRange
      <3> QED  BY <2>5, <3>1, <3>2 DEF AllLive
    <2>8. \A v \in FrameWorkers : FramePool.held[v] # next_frame.result
      <3>1. \A v \in FrameWorkers : FramePool.held[v] = Nothing
        BY <1>2, FrameHolding DEF frames_gone, Gone
      <3> QED  BY <2>5, <3>1 DEF Nothing
    <2>9. next_frame.result \in FramePool.buffered
      BY <2>6, <2>7, <2>8 DEF Live
    <2> QED  BY <2>4, <2>9 DEF FramePool, next_results
  <1> QED  BY <1>1, <1>2 DEF ReceiveFrameFails

\* Nor is "envelope worker stopped".
LEMMA EnvelopeWorkersNeeded ==
    ASSUME TypeOK, KnowsEnvelopes, FaultlessWorkers, FaultsShow, ReceiveEnvelopeFails
    PROVE  faults # {}
  <1>0. pc = "collect" /\ running
    BY DEF ReceiveEnvelopeFails, running
  <1>1. CASE envelope_results # <<>> /\ ~Head(envelope_results).ok
    <2>1. envelope_results \in Seq(EnvelopeMessages)
      BY DEF TypeOK
    <2>2. 1 \in 1 .. Len(envelope_results) /\ Head(envelope_results) = envelope_results[1]
      BY <1>1, <2>1, TailOf
    <2> QED  BY <1>1, <2>2 DEF FaultlessWorkers
  <1>2. CASE envelope_results = <<>> /\ envelopes_gone
    <2> SUFFICES ASSUME faults = {}
                 PROVE  FALSE
      OBVIOUS
    <2>1. PICK w \in EnvelopeWorkers : TRUE
      BY WorkersAssumption
    <2>2. "envelope" \notin senders /\ envelope_jobs = <<>>
      BY <1>0, <1>2, <2>1 DEF envelopes_gone, FaultlessWorkers
    <2>3. emit_return = "finish_envelopes"
      BY <1>0, <2>2 DEF KnowsEnvelopes, awaiting
    <2>4. next_envelope < envelope.index /\ next_sealed = {}
      BY <1>0, <2>3 DEF KnowsEnvelopes
    <2>5. next_envelope \in Nat /\ envelope.index \in Nat
      BY DEF TypeOK
    <2>6. /\ EnvelopePool.next = next_envelope /\ EnvelopePool.queued = envelope.index
          /\ Len(EnvelopePool.results) = 0
      <3>1. ~envelope_in_hand
        BY <1>0, <2>3 DEF envelope_in_hand
      <3>2. envelope_queued = envelope.index
        BY <2>2, <3>1 DEF envelope_queued
      <3>3. EnvelopePool.results = <<>>
        BY <1>2 DEF EnvelopePool
      <3>4. EnvelopePool.next = next_envelope /\ EnvelopePool.queued = envelope_queued
        BY DEF EnvelopePool
      <3> QED  BY <3>2, <3>3, <3>4
    <2>7. Live(EnvelopeWorkers, EnvelopePool, next_envelope)
      <3>1. AllLive(EnvelopeWorkers, EnvelopePool)
        BY <1>0 DEF FaultsShow
      <3>2. InRange(EnvelopePool, next_envelope)
        BY <2>4, <2>5, <2>6 DEF InRange
      <3> QED  BY <2>5, <3>1, <3>2 DEF AllLive
    <2>8. \A v \in EnvelopeWorkers : EnvelopePool.held[v] # next_envelope
      <3>1. \A v \in EnvelopeWorkers : EnvelopePool.held[v] = Nothing
        BY <1>2, EnvelopeHolding DEF envelopes_gone, Gone
      <3> QED  BY <2>5, <3>1 DEF Nothing
    <2>9. next_envelope \in EnvelopePool.buffered
      BY <2>6, <2>7, <2>8, SMTT(40) DEF Live
    <2> QED  BY <2>4, <2>9 DEF EnvelopePool, next_sealed
  <1> QED  BY <1>1, <1>2 DEF ReceiveEnvelopeFails

\* The steps that end the writer; nothing else happens after it has returned.
LEMMA EndEffects ==
    ASSUME TypeOK, [Next]_vars
    PROVE  /\ running /\ ~running' =>
                ReadFails \/ ReceiveFrameFails \/ FrameTooLarge \/ ReceiveEnvelopeFails
                  \/ SinkFails \/ Join
           /\ ~running => /\ UNCHANGED <<next_frame, frame_buffer, envelope, next_envelope>>
                          /\ UNCHANGED <<emitted, payload_objects, next_block>>
                          /\ UNCHANGED pc \/ ScopeEnds
           /\ pc' \in Terminal => UNCHANGED pc \/ Join \/ ScopeEnds
           /\ pc' = "ok" => UNCHANGED pc \/ Join
  <1> USE DEF BeginMember, EndMembers, ReadChunk, ReadFails, MemberDone,
              SendFrameJob, FrameJobsFull, ReceiveFrame, ReceiveFrameFails,
              DrainedFrames, AppendFrame, FrameTooLarge, AppendDone,
              SealForAppend, SendEnvelopeJob, EnvelopeJobsFull,
              ReceiveEnvelope, ReceiveEnvelopeFails, DrainedEnvelopes,
              EmitEnvelope, SinkFails, EmitDone, AwaitFrames, FinalSeal,
              NothingToSeal, AwaitEnvelopes, EnvelopesDone, Join, ScopeEnds,
              Finished, TakeFrameJob, CompressFrame, CompressFails,
              FrameWorkerPanics, FrameWorkerStops, TakeEnvelopeJob,
              EncryptEnvelope, EncryptFails, EnvelopeWorkerPanics,
              EnvelopeWorkerStops, Next, MainStep, FrameWorkerStep,
              EnvelopeWorkerStep, Unwind, Fault, Seal, running
  <1>0. /\ frame_return \in {"drain", "send", "finish_frames"}
        /\ flush_return \in {"append", "finish_envelopes"}
        /\ emit_return \in {"drain", "seal", "finish_envelopes"}
    BY DEF TypeOK
  <1>1. running /\ ~running' =>
            ReadFails \/ ReceiveFrameFails \/ FrameTooLarge \/ ReceiveEnvelopeFails
              \/ SinkFails \/ Join
    BY <1>0, ZenonT(60)
  <1>2. ~running => /\ UNCHANGED <<next_frame, frame_buffer, envelope, next_envelope>>
                    /\ UNCHANGED <<emitted, payload_objects, next_block>>
                    /\ UNCHANGED pc \/ ScopeEnds
    BY ZenonT(60)
  <1>3. pc' \in Terminal => UNCHANGED pc \/ Join \/ ScopeEnds
    BY <1>0
  <1>4. pc' = "ok" => UNCHANGED pc \/ Join
    BY <1>0
  <1> QED  BY <1>1, <1>2, <1>3, <1>4

\* A worker that is gone does nothing.
LEMMA GoneForGood ==
    ASSUME [Next]_vars
    PROVE  /\ frames_gone => UNCHANGED frame_worker
           /\ envelopes_gone => UNCHANGED envelope_worker
  <1>1. \/ \E w \in FrameWorkers : FrameWorkerStep(w)
        \/ UNCHANGED frame_worker
    BY SMTT(40) DEF BeginMember, EndMembers, ReadChunk, ReadFails, MemberDone,
              SendFrameJob, FrameJobsFull, ReceiveFrame, ReceiveFrameFails,
              DrainedFrames, AppendFrame, FrameTooLarge, AppendDone,
              SealForAppend, SendEnvelopeJob, EnvelopeJobsFull,
              ReceiveEnvelope, ReceiveEnvelopeFails, DrainedEnvelopes,
              EmitEnvelope, SinkFails, EmitDone, AwaitFrames, FinalSeal,
              NothingToSeal, AwaitEnvelopes, EnvelopesDone, Join, ScopeEnds,
              Finished, TakeEnvelopeJob,
              EncryptEnvelope, EncryptFails, EnvelopeWorkerPanics,
              EnvelopeWorkerStops, Next, MainStep,
              EnvelopeWorkerStep, Unwind, Fault, Seal
  <1>2. \/ \E w \in EnvelopeWorkers : EnvelopeWorkerStep(w)
        \/ UNCHANGED envelope_worker
    BY DEF BeginMember, EndMembers, ReadChunk, ReadFails, MemberDone,
              SendFrameJob, FrameJobsFull, ReceiveFrame, ReceiveFrameFails,
              DrainedFrames, AppendFrame, FrameTooLarge, AppendDone,
              SealForAppend, SendEnvelopeJob, EnvelopeJobsFull,
              ReceiveEnvelope, ReceiveEnvelopeFails, DrainedEnvelopes,
              EmitEnvelope, SinkFails, EmitDone, AwaitFrames, FinalSeal,
              NothingToSeal, AwaitEnvelopes, EnvelopesDone, Join, ScopeEnds,
              Finished, TakeFrameJob, CompressFrame, CompressFails,
              FrameWorkerPanics, FrameWorkerStops, Next, MainStep, FrameWorkerStep,
              Unwind, Fault, Seal
  <1>3. frames_gone => ~\E w \in FrameWorkers : FrameWorkerStep(w)
    BY DEF frames_gone, Gone, FrameWorkerStep, TakeFrameJob, CompressFrame, CompressFails,
           FrameWorkerPanics, FrameWorkerStops
  <1>4. envelopes_gone => ~\E w \in EnvelopeWorkers : EnvelopeWorkerStep(w)
    BY DEF envelopes_gone, Gone, EnvelopeWorkerStep, TakeEnvelopeJob, EncryptEnvelope,
           EncryptFails, EnvelopeWorkerPanics, EnvelopeWorkerStops
  <1> QED  BY <1>1, <1>2, <1>3, <1>4

\* A return finds the workers gone, a success finds nothing missing, and a
\* failure has a cause.
LEMMA EndedStep ==
    ASSUME TypeOK, TypeOK', KnowsFrames, KnowsEnvelopes, FramesOnce, EnvelopesOnce,
           FaultlessWorkers, FaultsShow, Ended, [Next]_vars
    PROVE  Ended'
  <1>1. pc' \in Terminal => (frames_gone /\ envelopes_gone)'
    <2> HAVE pc' \in Terminal
    <2>1. frames_gone /\ envelopes_gone
      BY EndEffects DEF Ended, Join, ScopeEnds
    <2>2. UNCHANGED <<frame_worker, envelope_worker>>
      BY <2>1, GoneForGood
    <2> QED  BY <2>1, <2>2 DEF frames_gone, envelopes_gone
  <1>2. pc' = "ok" => /\ faults' = {}
                      /\ next_frame'.result = next_frame'.job
                      /\ next_envelope' = envelope'.index
    <2> HAVE pc' = "ok"
    <2>1. CASE pc = "ok"
      <3>1. frames_gone /\ envelopes_gone
        BY <2>1 DEF Ended
      <3>2. /\ ~\E w \in FrameWorkers : FrameWorkerStep(w)
            /\ ~\E w \in EnvelopeWorkers : EnvelopeWorkerStep(w)
        BY <3>1 DEF frames_gone, envelopes_gone, Gone, FrameWorkerStep, TakeFrameJob,
           CompressFrame, CompressFails, FrameWorkerPanics, FrameWorkerStops,
           EnvelopeWorkerStep, TakeEnvelopeJob, EncryptEnvelope,
           EncryptFails, EnvelopeWorkerPanics, EnvelopeWorkerStops
      <3>3. ~MainStep
        BY <2>1 DEF BeginMember, EndMembers, ReadChunk, ReadFails, MemberDone,
              SendFrameJob, FrameJobsFull, ReceiveFrame, ReceiveFrameFails,
              DrainedFrames, AppendFrame, FrameTooLarge, AppendDone,
              SealForAppend, SendEnvelopeJob, EnvelopeJobsFull,
              ReceiveEnvelope, ReceiveEnvelopeFails, DrainedEnvelopes,
              EmitEnvelope, SinkFails, EmitDone, AwaitFrames, FinalSeal,
              NothingToSeal, AwaitEnvelopes, EnvelopesDone, Join, ScopeEnds, MainStep
      <3> QED  BY <2>1, <3>2, <3>3 DEF Next, Finished, Ended
    <2>2. CASE Join
      <3>1. /\ pc = "join"
            /\ UNCHANGED <<faults, next_frame, next_envelope, envelope>>
        BY <2>2 DEF Join
      <3>2. faults = {}
        BY <3>1, NothingMissedAtJoin
      <3>3. next_frame.result = next_frame.job /\ next_envelope = envelope.index
        BY <3>1 DEF KnowsFrames, KnowsEnvelopes, finishing, awaiting
      <3> QED  BY <3>1, <3>2, <3>3
    <2> QED  BY <2>1, <2>2, EndEffects
  <1>3. pc' \in {"unwind", "err", "panic"} =>
          \/ faults' # {}
          \/ \E r \in frame_buffer' : ~payload_object_can_fit(Options, r.len)
    <2> HAVE pc' \in {"unwind", "err", "panic"}
    <2>1. CASE ~running
      <3>1. frame_buffer' = frame_buffer /\ faults \subseteq faults'
        BY <2>1, EndEffects, FaultEffects
      <3>2. pc # "ok"
        BY EndEffects, <2>1 DEF ScopeEnds
      <3>3. pc \in {"unwind", "err", "panic"}
        BY <2>1, <3>2 DEF running
      <3> QED  BY <3>1, <3>3 DEF Ended
    <2>2. CASE running
      <3>1. \/ ReadFails \/ ReceiveFrameFails \/ FrameTooLarge \/ ReceiveEnvelopeFails
            \/ SinkFails \/ Join
        BY <2>2, EndEffects DEF running
      <3>2. CASE ReadFails \/ SinkFails
        BY <3>2 DEF ReadFails, SinkFails, Fault
      <3>3. CASE ReceiveFrameFails
        BY <3>3, FrameWorkersNeeded, FaultEffects
      <3>4. CASE ReceiveEnvelopeFails
        BY <3>4, EnvelopeWorkersNeeded, FaultEffects
      <3>5. CASE FrameTooLarge
        BY <3>5 DEF FrameTooLarge, next_results
      <3>6. CASE Join
        <4>1. \/ \E w \in FrameWorkers : frame_worker[w].state = "panicked"
              \/ \E w \in EnvelopeWorkers : envelope_worker[w].state = "panicked"
          BY <3>6 DEF Join
        <4>2. faults # {}
          BY <4>1 DEF FaultlessWorkers
        <4> QED  BY <4>2, FaultEffects
      <3> QED  BY <3>1, <3>2, <3>3, <3>4, <3>5, <3>6
    <2> QED  BY <2>1, <2>2
  <1> QED  BY <1>1, <1>2, <1>3 DEF Ended

-----------------------------------------------------------------------------
(***************************************************************************)
(* The inductive invariant                                                 *)
(***************************************************************************)

\* Nothing is out at first.
LEMMA InitCompletion == Init => CompletionInv
  <1> SUFFICES ASSUME Init PROVE CompletionInv
    OBVIOUS
  <1>1. TypeOK /\ WriteOrder
    BY InitInv
  <1>2. /\ pc = "member" /\ frame_jobs = <<>> /\ envelope_jobs = <<>>
        /\ frame_results = <<>> /\ envelope_results = <<>>
        /\ frame_buffer = {} /\ envelope_buffer = {}
        /\ next_frame = [job |-> 0, result |-> 0]
        /\ envelope.index = 0 /\ next_envelope = 0
        /\ senders = {"frame", "envelope"} /\ faults = {}
        /\ frame_worker = [w \in FrameWorkers |-> Worker("idle", NoFrameJob)]
        /\ envelope_worker = [w \in EnvelopeWorkers |-> Worker("idle", NoEnvelopeJob)]
    BY DEF Init, EmptyEnvelope
  <1>3. /\ ~frame_in_hand /\ ~envelope_in_hand /\ ~awaiting /\ ~finishing /\ ~appending
        /\ ~receiving /\ running
    BY <1>2 DEF frame_in_hand, envelope_in_hand, awaiting, finishing, appending, receiving,
               flushing, running
  <1>4. KnowsFrames /\ KnowsEnvelopes
    BY <1>2, <1>3 DEF KnowsFrames, KnowsEnvelopes, next_results, next_sealed
  <1>5. /\ \A w \in FrameWorkers : frame_worker[w].state = "idle"
        /\ \A w \in EnvelopeWorkers : envelope_worker[w].state = "idle"
    BY <1>2 DEF Worker
  <1>6. /\ frame_queued = 0 /\ envelope_queued = 0
    BY <1>2, <1>3 DEF frame_queued, envelope_queued
  <1>7. /\ FramePool.results = <<>> /\ FramePool.buffered = {}
        /\ FramePool.next = 0 /\ FramePool.queued = 0
        /\ \A w \in FrameWorkers : FramePool.held[w] = Nothing
    BY <1>2, <1>5, <1>6 DEF FramePool
  <1>8. /\ EnvelopePool.results = <<>> /\ EnvelopePool.buffered = {}
        /\ EnvelopePool.next = 0 /\ EnvelopePool.queued = 0
        /\ \A w \in EnvelopeWorkers : EnvelopePool.held[w] = Nothing
    BY <1>2, <1>5, <1>6 DEF EnvelopePool
  <1>9. FramesQueued /\ EnvelopesQueued
    BY <1>2, <1>3 DEF FramesQueued, EnvelopesQueued
  <1>10. /\ Len(FramePool.results) = 0 /\ Len(EnvelopePool.results) = 0
    BY <1>7, <1>8
  <1>11. FramesOnce /\ EnvelopesOnce
    BY <1>2, <1>7, <1>8, <1>9, <1>10 DEF FramesOnce, EnvelopesOnce, Apart, Ranged
  <1>12. FaultlessWorkers
    <2>1. Len(frame_results) = 0 /\ Len(envelope_results) = 0
      BY <1>2
    <2> QED  BY <1>5, <2>1 DEF FaultlessWorkers, Gone
  <1>13. FaultsShow
    <2>1. /\ \A k \in Nat : ~InRange(FramePool, k)
          /\ \A k \in Nat : ~InRange(EnvelopePool, k)
      BY <1>7, <1>8 DEF InRange
    <2> QED  BY <1>2, <2>1 DEF FaultsShow, AllLive
  <1>14. Ended
    BY <1>2 DEF Ended
  <1> QED  BY <1>1, <1>4, <1>11, <1>12, <1>13, <1>14 DEF CompletionInv

\* The inductive invariant: every number is in one place of its pipeline, a
\* number is missing exactly if a fault has happened, and without a fault the
\* workers stay as long as they are needed.
THEOREM CompletionAlways == Spec => []CompletionInv
  <1>1. CompletionInv /\ [Next]_vars => CompletionInv'
    <2> SUFFICES ASSUME CompletionInv, [Next]_vars
                 PROVE  CompletionInv'
      OBVIOUS
    <2>0. /\ TypeOK /\ WriteOrder /\ KnowsFrames /\ KnowsEnvelopes /\ FramesOnce
          /\ EnvelopesOnce /\ FaultlessWorkers /\ FaultsShow /\ Ended
      BY DEF CompletionInv
    <2>1. TypeOK'
      BY <2>0, TypeStep
    <2>2. NothingBeforeMembers'
      BY <2>0, NothingStep DEF WriteOrder
    <2>3. (envelope.plaintext = <<>> => envelope.len = 0)' /\ EnvelopeFits'
      BY <2>0, FitsStep DEF WriteOrder
    <2>4. LaidOutInOrder' /\ InFlightAsIndexed' /\ WrittenUpToNext' /\ BlocksInOrder'
      BY <2>0, LayoutStep, InFlightStep, WrittenStep
    <2>5. WriteOrder'
      BY <2>2, <2>3, <2>4 DEF WriteOrder
    <2>6. KnowsFrames' /\ KnowsEnvelopes'
      BY <2>0, KnowsFramesStep, KnowsEnvelopesStep
    <2>7. FramesOnce' /\ EnvelopesOnce'
      BY <2>0, <2>1, FramesOnceStep, EnvelopesOnceStep
    <2>8. FaultlessWorkers' /\ FaultsShow' /\ Ended'
      BY <2>0, <2>1, FaultlessStep, FaultsShowStep, EndedStep
    <2> QED  BY <2>1, <2>5, <2>6, <2>7, <2>8 DEF CompletionInv
  <1> QED  BY <1>1, InitCompletion, PTL DEF Spec

\* The writer fails only for a cause, and join never meets a panicked worker:
\* its job would be missing.
THEOREM FailureAlwaysCaused == Spec => []FailureHasCause
  <1>1. CompletionInv => FailureHasCause
    <2> SUFFICES ASSUME CompletionInv PROVE FailureHasCause
      OBVIOUS
    <2>1. pc = "join" => faults = {}
      BY NothingMissedAtJoin DEF CompletionInv
    <2> QED  BY <2>1 DEF CompletionInv, Ended, FaultlessWorkers, FailureHasCause
  <1> QED  BY <1>1, CompletionAlways, PTL

-----------------------------------------------------------------------------
(***************************************************************************)
(* Each envelope once                                                      *)
(***************************************************************************)

\* A set of which any two members are the same has at most one.
LEMMA AtMostOne ==
    ASSUME NEW S, \A x, y \in S : x = y
    PROVE  Cardinality(S) = IF S = {} THEN 0 ELSE 1
  <1>1. CASE S = {}
    BY <1>1, FS_EmptySet
  <1>2. CASE S # {}
    <2>1. PICK x : S = {x}
      <3>1. PICK y \in S : TRUE
        BY <1>2
      <3>2. S = {y}
        BY <3>1
      <3> QED  BY <3>2
    <2> QED  BY <1>2, <2>1, FS_Singleton
  <1> QED  BY <1>1, <1>2

\* Numbers that go up by one.
LEMMA Consecutive ==
    ASSUME NEW n \in Nat, NEW s, \A i \in 1 .. n : s[i] \in Nat,
           \A i \in 1 .. n - 1 : s[i + 1] = s[i] + 1
    PROVE  \A i \in 1 .. n : s[i] = s[1] + i - 1
  <1> DEFINE T == {i \in 1 .. n : s[i] # s[1] + i - 1}
  <1> SUFFICES ASSUME T # {}
               PROVE  FALSE
    OBVIOUS
  <1>1. IsWellFoundedOn(OpToRel(<, Nat), Nat)
    BY NatLessThanWellFounded
  <1>2. T \subseteq Nat
    OBVIOUS
  <1>3. PICK x \in T : \A y \in T : ~(<<y, x>> \in OpToRel(<, Nat))
    <2> HIDE DEF T
    <2> QED  BY <1>1, <1>2, WFMin
  <1>4. \A y \in T : ~(y < x)
    BY <1>2, <1>3 DEF OpToRel
  <1>5. x \in 1 .. n /\ s[x] # s[1] + x - 1
    BY <1>3
  <1>6. x # 1 /\ 1 \in 1 .. n
    BY <1>5
  <1>7. x - 1 \in 1 .. n - 1 /\ x - 1 < x /\ (x - 1) + 1 = x
    BY <1>5, <1>6
  <1>8. s[x - 1] = s[1] + (x - 1) - 1
    BY <1>4, <1>7
  <1>9. s[x] = s[x - 1] + 1
    BY <1>7
  <1> QED  BY <1>5, <1>6, <1>7, <1>8, <1>9

\* The envelope with number k is in one place: written, out with the workers or
\* back, in the job channel, or in the main thread's hand.
THEOREM EnvelopesAlwaysOnce == Spec => []EachEnvelopeOnce
  <1>1. CompletionInv => EachEnvelopeOnce
    <2> SUFFICES ASSUME CompletionInv, NEW k \in 0 .. envelope.index - 1
                 PROVE  LET seen == copies(k) + (IF k < next_envelope THEN 1 ELSE 0)
                        IN  /\ seen <= 1
                            /\ faults = {} /\ pc \notin Returned => seen = 1
      BY DEF EachEnvelopeOnce
    <2> DEFINE p == EnvelopePool
               A == {i \in DOMAIN envelope_jobs : envelope_jobs[i].index = k}
               B == {w \in EnvelopeWorkers : /\ envelope_worker[w].state = "busy"
                                             /\ envelope_worker[w].job.index = k}
               C == {i \in DOMAIN envelope_results : envelope_results[i].value.index = k}
               D == {e \in envelope_buffer : e.index = k}
               hand == envelope_in_hand /\ envelope_job.index = k
    <2>1. /\ TypeOK /\ EnvelopesQueued /\ Apart(EnvelopeWorkers, p)
          /\ Ranged(EnvelopeWorkers, p)
          /\ \A d, e \in envelope_buffer : d.index = e.index => d = e
          /\ faults = {} /\ pc \notin Returned => AllLive(EnvelopeWorkers, p)
      BY DEF CompletionInv, EnvelopesOnce, FaultsShow, running
    <2>2. /\ envelope_jobs \in Seq(EnvelopeJobs) /\ envelope_results \in Seq(EnvelopeMessages)
          /\ envelope.index \in Nat /\ next_envelope \in Nat /\ k \in Nat
          /\ k < envelope.index /\ envelope_job \in EnvelopeJobs
          /\ envelope_job.index \in Nat
          /\ envelope_buffer \subseteq EnvelopeJobs
      <3>1. /\ envelope_jobs \in Seq(EnvelopeJobs)
            /\ envelope_results \in Seq(EnvelopeMessages)
            /\ envelope.index \in Nat /\ next_envelope \in Nat
            /\ envelope_job \in EnvelopeJobs /\ envelope_buffer \subseteq EnvelopeJobs
        BY <2>1 DEF TypeOK
      <3>2. envelope_job.index \in Nat
        BY <3>1 DEF EnvelopeJobs
      <3>3. k \in Nat /\ k < envelope.index
        BY <3>1
      <3> QED  BY <3>1, <3>2, <3>3
    <2>3. /\ p \in Pools(EnvelopeWorkers) /\ p.next = next_envelope
          /\ p.queued = envelope_queued /\ envelope_queued \in Nat
          /\ Len(p.results) = Len(envelope_results)
          /\ \A i \in 1 .. Len(envelope_results) : p.results[i].id = envelope_results[i].value.index
          /\ \A i \in 1 .. Len(envelope_results) : p.results[i].ok => envelope_results[i].ok
          /\ p.buffered = {e.index : e \in envelope_buffer}
      <3>1. p \in Pools(EnvelopeWorkers)
        BY <2>1, EnvelopePoolType
      <3>2. Len(envelope_results) \in Nat
        BY <2>2, LenProperties
      <3> QED  BY <3>1, <3>2 DEF EnvelopePool, Pools
    <2>4. \A w \in EnvelopeWorkers : p.held[w] = k <=> w \in B
      <3>1. k # Nothing
        BY <2>2 DEF Nothing
      <3> QED  BY <2>1, <3>1, EnvelopeHolding
    \* Where k can be.
    <2>5. B # {} \/ C # {} \/ D # {} => InRange(p, k)
      <3>1. B # {} => InRange(p, k)
        <4>1. k # Nothing
          BY <2>2 DEF Nothing
        <4> QED  BY <2>1, <2>4, <4>1 DEF Ranged
      <3>2. C # {} => InRange(p, k)
        <4>1. DOMAIN envelope_results = 1 .. Len(envelope_results)
          BY <2>2, LenProperties
        <4> QED  BY <2>1, <2>3, <4>1 DEF Ranged
      <3>3. D # {} => InRange(p, k)
        BY <2>1, <2>3 DEF Ranged
      <3> QED  BY <3>1, <3>2, <3>3
    <2>6. DOMAIN envelope_jobs = 1 .. Len(envelope_jobs) /\ Len(envelope_jobs) \in Nat
      BY <2>2, LenProperties
    <2>7. \A i \in 1 .. Len(envelope_jobs) :
             envelope_jobs[i].index = envelope_jobs[1].index + i - 1
      <3> DEFINE s == [i \in 1 .. Len(envelope_jobs) |-> envelope_jobs[i].index]
      <3>1. \A i \in 1 .. Len(envelope_jobs) : s[i] \in Nat
        <4>1. \A i \in 1 .. Len(envelope_jobs) : envelope_jobs[i] \in EnvelopeJobs
          BY <2>2, ElementOfSeq
        <4> QED  BY <4>1 DEF EnvelopeJobs
      <3>2. \A i \in 1 .. Len(envelope_jobs) - 1 : s[i + 1] = s[i] + 1
        BY <2>1, <2>6 DEF EnvelopesQueued
      <3>3. \A i \in 1 .. Len(envelope_jobs) : s[i] = s[1] + i - 1
        <4> HIDE DEF s
        <4> QED  BY <2>6, <3>1, <3>2, Consecutive
      <3>4. \A i \in 1 .. Len(envelope_jobs) : 1 \in 1 .. Len(envelope_jobs)
        BY <2>6
      <3> QED  BY <3>3, <3>4
    <2>8. envelope_jobs # <<>> =>
             /\ 1 \in 1 .. Len(envelope_jobs) /\ Len(envelope_jobs) \in 1 .. Len(envelope_jobs)
             /\ envelope_jobs[1].index = envelope_queued /\ envelope_jobs[1].index \in Nat
      <3>1. envelope_jobs # <<>> => 1 \in 1 .. Len(envelope_jobs) /\ envelope_jobs[1] \in EnvelopeJobs
        BY <2>2, TailOf
      <3> QED  BY <2>6, <3>1 DEF envelope_queued, EnvelopeJobs
    <2>9. hand => k = envelope.index - 1 /\ pc \notin Returned
      BY <2>1 DEF EnvelopesQueued, envelope_in_hand
    <2>10. hand => A = {} /\ k >= envelope_queued
      <3> SUFFICES ASSUME hand
                   PROVE  A = {} /\ k >= envelope_queued
        OBVIOUS
      <3>1. CASE envelope_jobs = <<>>
        BY <2>6, <3>1 DEF envelope_queued
      <3>2. CASE envelope_jobs # <<>>
        <4>1. envelope_jobs[Len(envelope_jobs)].index = k - 1
          BY <2>1, <2>9, <3>2 DEF EnvelopesQueued, running
        <4>2. envelope_jobs[1].index + Len(envelope_jobs) = k
          BY <2>2, <2>6, <2>7, <2>8, <3>2, <4>1, SMTT(40)
        <4>3. \A i \in 1 .. Len(envelope_jobs) : envelope_jobs[i].index < k
          BY <2>6, <2>7, <2>8, <3>2, <4>2
        <4> QED  BY <2>2, <2>6, <2>8, <3>2, <4>2, <4>3
      <3> QED  BY <3>1, <3>2
    <2>11. A # {} => k >= envelope_queued
      <3> SUFFICES ASSUME NEW i \in A
                   PROVE  k >= envelope_queued
        OBVIOUS
      <3>1. i \in 1 .. Len(envelope_jobs) /\ envelope_jobs[i].index = k
        BY <2>6
      <3>2. envelope_jobs # <<>>
        BY <2>6, <3>1
      <3> QED  BY <2>3, <2>6, <2>7, <2>8, <3>1, <3>2
    <2>12. /\ A # {} \/ hand => ~InRange(p, k) /\ ~(k < next_envelope)
           /\ InRange(p, k) => ~(k < next_envelope)
      <3>1. next_envelope <= envelope_queued
        BY <2>1, <2>3 DEF Ranged
      <3> QED  BY <2>2, <2>3, <2>10, <2>11, <3>1 DEF InRange
    \* It is there at most once.
    <2>13. /\ B # {} => C = {} /\ D = {}
           /\ C # {} => D = {}
      <3>1. DOMAIN envelope_results = 1 .. Len(envelope_results)
        BY <2>2, LenProperties
      <3>2. \A i \in C : i \in 1 .. Len(p.results) /\ p.results[i].id = k
        BY <2>3, <3>1
      <3>3. \A e \in D : k \in p.buffered
        BY <2>3
      <3>4. \A w \in B : p.held[w] = k /\ w \in EnvelopeWorkers
        BY <2>4
      <3> HIDE DEF B, C, D, p
      <3> QED  BY <2>1, <3>2, <3>3, <3>4 DEF Apart
    <2>14. /\ \A x, y \in A : x = y
           /\ \A x, y \in B : x = y
           /\ \A x, y \in C : x = y
           /\ \A x, y \in D : x = y
      <3>1. \A x, y \in A : x = y
        <4> TAKE x, y \in A
        <4>1. /\ x \in 1 .. Len(envelope_jobs) /\ y \in 1 .. Len(envelope_jobs)
              /\ envelope_jobs[x].index = k /\ envelope_jobs[y].index = k
              /\ envelope_jobs # <<>>
          BY <2>6
        <4>2. k = envelope_jobs[1].index + x - 1 /\ k = envelope_jobs[1].index + y - 1
          BY <2>7, <4>1
        <4> QED  BY <2>2, <2>6, <2>8, <4>1, <4>2
      <3>2. \A x, y \in B : x = y
        <4>1. \A w \in B : p.held[w] = k /\ w \in EnvelopeWorkers /\ p.held[w] # Nothing
          BY <2>2, <2>4 DEF Nothing
        <4> HIDE DEF B, p
        <4> QED  BY <2>1, <4>1 DEF Apart
      <3>3. \A x, y \in C : x = y
        <4>1. DOMAIN envelope_results = 1 .. Len(envelope_results)
          BY <2>2, LenProperties
        <4>2. \A i \in C : i \in 1 .. Len(p.results) /\ p.results[i].id = k
          BY <2>3, <4>1
        <4> HIDE DEF C, p
        <4> QED  BY <2>1, <4>2 DEF Apart
      <3>4. \A x, y \in D : x = y
        BY <2>1
      <3> QED  BY <3>1, <3>2, <3>3, <3>4
    <2>15. copies(k) = Cardinality(A) + Cardinality(B) + Cardinality(C) + Cardinality(D)
                         + (IF hand THEN 1 ELSE 0)
      BY DEF copies
    <2>16. /\ Cardinality(A) = IF A = {} THEN 0 ELSE 1
           /\ Cardinality(B) = IF B = {} THEN 0 ELSE 1
           /\ Cardinality(C) = IF C = {} THEN 0 ELSE 1
           /\ Cardinality(D) = IF D = {} THEN 0 ELSE 1
      <3> HIDE DEF A, B, C, D
      <3> QED  BY <2>14, AtMostOne
    \* And without a fault it is somewhere.
    <2>17. faults = {} /\ pc \notin Returned =>
              \/ k < next_envelope \/ A # {} \/ B # {} \/ C # {} \/ D # {} \/ hand
      <3> SUFFICES ASSUME faults = {}, pc \notin Returned, ~(k < next_envelope)
                   PROVE  A # {} \/ B # {} \/ C # {} \/ D # {} \/ hand
        OBVIOUS
      <3>1. CASE k < envelope_queued
        <4>1. InRange(p, k)
          BY <2>2, <2>3, <3>1 DEF InRange
        <4>2. Live(EnvelopeWorkers, p, k)
          BY <2>1, <2>2, <4>1 DEF AllLive
        <4>3. (\E w \in EnvelopeWorkers : p.held[w] = k) => B # {}
          BY <2>4
        <4>4. (\E i \in 1 .. Len(p.results) : p.results[i].id = k) => C # {}
          <5>1. DOMAIN envelope_results = 1 .. Len(envelope_results)
            BY <2>2, LenProperties
          <5> QED  BY <2>3, <5>1
        <4>5. k \in p.buffered => D # {}
          BY <2>3
        <4> QED  BY <4>2, <4>3, <4>4, <4>5 DEF Live
      <3>2. CASE k >= envelope_queued /\ envelope_jobs = <<>>
        <4>1. envelope_in_hand /\ envelope_job.index = envelope.index - 1
          BY <2>1, <2>2, <3>2 DEF envelope_queued, EnvelopesQueued
        <4>2. k >= envelope.index - 1
          BY <3>2, <4>1 DEF envelope_queued
        <4> QED  BY <2>2, <4>1, <4>2
      <3>3. CASE k >= envelope_queued /\ envelope_jobs # <<>>
        <4>1. envelope_jobs[Len(envelope_jobs)].index
                = (IF envelope_in_hand THEN envelope_job.index ELSE envelope.index) - 1
          BY <2>1, <3>3 DEF EnvelopesQueued, running
        <4>2. envelope_in_hand => envelope_job.index = envelope.index - 1
          BY <2>1 DEF EnvelopesQueued
        <4>3. envelope_jobs[Len(envelope_jobs)].index = envelope_queued + Len(envelope_jobs) - 1
          BY <2>7, <2>8, <3>3
        <4>4. hand \/ k <= envelope_queued + Len(envelope_jobs) - 1
          BY <2>2, <2>3, <2>6, <4>1, <4>2, <4>3
        <4>5. CASE k <= envelope_queued + Len(envelope_jobs) - 1
          <5>1. k - envelope_queued + 1 \in 1 .. Len(envelope_jobs)
            BY <2>2, <2>3, <2>6, <3>3, <4>5
          <5>2. envelope_jobs[k - envelope_queued + 1].index = k
            <6> DEFINE i == k - envelope_queued + 1
            <6>1. i \in 1 .. Len(envelope_jobs)
              BY <5>1
            <6>2. envelope_jobs[i].index = envelope_queued + i - 1
              <7> HIDE DEF i
              <7> QED  BY <2>7, <2>8, <3>3, <6>1
            <6>3. envelope_queued + i - 1 = k
              BY <2>2, <2>3
            <6> QED  BY <6>2, <6>3
          <5> QED  BY <2>6, <5>1, <5>2
        <4> QED  BY <4>4, <4>5
      <3> QED  BY <2>2, <2>3, <3>1, <3>2, <3>3
    <2> HIDE DEF A, B, C, D, hand, p
    <2> QED  BY <2>5, <2>10, <2>12, <2>13, <2>15, <2>16, <2>17
  <1> QED  BY <1>1, CompletionAlways, PTL

-----------------------------------------------------------------------------
(***************************************************************************)
(* The writer implements the sequential payload stream                     *)
(***************************************************************************)

\* A planned object has at least one block, and no more than an object may have.
LEMMA ObjectSize ==
    ASSUME NEW first \in Nat, NEW len \in Nat, payload_object_can_fit(Options, len)
    PROVE  object_extent(Options, first, len).data + object_extent(Options, first, len).parity
             \in 1 .. Options.max_shards
  <1> DEFINE d == data_block_count(Options, len)
             p == compute_parity(Options, d)
  <1>1. d \in Nat /\ d >= 1
    <2>1. len + Options.tag_len \in Nat
      BY OptionTypes
    <2> QED  BY <2>1, OptionTypes, WholeBlocks DEF data_block_count
  <1>2. p \in Nat /\ d + p <= Options.max_shards
    BY ParityType DEF payload_object_can_fit
  <1>3. Options.max_shards \in Nat
    BY OptionsAssumption DEF ValidOptions, ValidRequest, OptionFields
  <1>4. /\ object_extent(Options, first, len).data = d
        /\ object_extent(Options, first, len).parity = p
    BY DEF object_extent
  <1> HIDE DEF d, p
  <1> QED  BY <1>1, <1>2, <1>3, <1>4

\* The objects of the stream are those of the index, and the stream is planned up
\* to the next block.
LEMMA StreamObjects ==
    ASSUME TypeOK, LaidOutInOrder
    PROVE  /\ DOMAIN stream_objects = 1 .. Len(payload_objects)
           /\ stream_objects = <<>> <=> payload_objects = <<>>
           /\ Len(stream_objects) = Len(payload_objects)
           /\ \A k \in 1 .. Len(payload_objects) :
                /\ stream_objects[k].first = payload_objects[k].extent.first
                /\ stream_objects[k].size
                     = payload_objects[k].extent.data + payload_objects[k].extent.parity
           /\ Stream!planned = next_block
  <1>1. /\ payload_objects \in Seq(PayloadObjects) /\ Len(payload_objects) \in Nat
        /\ DOMAIN payload_objects = 1 .. Len(payload_objects)
        /\ next_block \in Nat
    BY LenProperties DEF TypeOK
  <1>2. /\ DOMAIN stream_objects = 1 .. Len(payload_objects)
        /\ Len(stream_objects) = Len(payload_objects)
        /\ \A k \in 1 .. Len(payload_objects) :
             /\ stream_objects[k].first = payload_objects[k].extent.first
             /\ stream_objects[k].size
                  = payload_objects[k].extent.data + payload_objects[k].extent.parity
    BY <1>1 DEF stream_objects
  <1>3. stream_objects = <<>> <=> payload_objects = <<>>
    BY <1>1 DEF stream_objects
  <1>4. Stream!planned = next_block
    <2>1. CASE payload_objects = <<>>
      BY <1>3, <2>1 DEF LaidOutInOrder, first_block, Stream!planned
    <2>2. CASE payload_objects # <<>>
      <3> DEFINE n == Len(payload_objects)
      <3>1. n \in 1 .. Len(payload_objects) /\ n - 1 \in 0 .. n - 1 /\ (n - 1) + 1 = n
        BY <1>1, <2>2, EmptySeq
      <3>2. payload_objects[n].extent \in Extents
        <4>1. payload_objects[n] \in PayloadObjects
          BY <1>1, <3>1, ElementOfSeq
        <4> QED  BY <4>1 DEF PayloadObjects
      <3>3. /\ payload_objects[n].extent.first \in Nat /\ payload_objects[n].extent.data \in Nat
            /\ payload_objects[n].extent.parity \in Nat
        BY <3>2 DEF Extents
      <3>4. next_block_index(payload_objects[n].extent) = next_block
        <4>1. next_block_index(payload_objects[(n - 1) + 1].extent)
                = first_block(payload_objects, next_block, (n - 1) + 1)
          BY <3>1 DEF LaidOutInOrder
        <4> QED  BY <1>1, <3>1, <4>1 DEF first_block
      <3>5. stream_objects[Len(stream_objects)].first + stream_objects[Len(stream_objects)].size
              = next_block
        BY <1>2, <3>1, <3>3, <3>4 DEF next_block_index
      <3> QED  BY <1>3, <2>2, <3>5 DEF Stream!planned
    <2> QED  BY <2>1, <2>2
  <1> QED  BY <1>2, <1>3, <1>4

\* Sealing an envelope lays out one more object of the stream.
LEMMA SealPlans ==
    ASSUME TypeOK, WriteOrder, NEW return \in {"append", "finish_envelopes"},
           Seal(return), running
    PROVE  Stream!Plan
  <1> DEFINE x == object_extent(Options, next_block, envelope.len)
             n == x.data + x.parity
             o == payload_object(Options, next_block, envelope)
  <1>1. /\ payload_objects \in Seq(PayloadObjects) /\ Len(payload_objects) \in Nat
        /\ DOMAIN payload_objects = 1 .. Len(payload_objects)
        /\ next_block \in Nat /\ envelope.len \in Nat /\ envelope.index \in Nat
    BY LenProperties DEF TypeOK
  <1>2. payload_object_can_fit(Options, envelope.len)
    BY DEF Seal, WriteOrder, EnvelopeFits
  <1>3. n \in 1 .. Options.max_shards /\ x \in Extents /\ x.first = next_block
    BY <1>1, <1>2, ObjectSize, ExtentType
  <1>4. /\ payload_objects' = Append(payload_objects, o) /\ o \in PayloadObjects
        /\ o.extent = x
        /\ pc' = "seal" /\ emitted' = emitted
    BY <1>1, <1>3 DEF Seal, payload_object, PayloadObjects
  <1>5. stream_objects' = Append(stream_objects, [first |-> next_block, size |-> n])
    <2> DEFINE y == [first |-> next_block, size |-> n]
               f(k) == [first |-> payload_objects'[k].extent.first,
                        size |-> payload_objects'[k].extent.data
                                   + payload_objects'[k].extent.parity]
    <2>1. /\ Len(payload_objects') = Len(payload_objects) + 1
          /\ DOMAIN payload_objects' = 1 .. Len(payload_objects) + 1
          /\ \A k \in 1 .. Len(payload_objects) : payload_objects'[k] = payload_objects[k]
          /\ payload_objects'[Len(payload_objects) + 1] = o
      BY <1>1, <1>4, AppendProperties
    <2>2. stream_objects' = [k \in 1 .. Len(payload_objects) + 1 |-> f(k)]
      BY <2>1 DEF stream_objects
    <2>3. /\ f(Len(payload_objects) + 1) = y
          /\ \A k \in 1 .. Len(payload_objects) : f(k) = stream_objects[k]
      <3>1. f(Len(payload_objects) + 1) = y
        BY <1>3, <1>4, <2>1
      <3>2. \A k \in 1 .. Len(payload_objects) : f(k) = stream_objects[k]
        BY <1>1, <2>1 DEF stream_objects
      <3> QED  BY <3>1, <3>2
    <2>4. Len(stream_objects) = Len(payload_objects)
      BY StreamObjects DEF WriteOrder
    <2>5. Append(stream_objects, y)
            = [k \in 1 .. Len(payload_objects) + 1 |->
                  IF k \in 1 .. Len(payload_objects) THEN stream_objects[k] ELSE y]
      <3>1. stream_objects \in Seq({stream_objects[k] : k \in 1 .. Len(payload_objects)})
        BY <1>1 DEF stream_objects
      <3> HIDE DEF y
      <3> DEFINE S == {stream_objects[k] : k \in 1 .. Len(payload_objects)} \cup {y}
      <3>2. stream_objects \in Seq(S) /\ y \in S
        BY <1>1, <3>1 DEF stream_objects
      <3>3. /\ Append(stream_objects, y) \in Seq(S)
            /\ Len(Append(stream_objects, y)) = Len(payload_objects) + 1
            /\ \A k \in 1 .. Len(payload_objects) : Append(stream_objects, y)[k] = stream_objects[k]
            /\ Append(stream_objects, y)[Len(payload_objects) + 1] = y
        <4> HIDE DEF S
        <4> QED  BY <2>4, <3>2, AppendOf
      <3> HIDE DEF S
      <3>4. Append(stream_objects, y)
              = [k \in 1 .. Len(payload_objects) + 1 |-> Append(stream_objects, y)[k]]
        BY <3>3, SeqDef, LenProperties
      <3>5. \A k \in 1 .. Len(payload_objects) + 1 :
              Append(stream_objects, y)[k]
                = IF k \in 1 .. Len(payload_objects) THEN stream_objects[k] ELSE y
        BY <1>1, <3>3
      <3> QED  BY <3>4, <3>5
    <2>6. \A k \in 1 .. Len(payload_objects) + 1 :
            f(k) = IF k \in 1 .. Len(payload_objects) THEN stream_objects[k] ELSE y
      <3> HIDE DEF f, y
      <3> QED  BY <1>1, <2>3
    <2> HIDE DEF f
    <2> QED  BY <2>2, <2>5, <2>6
  <1>6. Stream!planned = next_block
    BY StreamObjects DEF WriteOrder
  <1>7. stream_status = "open" /\ stream_status' = "open"
    BY <1>4 DEF stream_status, running
  <1> HIDE DEF n, x
  <1> QED  BY <1>3, <1>4, <1>5, <1>6, <1>7 DEF Stream!Plan

\* Every step of the writer is one of the stream, or is not visible in it.
LEMMA StreamStep ==
    ASSUME CompletionInv, CompletionInv', [Next]_vars
    PROVE  [Stream!Next]_(Stream!svars)
  <1>1. /\ TypeOK /\ WriteOrder /\ LaidOutInOrder /\ TypeOK'
        /\ payload_objects \in Seq(PayloadObjects) /\ Len(payload_objects) \in Nat
        /\ next_block \in Nat /\ next_envelope \in Nat
        /\ envelope_buffer \subseteq EnvelopeJobs /\ emitted \in Seq(BlockRecords)
        /\ Len(emitted) \in Nat
    BY LenProperties DEF CompletionInv, TypeOK, WriteOrder
  <1>2. ASSUME running, UNCHANGED <<payload_objects, emitted>>, ~running', pc' # "ok"
        PROVE  Stream!Fail
    <2>1. /\ stream_status = "open" /\ stream_status' = "failed"
          /\ stream_objects' = stream_objects
      BY <1>2 DEF stream_status, running, stream_objects
    <2> QED  BY <1>2, <2>1 DEF Stream!Fail
  <1>3. ASSUME UNCHANGED <<payload_objects, emitted>>, running <=> running',
               pc' = "ok" <=> pc = "ok"
        PROVE  UNCHANGED Stream!svars
    BY <1>3 DEF Stream!svars, stream_objects, stream_status, running
  <1>4. CASE Seals
    <2>1. PICK return \in {"append", "finish_envelopes"} : Seal(return)
      BY <1>4 DEF Seals, SealForAppend, FinalSeal
    <2>2. running
      BY <1>4 DEF Seals, SealForAppend, FinalSeal, running
    <2> QED  BY <1>1, <2>1, <2>2, SealPlans DEF Stream!Next
  \* The envelope that is written next is the first object that is not written.
  <1>5. ASSUME pc = "emit", NEW e \in next_sealed
        PROVE  /\ e \in EnvelopeJobs
               /\ next_envelope + 1 \in DOMAIN stream_objects
               /\ stream_objects[next_envelope + 1].first = Len(emitted)
               /\ stream_objects[next_envelope + 1].size = Len(records(e))
               /\ Len(records(e)) \in Nat
    <2>1. /\ e \in EnvelopeJobs /\ e \in envelope_buffer /\ e.index = next_envelope
      BY <1>1, <1>5 DEF next_sealed
    <2>2. AsIndexed(payload_objects, e)
      BY <1>1, <2>1 DEF WriteOrder, InFlightAsIndexed
    <2>3. /\ next_envelope < Len(payload_objects)
          /\ e.extent = payload_objects[next_envelope + 1].extent
      BY <2>1, <2>2 DEF AsIndexed
    <2>4. next_envelope + 1 \in 1 .. Len(payload_objects)
      BY <1>1, <2>3
    <2>5. Len(emitted) = payload_objects[next_envelope + 1].extent.first
      BY <1>1, <1>5, <2>3 DEF WriteOrder, WrittenUpToNext, first_block
    <2>6. /\ records(e) \in Seq(BlockRecords)
          /\ Len(records(e)) = e.extent.data + e.extent.parity
      BY <2>1, RecordsType
    <2> QED  BY <1>1, <2>1, <2>3, <2>4, <2>5, <2>6, StreamObjects, LenProperties
  <1>6. CASE EmitEnvelope
    <2>1. PICK e \in next_sealed : emitted' = emitted \o records(e)
      BY <1>6 DEF EmitEnvelope
    <2>2. pc = "emit" /\ pc' = pc /\ UNCHANGED payload_objects
      BY <1>6 DEF EmitEnvelope
    <2>3. Len(emitted') = Len(emitted) + Len(records(e))
      <3>1. records(e) \in Seq(BlockRecords)
        BY <1>5, <2>2, RecordsType
      <3> QED  BY <1>1, <2>1, <3>1, ConcatProperties
    <2>4. /\ stream_status = "open" /\ stream_status' = "open"
          /\ stream_objects' = stream_objects
      BY <2>2 DEF stream_status, stream_objects
    <2> QED  BY <1>5, <2>2, <2>3, <2>4 DEF Stream!Next, Stream!Write
  <1>7. CASE SinkFails
    <2>1. PICK e \in next_sealed : \E n \in 0 .. Len(records(e)) - 1 :
                emitted' = emitted \o SubSeq(records(e), 1, n)
      BY <1>7 DEF SinkFails
    <2>2. PICK n \in 0 .. Len(records(e)) - 1 : emitted' = emitted \o SubSeq(records(e), 1, n)
      BY <2>1
    <2>3. pc = "emit" /\ pc' = "unwind" /\ UNCHANGED payload_objects
      BY <1>7 DEF SinkFails, Unwind
    <2>4. /\ e \in EnvelopeJobs /\ Len(records(e)) \in Nat
          /\ next_envelope + 1 \in DOMAIN stream_objects
          /\ stream_objects[next_envelope + 1].first = Len(emitted)
          /\ stream_objects[next_envelope + 1].size = Len(records(e))
      BY <1>5, <2>3
    <2>5. Len(emitted') = Len(emitted) + n /\ n \in 0 .. Len(records(e))
      <3>1. records(e) \in Seq(BlockRecords)
        BY <2>4, RecordsType
      <3>2. SubSeq(records(e), 1, n) \in Seq(BlockRecords) /\ Len(SubSeq(records(e), 1, n)) = n
        BY <2>4, <3>1, SubSeqProperties
      <3>3. Len(emitted') = Len(emitted) + n
        BY <1>1, <2>2, <3>2, ConcatProperties
      <3> QED  BY <2>4, <3>3
    <2>6. /\ stream_status = "open" /\ stream_status' = "failed"
          /\ stream_objects' = stream_objects
      BY <2>3 DEF stream_status, stream_objects
    <2> QED  BY <2>4, <2>5, <2>6 DEF Stream!Next, Stream!Fail
  <1>8. CASE Join
    <2>1. /\ pc = "join" /\ running /\ ~running' /\ UNCHANGED <<payload_objects, emitted>>
      BY <1>8 DEF Join, running
    <2>2. CASE pc' # "ok"
      BY <1>2, <2>1, <2>2 DEF Stream!Next
    <2>3. CASE pc' = "ok"
      <3>1. next_envelope = Len(payload_objects)
        BY <2>1 DEF CompletionInv, KnowsEnvelopes, WriteOrder, LaidOutInOrder
      <3>2. Len(emitted) = next_block
        BY <1>1, <2>1, <3>1 DEF WriteOrder, WrittenUpToNext, first_block, running
      <3>3. Stream!planned = next_block
        BY <1>1, StreamObjects
      <3>4. /\ stream_status = "open" /\ stream_status' = "ok"
            /\ stream_objects' = stream_objects
        BY <2>1, <2>3 DEF stream_status, stream_objects
      <3> QED  BY <2>1, <3>2, <3>3, <3>4 DEF Stream!Next, Stream!Succeed
    <2> QED  BY <2>2, <2>3
  <1>9. CASE ReadFails \/ ReceiveFrameFails \/ FrameTooLarge \/ ReceiveEnvelopeFails
    <2>1. /\ running /\ pc' = "unwind" /\ UNCHANGED <<payload_objects, emitted>>
      BY <1>9 DEF ReadFails, ReceiveFrameFails, FrameTooLarge, ReceiveEnvelopeFails, Unwind,
                  running
    <2> QED  BY <1>2, <2>1 DEF Stream!Next, running
  <1>10. CASE ~(\/ Seals \/ EmitEnvelope \/ SinkFails \/ Join \/ ReadFails
                \/ ReceiveFrameFails \/ FrameTooLarge \/ ReceiveEnvelopeFails)
    <2>1. UNCHANGED emitted
      BY <1>1, <1>10, Effects
    <2>2. UNCHANGED payload_objects
      <3>1. Seals \/ UNCHANGED payload_objects
        BY DEF BeginMember, EndMembers, ReadChunk, ReadFails, MemberDone,
              SendFrameJob, FrameJobsFull, ReceiveFrame, ReceiveFrameFails,
              DrainedFrames, AppendFrame, FrameTooLarge, AppendDone,
              SendEnvelopeJob, EnvelopeJobsFull,
              ReceiveEnvelope, ReceiveEnvelopeFails, DrainedEnvelopes,
              EmitEnvelope, SinkFails, EmitDone, AwaitFrames,
              NothingToSeal, AwaitEnvelopes, EnvelopesDone, Join, ScopeEnds,
              Finished, TakeFrameJob, CompressFrame, CompressFails,
              FrameWorkerPanics, FrameWorkerStops, TakeEnvelopeJob,
              EncryptEnvelope, EncryptFails, EnvelopeWorkerPanics,
              EnvelopeWorkerStops, Next, MainStep, FrameWorkerStep,
              EnvelopeWorkerStep, Unwind, Fault, Seals
      <3> QED  BY <1>10, <3>1, SMTT(40)
    <2>3. running <=> running'
      BY <1>1, <1>10, EndEffects, Effects DEF running
    <2>4. pc' = "ok" <=> pc = "ok"
      BY <1>1, <1>10, EndEffects DEF ScopeEnds, running
    <2> QED  BY <1>3, <2>1, <2>2, <2>3, <2>4
  <1> QED  BY <1>4, <1>6, <1>7, <1>8, <1>9, <1>10

\* The parallel writer implements the sequential payload stream: however the
\* workers interleave, objects are laid out one after the other, written whole
\* and in order, and a success leaves nothing unwritten.
THEOREM ImplementsPayloadStream == Spec => ImplementsStream
  <1>1. Init => Stream!Init
    BY DEF Init, Stream!Init, stream_objects, stream_status
  <1>2. CompletionInv /\ CompletionInv' /\ [Next]_vars => [Stream!Next]_(Stream!svars)
    BY StreamStep
  <1> QED  BY <1>1, <1>2, CompletionAlways, PTL DEF Spec, ImplementsStream, Stream!Spec

-----------------------------------------------------------------------------
(***************************************************************************)
(* Chunks and where they come from                                         *)
(***************************************************************************)

\* The chunks between the main thread's hand and the index.
FramesOut ==
    {frame_jobs[i] : i \in 1 .. Len(frame_jobs)}
    \cup {frame_worker[w].job : w \in {v \in FrameWorkers : frame_worker[v].state = "busy"}}
    \cup {frame_results[i].value.job : i \in 1 .. Len(frame_results)}
    \cup {r.job : r \in frame_buffer}
    \cup (IF frame_in_hand THEN {frame_job} ELSE {})

\* The envelopes between the main thread's hand and the volumes.
EnvelopesOut ==
    {envelope_jobs[i] : i \in 1 .. Len(envelope_jobs)}
    \cup {envelope_worker[w].job :
            w \in {v \in EnvelopeWorkers : envelope_worker[v].state = "busy"}}
    \cup {envelope_results[i].value : i \in 1 .. Len(envelope_results)}
    \cup envelope_buffer
    \cup (IF envelope_in_hand THEN {envelope_job} ELSE {})

gave_up == pc \in {"unwind", "err", "panic"}

\* A chunk has been read and is not accounted for yet.
chunk_pending == pc = "send" \/ (receiving /\ frame_return # "finish_frames")

in_member == pc = "read" \/ chunk_pending

\* The end of what has been read.
cursor == tar_total_size + IF chunk_pending THEN frame_job.size ELSE 0

last_member == tar_members[Len(tar_members)]

\* Where the main thread is in its input.
ReadingInPlace ==
    /\ tar_members # <<>> => last_member.group > 0
    /\ next_frame.job = 0 => tar_total_size = 0
    /\ in_member =>
          /\ tar_members # <<>>
          /\ input.start = last_member.start /\ input.group = last_member.group
          /\ input.offset <= input.group
          /\ tar_total_size = input.start + input.offset
    /\ chunk_pending =>
          /\ next_frame.job > 0
          /\ frame_job.member = Len(tar_members) - 1
          /\ frame_job.start = input.start /\ frame_job.group = input.group
          /\ frame_job.offset = input.offset
          /\ frame_job.offset + frame_job.size <= frame_job.group
    /\ ~in_member /\ ~gave_up /\ tar_members # <<>>
          => tar_total_size = last_member.start + last_member.group

\* A chunk is cut from the member it names.
CutFrom(members, j) ==
    /\ j.member < Len(members)
    /\ j.start = members[j.member + 1].start
    /\ j.group = members[j.member + 1].group
    /\ j.offset + j.size <= j.group

ChunksCut == \A j \in FramesOut : CutFrom(tar_members, j)

\* The place of a chunk, and of a recorded frame, in the tar stream.
chunk_span(j) == [number |-> j.frame, first |-> j.start + j.offset,
                  end |-> j.start + j.offset + j.size]
frame_span(f) == [number |-> f.frame, first |-> f.tar_offset, end |-> f.tar_offset + f.size]
Spans == {chunk_span(j) : j \in FramesOut}
         \cup {frame_span(frames[i]) : i \in 1 .. Len(frames)}

SpansAbut ==
    /\ \A x \in Spans : x.number < next_frame.job
    /\ \A x \in Spans : x.number = 0 => x.first = 0
    /\ \A x, y \in Spans : y.number = x.number + 1 => y.first = x.end
    /\ ~gave_up => \A x \in Spans : x.number = next_frame.job - 1 => x.end = cursor

\* A recorded frame lies in its member, with flags for its two ends.
InMember(members, f) ==
    /\ f.member < Len(members)
    /\ LET m == members[f.member + 1]
       IN  /\ f.first <=> f.tar_offset = m.start
           /\ f.last <=> f.tar_offset + f.size = m.start + m.group
           /\ f.tar_offset >= m.start
           /\ f.tar_offset + f.size <= m.start + m.group

FramesRecorded ==
    /\ Len(frames) = next_frame.result
    /\ \A i \in 1 .. Len(frames) : frames[i].frame = i - 1 /\ InMember(tar_members, frames[i])

-----------------------------------------------------------------------------
(***************************************************************************)
(* Envelopes and what is in them                                           *)
(***************************************************************************)

\* A plaintext is the frames recorded for envelope k, in order.
Plaintext(p, k) ==
    /\ \A i \in 2 .. Len(p) : p[i] = p[i - 1] + 1
    /\ {p[i] : i \in DOMAIN p} = {frames[i].frame : i \in frames_in(frames, k)}

\* The envelope being filled follows the last recorded frame.
Filling ==
    /\ \A i \in 1 .. Len(frames) : frames[i].envelope <= envelope.index
    /\ frames = <<>> => envelope.index = 0 /\ envelope.plaintext = <<>>
    /\ frames # <<>> /\ envelope.plaintext = <<>>
          => frames[Len(frames)].envelope = envelope.index - 1
    /\ envelope.plaintext # <<>> =>
          /\ frames # <<>>
          /\ frames[Len(frames)].envelope = envelope.index
          /\ frames[Len(frames)].offset + frames[Len(frames)].len = envelope.len
          /\ envelope.plaintext[Len(envelope.plaintext)] = Len(frames) - 1

Plaintexts ==
    /\ Plaintext(envelope.plaintext, envelope.index)
    /\ \A e \in EnvelopesOut : Plaintext(e.plaintext, e.index)

\* A frame would not have fitted after the envelope that was sealed before it.
Overfull(len) == len > Options.envelope_target_size \/ ~payload_object_can_fit(Options, len)

\* An envelope is sealed for the frame that comes next, or at the end.
SealedForNext ==
    /\ gave_up \/ finishing \/ envelope.plaintext # <<>> \/ envelope.index = 0
       \/ pc = "ok" \/ (appending /\ next_results # {})
    /\ running /\ ~finishing /\ envelope.plaintext = <<>> /\ envelope.index > 0
          => \A r \in next_results : Overfull(payload_objects[envelope.index].len + r.len)

IndexInv ==
    /\ ReadingInPlace /\ ChunksCut /\ SpansAbut /\ FramesRecorded
    /\ Filling /\ Plaintexts /\ SealedForNext
    /\ TilesEnvelopes(frames, payload_objects)
    /\ PackedGreedily(Options, frames, payload_objects)
    /\ DescribesBlocks(frames, payload_objects, emitted)

-----------------------------------------------------------------------------
(***************************************************************************)
(* What was written                                                        *)
(***************************************************************************)

\* The leaf hashes are those of the data blocks written, in order.
LeavesCollected ==
    CollectLeaves =>
        /\ {leaves[i] : i \in DOMAIN leaves}
             = {emitted[i].block : i \in {j \in DOMAIN emitted : emitted[j].data}}
        /\ \A i \in 2 .. Len(leaves) : leaves[i - 1] < leaves[i]

AllWritten == pc = "ok" => Len(emitted) = next_block

-----------------------------------------------------------------------------
(***************************************************************************)
(* Chunks and envelopes on their way                                       *)
(***************************************************************************)

USE DEF vars, returns, ordered, channels, reading, packing, sealing, sink,
        frame_side, envelope_side, Returned, Terminal

\* The members of a channel after a step on it.
LEMMA TailMembers ==
    ASSUME NEW S, NEW s \in Seq(S), s # <<>>, NEW i \in 1 .. Len(Tail(s))
    PROVE  /\ i + 1 \in 1 .. Len(s) /\ Tail(s)[i] = s[i + 1]
  BY TailOf

LEMMA AppendMembers ==
    ASSUME NEW S, NEW s \in Seq(S), NEW x \in S, NEW i \in 1 .. Len(Append(s, x))
    PROVE  \/ i \in 1 .. Len(s) /\ Append(s, x)[i] = s[i]
           \/ i = Len(s) + 1 /\ Append(s, x)[i] = x
  BY AppendOf

\* What a compression worker that is busy works on.
LEMMA FrameWorkersHave ==
    ASSUME TypeOK, [Next]_vars, NEW w \in FrameWorkers, frame_worker'[w].state = "busy"
    PROVE  \/ frame_worker[w].state = "busy" /\ frame_worker'[w].job = frame_worker[w].job
           \/ frame_jobs # <<>> /\ frame_worker'[w].job = Head(frame_jobs)
  <1>1. frame_worker \in [FrameWorkers -> [state : WorkerStates, job : FrameJobs]]
    BY DEF TypeOK
  <1>2. ASSUME NEW v \in FrameWorkers, FrameWorkerStep(v)
        PROVE  \/ frame_worker[w].state = "busy" /\ frame_worker'[w].job = frame_worker[w].job
               \/ frame_jobs # <<>> /\ frame_worker'[w].job = Head(frame_jobs)
    <2>1. CASE w # v
      <3>1. \E x : frame_worker' = [frame_worker EXCEPT ![v] = x]
        BY <1>2 DEF FrameWorkerStep, TakeFrameJob, CompressFrame, CompressFails,
                    FrameWorkerPanics, FrameWorkerStops
      <3> QED  BY <1>1, <2>1, <3>1
    <2>2. CASE w = v /\ TakeFrameJob(v)
      BY <1>1, <2>2 DEF TakeFrameJob, Worker
    <2>3. CASE w = v /\ ~TakeFrameJob(v)
      <3>1. \E state \in {"idle", "stopped", "panicked"} :
              frame_worker' = [frame_worker EXCEPT ![v] = Worker(state, NoFrameJob)]
        BY <1>2, <2>3 DEF FrameWorkerStep, CompressFrame, CompressFails,
                    FrameWorkerPanics, FrameWorkerStops
      <3>2. frame_worker'[v].state \in {"idle", "stopped", "panicked"}
        BY <1>1, <3>1 DEF Worker
      <3> QED  BY <2>3, <3>2
    <2> QED  BY <2>1, <2>2, <2>3
  <1> QED  BY <1>2, FrameEffects

\* What an encryption worker that is busy works on.
LEMMA EnvelopeWorkersHave ==
    ASSUME TypeOK, [Next]_vars, NEW w \in EnvelopeWorkers, envelope_worker'[w].state = "busy"
    PROVE  \/ envelope_worker[w].state = "busy" /\ envelope_worker'[w].job = envelope_worker[w].job
           \/ envelope_jobs # <<>> /\ envelope_worker'[w].job = Head(envelope_jobs)
  <1>1. envelope_worker \in [EnvelopeWorkers -> [state : WorkerStates, job : EnvelopeJobs]]
    BY DEF TypeOK
  <1>2. ASSUME NEW v \in EnvelopeWorkers, EnvelopeWorkerStep(v)
        PROVE  \/ /\ envelope_worker[w].state = "busy"
                  /\ envelope_worker'[w].job = envelope_worker[w].job
               \/ envelope_jobs # <<>> /\ envelope_worker'[w].job = Head(envelope_jobs)
    <2>1. CASE w # v
      <3>1. \E x : envelope_worker' = [envelope_worker EXCEPT ![v] = x]
        BY <1>2 DEF EnvelopeWorkerStep, TakeEnvelopeJob, EncryptEnvelope, EncryptFails,
                    EnvelopeWorkerPanics, EnvelopeWorkerStops
      <3> QED  BY <1>1, <2>1, <3>1
    <2>2. CASE w = v /\ TakeEnvelopeJob(v)
      BY <1>1, <2>2 DEF TakeEnvelopeJob, Worker
    <2>3. CASE w = v /\ ~TakeEnvelopeJob(v)
      <3>1. \E state \in {"idle", "stopped", "panicked"} :
              envelope_worker' = [envelope_worker EXCEPT ![v] = Worker(state, NoEnvelopeJob)]
        BY <1>2, <2>3 DEF EnvelopeWorkerStep, EncryptEnvelope, EncryptFails,
                    EnvelopeWorkerPanics, EnvelopeWorkerStops
      <3>2. envelope_worker'[v].state \in {"idle", "stopped", "panicked"}
        BY <1>1, <3>1 DEF Worker
      <3> QED  BY <2>3, <3>2
    <2> QED  BY <2>1, <2>2, <2>3
  <1> QED  BY <1>2, Effects

\* A chunk on its way was on its way before, or has just been read.
LEMMA FramesFlow ==
    ASSUME TypeOK, [Next]_vars, NEW j \in FramesOut'
    PROVE  j \in FramesOut \/ (ReadChunk /\ j = frame_job')
  <1>0. /\ frame_jobs \in Seq(FrameJobs) /\ frame_results \in Seq(FrameMessages)
        /\ frame_job \in FrameJobs
        /\ frame_worker \in [FrameWorkers -> [state : WorkerStates, job : FrameJobs]]
    BY DEF TypeOK
  <1>1. frame_jobs # <<>> => /\ 1 \in 1 .. Len(frame_jobs)
                             /\ Head(frame_jobs) = frame_jobs[1]
    BY <1>0, TailOf
  <1>2. CASE \E i \in 1 .. Len(frame_jobs') : j = frame_jobs'[i]
    <2>1. PICK i \in 1 .. Len(frame_jobs') : j = frame_jobs'[i]
      BY <1>2
    <2>2. CASE SendFrameJob
      <3>1. frame_jobs' = Append(frame_jobs, frame_job) /\ frame_in_hand
        BY <2>2 DEF SendFrameJob, frame_in_hand
      <3>2. j \in {frame_jobs[k] : k \in 1 .. Len(frame_jobs)} \/ j = frame_job
        BY <1>0, <2>1, <3>1, AppendMembers
      <3> QED  BY <3>1, <3>2 DEF FramesOut
    <2>3. CASE \E w \in FrameWorkers : TakeFrameJob(w)
      <3>1. frame_jobs # <<>> /\ frame_jobs' = Tail(frame_jobs)
        BY <2>3 DEF TakeFrameJob
      <3>2. i + 1 \in 1 .. Len(frame_jobs) /\ j = frame_jobs[i + 1]
        BY <1>0, <2>1, <3>1, TailMembers
      <3> QED  BY <3>2 DEF FramesOut
    <2>4. CASE UNCHANGED frame_jobs
      BY <2>1, <2>4 DEF FramesOut
    <2> QED  BY <2>2, <2>3, <2>4, FrameEffects
  <1>3. CASE \E w \in FrameWorkers : frame_worker'[w].state = "busy" /\ j = frame_worker'[w].job
    BY <1>1, <1>3, FrameWorkersHave DEF FramesOut
  <1>4. CASE \E i \in 1 .. Len(frame_results') : j = frame_results'[i].value.job
    <2>1. PICK i \in 1 .. Len(frame_results') : j = frame_results'[i].value.job
      BY <1>4
    <2>2. CASE ReceiveFrame \/ ReceiveFrameFails \/ UNCHANGED frame_results
      <3>1. \/ frame_results # <<>> /\ frame_results' = Tail(frame_results)
            \/ frame_results' = frame_results
        BY <2>2 DEF ReceiveFrame, ReceiveFrameFails
      <3>2. CASE frame_results # <<>> /\ frame_results' = Tail(frame_results)
        <4>1. i + 1 \in 1 .. Len(frame_results) /\ j = frame_results[i + 1].value.job
          BY <1>0, <2>1, <3>2, TailMembers
        <4> QED  BY <4>1 DEF FramesOut
      <3> QED  BY <2>1, <3>1, <3>2 DEF FramesOut
    <2>3. ASSUME NEW w \in FrameWorkers, CompressFrame(w) \/ CompressFails(w)
          PROVE  j \in FramesOut
      <3>1. /\ frame_worker[w].state = "busy" /\ frame_worker[w].job \in FrameJobs
            /\ \/ \E m \in FrameMessages : /\ m.value.job = frame_worker[w].job
                                           /\ frame_results' = Append(frame_results, m)
               \/ frame_results' = frame_results
        <4>1. frame_worker[w].job \in FrameJobs
          BY <1>0
        <4>2. \A n \in Nat : LET v == [job |-> frame_worker[w].job, len |-> n]
                             IN  /\ Ok(v) \in FrameMessages /\ Failed(v) \in FrameMessages
                                 /\ Ok(v).value.job = frame_worker[w].job
                                 /\ Failed(v).value.job = frame_worker[w].job
          BY <4>1 DEF Ok, Failed, FrameMessages, FrameResults
        <4>3. FrameLens \subseteq Nat
          BY InputAssumption
        <4>4. \/ \E n \in Nat : frame_results'
                                  = Append(frame_results, Ok([job |-> frame_worker[w].job, len |-> n]))
              \/ \E n \in Nat : frame_results'
                                  = Append(frame_results, Failed([job |-> frame_worker[w].job, len |-> n]))
              \/ frame_results' = frame_results
          BY <2>3, <4>3 DEF CompressFrame, CompressFails
        <4>5. frame_worker[w].state = "busy"
          BY <2>3 DEF CompressFrame, CompressFails
        <4> QED  BY <4>1, <4>2, <4>4, <4>5
      <3>2. CASE frame_results' = frame_results
        BY <2>1, <3>2 DEF FramesOut
      <3>3. ASSUME NEW m \in FrameMessages, m.value.job = frame_worker[w].job,
                   frame_results' = Append(frame_results, m)
            PROVE  j \in FramesOut
        <4>1. \/ i \in 1 .. Len(frame_results) /\ frame_results'[i] = frame_results[i]
              \/ frame_results'[i] = m
          BY <1>0, <2>1, <3>3, AppendMembers
        <4> QED  BY <2>1, <3>1, <3>3, <4>1 DEF FramesOut
      <3> QED  BY <3>1, <3>2, <3>3
    <2> QED  BY <2>2, <2>3, FrameEffects
  <1>5. CASE \E r \in frame_buffer' : j = r.job
    <2>1. PICK r \in frame_buffer' : j = r.job
      BY <1>5
    <2>2. CASE ReceiveFrame
      <3>1. /\ frame_results # <<>>
            /\ frame_buffer' = frame_buffer \cup {Head(frame_results).value}
        BY <2>2 DEF ReceiveFrame
      <3>2. 1 \in 1 .. Len(frame_results) /\ Head(frame_results) = frame_results[1]
        BY <1>0, <3>1, TailOf
      <3> QED  BY <2>1, <3>1, <3>2 DEF FramesOut
    <2>3. CASE AppendFrame \/ UNCHANGED frame_buffer
      <3>1. frame_buffer' \subseteq frame_buffer
        BY <2>3 DEF AppendFrame
      <3> QED  BY <2>1, <3>1 DEF FramesOut
    <2> QED  BY <2>2, <2>3, FrameEffects
  <1>6. CASE frame_in_hand' /\ j = frame_job'
    BY <1>6, FrameHand DEF FramesOut
  <1> QED  BY <1>2, <1>3, <1>4, <1>5, <1>6 DEF FramesOut

\* An envelope on its way was on its way before, or has just been sealed.
LEMMA EnvelopesFlow ==
    ASSUME TypeOK, [Next]_vars, NEW e \in EnvelopesOut'
    PROVE  e \in EnvelopesOut \/ (Seals /\ e = envelope_job')
  <1>0. /\ envelope_jobs \in Seq(EnvelopeJobs) /\ envelope_results \in Seq(EnvelopeMessages)
        /\ envelope_job \in EnvelopeJobs
        /\ envelope_worker \in [EnvelopeWorkers -> [state : WorkerStates, job : EnvelopeJobs]]
    BY DEF TypeOK
  <1>1. envelope_jobs # <<>> => /\ 1 \in 1 .. Len(envelope_jobs)
                                /\ Head(envelope_jobs) = envelope_jobs[1]
    BY <1>0, TailOf
  <1>2. CASE \E i \in 1 .. Len(envelope_jobs') : e = envelope_jobs'[i]
    <2>1. PICK i \in 1 .. Len(envelope_jobs') : e = envelope_jobs'[i]
      BY <1>2
    <2>2. CASE SendEnvelopeJob
      <3>1. envelope_jobs' = Append(envelope_jobs, envelope_job) /\ envelope_in_hand
        BY <2>2 DEF SendEnvelopeJob, envelope_in_hand
      <3>2. e \in {envelope_jobs[k] : k \in 1 .. Len(envelope_jobs)} \/ e = envelope_job
        BY <1>0, <2>1, <3>1, AppendMembers
      <3> QED  BY <3>1, <3>2 DEF EnvelopesOut
    <2>3. CASE \E w \in EnvelopeWorkers : TakeEnvelopeJob(w)
      <3>1. envelope_jobs # <<>> /\ envelope_jobs' = Tail(envelope_jobs)
        BY <2>3 DEF TakeEnvelopeJob
      <3>2. i + 1 \in 1 .. Len(envelope_jobs) /\ e = envelope_jobs[i + 1]
        BY <1>0, <2>1, <3>1, TailMembers
      <3> QED  BY <3>2 DEF EnvelopesOut
    <2>4. CASE UNCHANGED envelope_jobs
      BY <2>1, <2>4 DEF EnvelopesOut
    <2> QED  BY <2>2, <2>3, <2>4, Effects
  <1>3. CASE \E w \in EnvelopeWorkers : envelope_worker'[w].state = "busy"
                                        /\ e = envelope_worker'[w].job
    BY <1>1, <1>3, EnvelopeWorkersHave DEF EnvelopesOut
  <1>4. CASE \E i \in 1 .. Len(envelope_results') : e = envelope_results'[i].value
    <2>1. PICK i \in 1 .. Len(envelope_results') : e = envelope_results'[i].value
      BY <1>4
    <2>2. CASE ReceiveEnvelope \/ ReceiveEnvelopeFails \/ UNCHANGED envelope_results
      <3>1. \/ envelope_results # <<>> /\ envelope_results' = Tail(envelope_results)
            \/ envelope_results' = envelope_results
        BY <2>2 DEF ReceiveEnvelope, ReceiveEnvelopeFails
      <3>2. CASE envelope_results # <<>> /\ envelope_results' = Tail(envelope_results)
        <4>1. i + 1 \in 1 .. Len(envelope_results) /\ e = envelope_results[i + 1].value
          BY <1>0, <2>1, <3>2, TailMembers
        <4> QED  BY <4>1 DEF EnvelopesOut
      <3> QED  BY <2>1, <3>1, <3>2 DEF EnvelopesOut
    <2>3. ASSUME NEW w \in EnvelopeWorkers, EncryptEnvelope(w) \/ EncryptFails(w)
          PROVE  e \in EnvelopesOut
      <3>1. /\ envelope_worker[w].state = "busy"
            /\ \/ \E m \in EnvelopeMessages : /\ m.value = envelope_worker[w].job
                                              /\ envelope_results' = Append(envelope_results, m)
               \/ envelope_results' = envelope_results
        <4>1. envelope_worker[w].job \in EnvelopeJobs
          BY <1>0
        <4>2. LET v == envelope_worker[w].job
              IN  /\ Ok(v) \in EnvelopeMessages /\ Failed(v) \in EnvelopeMessages
                  /\ Ok(v).value = v /\ Failed(v).value = v
          BY <4>1 DEF Ok, Failed, EnvelopeMessages
        <4>3. \/ envelope_results' = Append(envelope_results, Ok(envelope_worker[w].job))
              \/ envelope_results' = Append(envelope_results, Failed(envelope_worker[w].job))
              \/ envelope_results' = envelope_results
          BY <2>3 DEF EncryptEnvelope, EncryptFails
        <4>4. envelope_worker[w].state = "busy"
          BY <2>3 DEF EncryptEnvelope, EncryptFails
        <4> QED  BY <4>2, <4>3, <4>4
      <3>2. CASE envelope_results' = envelope_results
        BY <2>1, <3>2 DEF EnvelopesOut
      <3>3. ASSUME NEW m \in EnvelopeMessages, m.value = envelope_worker[w].job,
                   envelope_results' = Append(envelope_results, m)
            PROVE  e \in EnvelopesOut
        <4>1. \/ i \in 1 .. Len(envelope_results) /\ envelope_results'[i] = envelope_results[i]
              \/ envelope_results'[i] = m
          BY <1>0, <2>1, <3>3, AppendMembers
        <4> QED  BY <2>1, <3>1, <3>3, <4>1 DEF EnvelopesOut
      <3> QED  BY <3>1, <3>2, <3>3
    <2> QED  BY <2>2, <2>3, Effects
  <1>5. CASE e \in envelope_buffer'
    <2>2. CASE ReceiveEnvelope
      <3>1. /\ envelope_results # <<>>
            /\ envelope_buffer' = envelope_buffer \cup {Head(envelope_results).value}
        BY <2>2 DEF ReceiveEnvelope
      <3>2. 1 \in 1 .. Len(envelope_results) /\ Head(envelope_results) = envelope_results[1]
        BY <1>0, <3>1, TailOf
      <3> QED  BY <1>5, <3>1, <3>2 DEF EnvelopesOut
    <2>3. CASE EmitEnvelope \/ SinkFails \/ UNCHANGED envelope_buffer
      <3>1. envelope_buffer' \subseteq envelope_buffer
        BY <2>3 DEF EmitEnvelope, SinkFails
      <3> QED  BY <1>5, <3>1 DEF EnvelopesOut
    <2> QED  BY <2>2, <2>3, Effects
  <1>6. CASE envelope_in_hand' /\ e = envelope_job'
    BY <1>6, EnvelopeHand DEF EnvelopesOut
  <1> QED  BY <1>2, <1>3, <1>4, <1>5, <1>6 DEF EnvelopesOut

\* What is on its way are jobs.
LEMMA OutTypes == TypeOK => FramesOut \subseteq FrameJobs /\ EnvelopesOut \subseteq EnvelopeJobs
  <1> SUFFICES ASSUME TypeOK
               PROVE  FramesOut \subseteq FrameJobs /\ EnvelopesOut \subseteq EnvelopeJobs
    OBVIOUS
  <1>0. /\ frame_jobs \in Seq(FrameJobs) /\ frame_results \in Seq(FrameMessages)
        /\ frame_job \in FrameJobs /\ frame_buffer \subseteq FrameResults
        /\ frame_worker \in [FrameWorkers -> [state : WorkerStates, job : FrameJobs]]
        /\ envelope_jobs \in Seq(EnvelopeJobs) /\ envelope_results \in Seq(EnvelopeMessages)
        /\ envelope_job \in EnvelopeJobs /\ envelope_buffer \subseteq EnvelopeJobs
        /\ envelope_worker \in [EnvelopeWorkers -> [state : WorkerStates, job : EnvelopeJobs]]
    BY DEF TypeOK
  <1>1. /\ \A i \in 1 .. Len(frame_jobs) : frame_jobs[i] \in FrameJobs
        /\ \A i \in 1 .. Len(frame_results) : frame_results[i] \in FrameMessages
        /\ \A i \in 1 .. Len(envelope_jobs) : envelope_jobs[i] \in EnvelopeJobs
        /\ \A i \in 1 .. Len(envelope_results) : envelope_results[i] \in EnvelopeMessages
    BY <1>0, ElementOfSeq
  <1>2. \A m \in FrameMessages : m.value.job \in FrameJobs
    BY DEF FrameMessages, FrameResults
  <1>3. \A m \in EnvelopeMessages : m.value \in EnvelopeJobs
    BY DEF EnvelopeMessages
  <1>4. \A r \in FrameResults : r.job \in FrameJobs
    BY DEF FrameResults
  <1>5. FramesOut \subseteq FrameJobs
    <2>1. \A w \in FrameWorkers : frame_worker[w].job \in FrameJobs
      BY <1>0
    <2> QED  BY <1>0, <1>1, <1>2, <1>4, <2>1 DEF FramesOut
  <1>6. EnvelopesOut \subseteq EnvelopeJobs
    <2>1. \A w \in EnvelopeWorkers : envelope_worker[w].job \in EnvelopeJobs
      BY <1>0
    <2> QED  BY <1>0, <1>1, <1>3, <2>1 DEF EnvelopesOut
  <1> QED  BY <1>5, <1>6

LEMMA OutTypesNext ==
    TypeOK' => (FramesOut \subseteq FrameJobs)' /\ (EnvelopesOut \subseteq EnvelopeJobs)'
  BY OutTypes, PTL

-----------------------------------------------------------------------------
(***************************************************************************)
(* Reading                                                                 *)
(***************************************************************************)

\* What moves the main thread through its input.
LEMMA ReadingEffects ==
    ASSUME TypeOK, [Next]_vars
    PROVE  /\ BeginMember \/ UNCHANGED tar_members
           /\ BeginMember \/ DrainedFrames \/ UNCHANGED input
           /\ DrainedFrames \/ UNCHANGED tar_total_size
           /\ ReadChunk \/ DrainedFrames \/ UNCHANGED frame_job
           /\ chunk_pending' => chunk_pending \/ ReadChunk
           /\ chunk_pending /\ ~gave_up' => chunk_pending' \/ DrainedFrames
           /\ in_member' => in_member \/ BeginMember
           /\ in_member /\ ~gave_up' => in_member' \/ MemberDone
           /\ gave_up => gave_up'
           /\ ReadChunk => pc = "read" /\ ~chunk_pending /\ chunk_pending'
           /\ DrainedFrames => chunk_pending /\ ~chunk_pending' /\ in_member'
           /\ BeginMember => ~in_member /\ ~chunk_pending' /\ in_member' /\ ~gave_up
           /\ MemberDone => pc = "read" /\ ~chunk_pending /\ ~in_member'
  <1>0. /\ frame_return \in {"drain", "send", "finish_frames"}
        /\ flush_return \in {"append", "finish_envelopes"}
        /\ emit_return \in {"drain", "seal", "finish_envelopes"}
    BY DEF TypeOK
  <1> USE DEF BeginMember, EndMembers, ReadChunk, ReadFails, MemberDone,
              SendFrameJob, FrameJobsFull, ReceiveFrame, ReceiveFrameFails,
              DrainedFrames, AppendFrame, FrameTooLarge, AppendDone,
              SealForAppend, SendEnvelopeJob, EnvelopeJobsFull,
              ReceiveEnvelope, ReceiveEnvelopeFails, DrainedEnvelopes,
              EmitEnvelope, SinkFails, EmitDone, AwaitFrames, FinalSeal,
              NothingToSeal, AwaitEnvelopes, EnvelopesDone, Join, ScopeEnds,
              Finished, TakeFrameJob, CompressFrame, CompressFails,
              FrameWorkerPanics, FrameWorkerStops, TakeEnvelopeJob,
              EncryptEnvelope, EncryptFails, EnvelopeWorkerPanics,
              EnvelopeWorkerStops, Next, MainStep, FrameWorkerStep,
              EnvelopeWorkerStep, Unwind, Fault, Seal
  <1>1. /\ BeginMember \/ UNCHANGED tar_members
        /\ BeginMember \/ DrainedFrames \/ UNCHANGED input
    OBVIOUS
  <1>2. /\ DrainedFrames \/ UNCHANGED tar_total_size
        /\ ReadChunk \/ DrainedFrames \/ UNCHANGED frame_job
    OBVIOUS
  <1> USE DEF chunk_pending, receiving, appending, flushing, gave_up, in_member
  <1>3. chunk_pending' => chunk_pending \/ ReadChunk
    BY <1>0, ZenonT(60)
  <1>4. chunk_pending /\ ~gave_up' => chunk_pending' \/ DrainedFrames
    BY <1>0, ZenonT(60)
  <1>5. in_member' => in_member \/ BeginMember
    BY <1>0, ZenonT(60)
  <1>6. in_member /\ ~gave_up' => in_member' \/ MemberDone
    BY <1>0, ZenonT(60)
  <1>7. gave_up => gave_up'
    BY <1>0
  <1>8. /\ ReadChunk => pc = "read" /\ ~chunk_pending /\ chunk_pending'
        /\ DrainedFrames => chunk_pending /\ ~chunk_pending' /\ in_member'
        /\ BeginMember => ~in_member /\ ~chunk_pending' /\ in_member' /\ ~gave_up
        /\ MemberDone => pc = "read" /\ ~chunk_pending /\ ~in_member'
    BY <1>0
  <1> QED  BY <1>1, <1>2, <1>3, <1>4, <1>5, <1>6, <1>7, <1>8

\* The main thread stays in its place in the input.
LEMMA ReadingStep ==
    ASSUME TypeOK, TypeOK', ReadingInPlace, [Next]_vars
    PROVE  ReadingInPlace'
  <1>0. /\ tar_members \in Seq(TarMembers) /\ Len(tar_members) \in Nat
        /\ input \in [start : Nat, group : Nat, offset : Nat]
        /\ input.start \in Nat /\ input.group \in Nat /\ input.offset \in Nat
        /\ tar_total_size \in Nat /\ frame_job \in FrameJobs
        /\ next_frame.job \in Nat /\ next_frame'.job \in Nat
        /\ frame_job.size \in Nat /\ frame_job.offset \in Nat
        /\ Options.chunk_size \in Nat \ {0}
    BY LenProperties, OptionTypes DEF TypeOK, FrameJobs
  <1>1. CASE BeginMember
    <2>1. PICK size \in GroupSizes :
            /\ input' = [start |-> tar_total_size, group |-> size, offset |-> 0]
            /\ tar_members' = Append(tar_members, [start |-> tar_total_size, group |-> size])
      BY <1>1 DEF BeginMember
    <2>2. size \in Nat \ {0}
      BY InputAssumption
    <2>3. [start |-> tar_total_size, group |-> size] \in TarMembers
      BY <1>0, <2>2 DEF TarMembers
    <2>4. /\ Len(tar_members') = Len(tar_members) + 1
          /\ tar_members'[Len(tar_members) + 1] = [start |-> tar_total_size, group |-> size]
          /\ tar_members' # <<>>
      BY <1>0, <2>1, <2>3, AppendOf
    <2>5. last_member' = [start |-> tar_total_size, group |-> size]
      BY <2>4 DEF last_member
    <2>6. UNCHANGED <<tar_total_size, next_frame>>
      BY <1>1 DEF BeginMember
    <2>7. ~chunk_pending' /\ in_member'
      BY <1>1, ReadingEffects
    <2> QED  BY <1>0, <2>1, <2>2, <2>4, <2>5, <2>6, <2>7 DEF ReadingInPlace
  <1>2. CASE ReadChunk
    <2>1. /\ in_member /\ chunk_pending' /\ in_member' /\ pc = "read"
      BY <1>2, ReadingEffects DEF in_member
    <2>2. /\ UNCHANGED <<tar_members, tar_total_size, input>>
          /\ next_frame' = [next_frame EXCEPT !.job = @ + 1]
          /\ input.offset < input.group
      BY <1>2 DEF ReadChunk
    <2>3. PICK size \in Nat : /\ size <= input.group - input.offset
                              /\ frame_job' = [frame |-> next_frame.job,
                                    member |-> Len(tar_members) - 1,
                                    start |-> input.start, offset |-> input.offset,
                                    group |-> input.group, size |-> size]
      <3> DEFINE left == input.group - input.offset
                 size == IF left < Options.chunk_size THEN left ELSE Options.chunk_size
      <3>1. size \in Nat /\ size <= left
        BY <1>0, <2>2
      <3>2. frame_job' = [frame |-> next_frame.job, member |-> Len(tar_members) - 1,
                          start |-> input.start, offset |-> input.offset,
                          group |-> input.group, size |-> size]
        BY <1>2 DEF ReadChunk
      <3> HIDE DEF size
      <3> QED  BY <3>1, <3>2
    <2>4. next_frame'.job > 0
      BY <1>0, <1>2, FrameHand
    <2>5. last_member' = last_member
      BY <2>2 DEF last_member
    <2> QED  BY <1>0, <2>1, <2>2, <2>3, <2>4, <2>5 DEF ReadingInPlace
  <1>3. CASE DrainedFrames
    <2>1. /\ chunk_pending /\ ~chunk_pending' /\ in_member' /\ in_member
      BY <1>3, ReadingEffects DEF in_member
    <2>2. /\ UNCHANGED <<tar_members, next_frame>>
          /\ input' = [input EXCEPT !.offset = @ + frame_job.size]
          /\ tar_total_size' = tar_total_size + frame_job.size
      BY <1>3 DEF DrainedFrames
    <2>3. /\ input'.start = input.start /\ input'.group = input.group
          /\ input'.offset = input.offset + frame_job.size
      BY <1>0, <2>2
    <2>4. last_member' = last_member
      BY <2>2 DEF last_member
    <2> QED  BY <1>0, <2>1, <2>2, <2>3, <2>4, SMTT(40) DEF ReadingInPlace
  <1>4. CASE MemberDone
    <2>1. /\ UNCHANGED <<tar_members, input, tar_total_size, next_frame>>
          /\ input.offset = input.group
      BY <1>4 DEF MemberDone
    <2>2. in_member /\ ~chunk_pending /\ ~in_member' /\ ~chunk_pending'
      BY <1>4, ReadingEffects DEF in_member
    <2>3. last_member' = last_member
      BY <2>1 DEF last_member
    <2> QED  BY <1>0, <2>1, <2>2, <2>3 DEF ReadingInPlace
  <1>5. CASE ~(BeginMember \/ ReadChunk \/ DrainedFrames \/ MemberDone)
    <2>1. UNCHANGED <<tar_members, input, tar_total_size, frame_job>>
      BY <1>5, ReadingEffects
    <2>2. next_frame'.job = next_frame.job
      BY <1>5, FrameHand
    <2>3. /\ chunk_pending' => chunk_pending
          /\ in_member' => in_member
          /\ ~in_member' /\ ~gave_up' => ~in_member /\ ~gave_up
      BY <1>5, ReadingEffects
    <2>4. last_member' = last_member
      BY <2>1 DEF last_member
    <2> QED  BY <2>1, <2>2, <2>3, <2>4 DEF ReadingInPlace
  <1> QED  BY <1>1, <1>2, <1>3, <1>4, <1>5

\* The end of what has been read moves when a chunk is read.
LEMMA CursorStep ==
    ASSUME TypeOK, [Next]_vars, ReadingInPlace, ~gave_up'
    PROVE  /\ ReadChunk \/ cursor' = cursor
           /\ ReadChunk => /\ cursor = frame_job'.start + frame_job'.offset
                           /\ cursor' = cursor + frame_job'.size
  <1>0. /\ tar_total_size \in Nat /\ frame_job.size \in Nat
    BY DEF TypeOK, FrameJobs
  <1>1. CASE ReadChunk
    <2>1. /\ ~chunk_pending /\ chunk_pending' /\ in_member
      BY <1>1, ReadingEffects DEF in_member
    <2>2. /\ UNCHANGED tar_total_size
          /\ frame_job'.start = input.start /\ frame_job'.offset = input.offset
      BY <1>1 DEF ReadChunk
    <2> QED  BY <1>0, <1>1, <2>1, <2>2 DEF cursor, ReadingInPlace
  <1>2. CASE DrainedFrames
    <2>1. /\ chunk_pending /\ ~chunk_pending'
      BY <1>2, ReadingEffects
    <2>2. tar_total_size' = tar_total_size + frame_job.size
      BY <1>2 DEF DrainedFrames
    <2>3. ~ReadChunk
      BY <2>1, ReadingEffects
    <2> QED  BY <1>0, <2>1, <2>2, <2>3 DEF cursor
  <1>3. CASE ~(ReadChunk \/ DrainedFrames)
    <2>1. /\ chunk_pending' <=> chunk_pending
          /\ UNCHANGED <<tar_total_size, frame_job>>
      BY <1>3, ReadingEffects
    <2> QED  BY <1>3, <2>1 DEF cursor
  <1> QED  BY <1>1, <1>2, <1>3

\* A member that is recorded stays where it is.
LEMMA MembersStay ==
    ASSUME TypeOK, [Next]_vars
    PROVE  /\ Len(tar_members) \in Nat /\ Len(tar_members') \in Nat
           /\ Len(tar_members) <= Len(tar_members')
           /\ \A i \in 1 .. Len(tar_members) : tar_members'[i] = tar_members[i]
           /\ \A i \in 1 .. Len(tar_members) : tar_members[i] \in TarMembers
  <1>0. tar_members \in Seq(TarMembers) /\ tar_total_size \in Nat
    BY DEF TypeOK
  <1>1. CASE BeginMember
    <2>1. PICK size \in GroupSizes :
            tar_members' = Append(tar_members, [start |-> tar_total_size, group |-> size])
      BY <1>1 DEF BeginMember
    <2>2. [start |-> tar_total_size, group |-> size] \in TarMembers
      BY <1>0, InputAssumption DEF TarMembers
    <2> QED  BY <1>0, <2>1, <2>2, AppendOf, ElementOfSeq
  <1>2. CASE UNCHANGED tar_members
    BY <1>0, <1>2, LenProperties, ElementOfSeq
  <1> QED  BY <1>1, <1>2, ReadingEffects

\* A chunk on its way is cut from the member it names.
LEMMA ChunksStep ==
    ASSUME TypeOK, TypeOK', ReadingInPlace', ChunksCut, [Next]_vars
    PROVE  ChunksCut'
  <1> SUFFICES ASSUME NEW j \in FramesOut'
               PROVE  CutFrom(tar_members', j)
    BY DEF ChunksCut
  <1>1. CASE j \in FramesOut
    <2>1. j.member \in Nat /\ CutFrom(tar_members, j)
      BY <1>1, OutTypes DEF ChunksCut, FrameJobs
    <2> QED  BY <2>1, MembersStay DEF CutFrom
  <1>2. CASE ReadChunk /\ j = frame_job'
    <2>1. chunk_pending' /\ in_member'
      BY <1>2, ReadingEffects DEF in_member
    <2>2. Len(tar_members') \in Nat
      BY MembersStay
    <2>3. /\ j.member = Len(tar_members') - 1
          /\ j.start = (last_member.start)' /\ j.group = (last_member.group)'
          /\ j.offset + j.size <= j.group
      BY <1>2, <2>1 DEF ReadingInPlace
    <2>4. last_member' = tar_members'[j.member + 1]
      BY <2>2, <2>3 DEF last_member
    <2> QED  BY <2>2, <2>3, <2>4 DEF CutFrom
  <1> QED  BY <1>1, <1>2, FramesFlow

\* What packing a frame does.
LEMMA AppendFrameEffect ==
    ASSUME TypeOK, AppendFrame
    PROVE  \E r \in next_results :
             /\ r \in FrameResults /\ r.job \in FramesOut /\ r.job \in FrameJobs /\ r.len \in Nat
             /\ r.job.frame = next_frame.result
             /\ ~needs_flush(r.len)
             /\ envelope.plaintext # <<>> \/ payload_object_can_fit(Options, r.len)
             /\ frames' = Append(frames,
                                 payload_frame_metadata(Len(frames), envelope, r.job, r.len))
             /\ payload_frame_metadata(Len(frames), envelope, r.job, r.len)
                  \in PayloadFrameRecords
             /\ envelope' = extend_envelope(envelope, r.job.frame, r.len)
             /\ next_frame'.result = next_frame.result + 1
             /\ next_frame'.job = next_frame.job
             /\ pc = "append" /\ pc' = pc
             /\ UNCHANGED <<tar_members, payload_objects, emitted>>
  <1>1. PICK r \in next_results :
             /\ ~needs_flush(r.len)
             /\ envelope.plaintext # <<>> \/ payload_object_can_fit(Options, r.len)
             /\ frames' = Append(frames,
                                 payload_frame_metadata(Len(frames), envelope, r.job, r.len))
             /\ envelope' = extend_envelope(envelope, r.job.frame, r.len)
             /\ next_frame' = [next_frame EXCEPT !.result = @ + 1]
    BY DEF AppendFrame
  <1>2. r \in frame_buffer /\ r.job.frame = next_frame.result
    BY DEF next_results
  <1>3. r \in FrameResults
    BY <1>2 DEF TypeOK
  <1>4. r.job \in FrameJobs /\ r.len \in Nat
    BY <1>3 DEF FrameResults
  <1>5. r.job \in FramesOut
    BY <1>2 DEF FramesOut
  <1>6. payload_frame_metadata(Len(frames), envelope, r.job, r.len) \in PayloadFrameRecords
    <2>1. /\ Len(frames) \in Nat /\ envelope.index \in Nat /\ envelope.len \in Nat
      BY LenProperties DEF TypeOK
    <2>2. /\ r.job.member \in Nat /\ r.job.size \in Nat /\ r.job.start \in Nat
          /\ r.job.offset \in Nat /\ r.job.group \in Nat
      BY <1>4 DEF FrameJobs
    <2>3. r.job.start + r.job.offset \in Nat
      BY <2>2
    <2> QED  BY <1>4, <2>1, <2>2, <2>3 DEF payload_frame_metadata, PayloadFrameRecords
  <1>7. next_frame'.result = next_frame.result + 1 /\ next_frame'.job = next_frame.job
    BY <1>1 DEF TypeOK
  <1>8. pc = "append" /\ pc' = pc /\ UNCHANGED <<tar_members, payload_objects, emitted>>
    BY SMTT(40) DEF AppendFrame
  <1> QED  BY <1>1, <1>2, <1>3, <1>4, <1>5, <1>6, <1>7, <1>8

\* The index of frames only grows, by the frame that is packed.
LEMMA FramesGrow ==
    ASSUME TypeOK, [Next]_vars
    PROVE  AppendFrame \/ UNCHANGED frames
  BY DEF BeginMember, EndMembers, ReadChunk, ReadFails, MemberDone,
              SendFrameJob, FrameJobsFull, ReceiveFrame, ReceiveFrameFails,
              DrainedFrames, FrameTooLarge, AppendDone,
              SealForAppend, SendEnvelopeJob, EnvelopeJobsFull,
              ReceiveEnvelope, ReceiveEnvelopeFails, DrainedEnvelopes,
              EmitEnvelope, SinkFails, EmitDone, AwaitFrames, FinalSeal,
              NothingToSeal, AwaitEnvelopes, EnvelopesDone, Join, ScopeEnds,
              Finished, TakeFrameJob, CompressFrame, CompressFails,
              FrameWorkerPanics, FrameWorkerStops, TakeEnvelopeJob,
              EncryptEnvelope, EncryptFails, EnvelopeWorkerPanics,
              EnvelopeWorkerStops, Next, MainStep, FrameWorkerStep,
              EnvelopeWorkerStep, Unwind, Fault, Seal

\* Places are never moved: the set of all places grows by that of the chunk just
\* read.
LEMMA SpansFlow ==
    ASSUME TypeOK, [Next]_vars, FramesRecorded, NEW x \in Spans'
    PROVE  x \in Spans \/ (ReadChunk /\ x = chunk_span(frame_job'))
  <1>0. frames \in Seq(PayloadFrameRecords) /\ Len(frames) \in Nat
    BY LenProperties DEF TypeOK
  <1>1. CASE \E j \in FramesOut' : x = chunk_span(j)
    BY <1>1, FramesFlow DEF Spans
  <1>2. CASE \E i \in 1 .. Len(frames') : x = frame_span(frames'[i])
    <2>1. PICK i \in 1 .. Len(frames') : x = frame_span(frames'[i])
      BY <1>2
    <2>2. CASE AppendFrame
      <3>1. PICK r \in next_results :
              /\ r.job \in FramesOut /\ r.job \in FrameJobs
              /\ r.job.frame = next_frame.result
              /\ frames' = Append(frames,
                                  payload_frame_metadata(Len(frames), envelope, r.job, r.len))
              /\ payload_frame_metadata(Len(frames), envelope, r.job, r.len)
                   \in PayloadFrameRecords
        BY <2>2, AppendFrameEffect
      <3> DEFINE f == payload_frame_metadata(Len(frames), envelope, r.job, r.len)
      <3>2. \/ i \in 1 .. Len(frames) /\ frames'[i] = frames[i]
            \/ frames'[i] = f
        BY <1>0, <2>1, <3>1, AppendMembers
      <3>3. frame_span(f) = chunk_span(r.job)
        BY <3>1 DEF FramesRecorded, frame_span, chunk_span, payload_frame_metadata
      <3> QED  BY <2>1, <3>1, <3>2, <3>3 DEF Spans
    <2>3. CASE UNCHANGED frames
      BY <2>1, <2>3 DEF Spans
    <2> QED  BY <2>2, <2>3, FramesGrow
  <1> QED  BY <1>1, <1>2 DEF Spans

\* A place is a place.
LEMMA SpanTypes ==
    TypeOK => \A x \in Spans : x.number \in Nat /\ x.first \in Nat /\ x.end \in Nat
  <1> SUFFICES ASSUME TypeOK, NEW x \in Spans
               PROVE  x.number \in Nat /\ x.first \in Nat /\ x.end \in Nat
    OBVIOUS
  <1>1. ASSUME NEW j \in FramesOut, x = chunk_span(j)
        PROVE  x.number \in Nat /\ x.first \in Nat /\ x.end \in Nat
    <2>1. j.frame \in Nat /\ j.start \in Nat /\ j.offset \in Nat /\ j.size \in Nat
      BY OutTypes DEF FrameJobs
    <2> QED  BY <1>1, <2>1 DEF chunk_span
  <1>2. ASSUME NEW i \in 1 .. Len(frames), x = frame_span(frames[i])
        PROVE  x.number \in Nat /\ x.first \in Nat /\ x.end \in Nat
    <2>1. frames[i] \in PayloadFrameRecords
      BY ElementOfSeq DEF TypeOK
    <2>2. frames[i].frame \in Nat /\ frames[i].tar_offset \in Nat /\ frames[i].size \in Nat
      BY <2>1 DEF PayloadFrameRecords
    <2> QED  BY <1>2, <2>2 DEF frame_span
  <1> QED  BY <1>1, <1>2 DEF Spans

\* Each chunk starts where the one before it ends.
LEMMA SpansStep ==
    ASSUME TypeOK, TypeOK', ReadingInPlace, FramesRecorded, SpansAbut, [Next]_vars
    PROVE  SpansAbut'
  <1>0. /\ next_frame.job \in Nat /\ next_frame'.job \in Nat
        /\ \A x \in Spans : x.number \in Nat /\ x.first \in Nat /\ x.end \in Nat
    BY SpanTypes DEF TypeOK
  <1>1. CASE ReadChunk
    <2> DEFINE new == chunk_span(frame_job')
    <2>1. /\ next_frame'.job = next_frame.job + 1 /\ frame_job'.frame = next_frame.job
          /\ ~gave_up' /\ ~gave_up
      BY <1>1, FrameHand DEF gave_up, running, ReadChunk
    <2>2. /\ cursor = frame_job'.start + frame_job'.offset
          /\ cursor' = cursor + frame_job'.size
      BY <1>1, <2>1, CursorStep
    <2>3. new.number = next_frame.job /\ new.first = cursor /\ new.end = cursor'
      BY <2>1, <2>2 DEF chunk_span
    <2>4. next_frame.job = 0 => cursor = 0
      <3>1. ~chunk_pending
        BY <1>1, ReadingEffects
      <3> QED  BY <3>1 DEF cursor, ReadingInPlace, TypeOK
    <2> HIDE DEF new
    <2>5. \A x \in Spans' : x \in Spans \/ x = new
      BY SpansFlow DEF new
    <2>6. /\ \A x \in Spans : x.number < next_frame.job
          /\ \A x \in Spans : x.number = 0 => x.first = 0
          /\ \A x, y \in Spans : y.number = x.number + 1 => y.first = x.end
          /\ \A x \in Spans : x.number = next_frame.job - 1 => x.end = cursor
      BY <2>1 DEF SpansAbut
    <2>7. \A x \in Spans' : x.number < next_frame'.job
      BY <1>0, <2>1, <2>3, <2>5, <2>6
    <2>8. \A x \in Spans' : x.number = 0 => x.first = 0
      BY <2>3, <2>4, <2>5, <2>6
    <2>9. \A x, y \in Spans' : y.number = x.number + 1 => y.first = x.end
      <3> TAKE x, y \in Spans'
      <3> HAVE y.number = x.number + 1
      <3>1. CASE x \in Spans /\ y \in Spans
        BY <2>6, <3>1
      <3>2. CASE x \in Spans /\ y = new
        BY <1>0, <2>3, <2>6, <3>2
      <3>3. CASE x = new
        <4>1. y.number = next_frame.job + 1
          BY <2>3, <3>3
        <4>2. y \in Spans \/ y = new
          BY <2>5
        <4>3. y.number < next_frame.job \/ y.number = next_frame.job
          BY <2>3, <2>6, <4>2
        <4> QED  BY <1>0, <4>1, <4>3
      <3> QED  BY <2>5, <3>1, <3>2, <3>3
    <2>10. \A x \in Spans' : x.number = next_frame'.job - 1 => x.end = cursor'
      BY <1>0, <2>1, <2>3, <2>5, <2>6
    <2> QED  BY <2>7, <2>8, <2>9, <2>10 DEF SpansAbut
  <1>2. CASE ~ReadChunk
    <2>1. \A x \in Spans' : x \in Spans
      BY <1>2, SpansFlow
    <2>2. next_frame'.job = next_frame.job
      BY <1>2, FrameHand
    <2>3. ~gave_up' => ~gave_up /\ cursor' = cursor
      BY <1>2, CursorStep, ReadingEffects
    <2> QED  BY <2>1, <2>2, <2>3 DEF SpansAbut
  <1> QED  BY <1>1, <1>2

\* A chunk inside its member, as the places in the tar stream it covers.
LEMMA StretchInside ==
    ASSUME NEW start \in Nat, NEW offset \in Nat, NEW size \in Nat, NEW group \in Nat,
           offset + size <= group
    PROVE  /\ start + offset = start <=> offset = 0
           /\ (start + offset) + size = start + group <=> offset + size = group
           /\ start + offset >= start
           /\ (start + offset) + size <= start + group
  OBVIOUS

\* A frame is recorded under its number, in its member.
LEMMA RecordedStep ==
    ASSUME TypeOK, TypeOK', ChunksCut, FramesRecorded, [Next]_vars
    PROVE  FramesRecorded'
  <1>0. frames \in Seq(PayloadFrameRecords) /\ Len(frames) \in Nat
    BY LenProperties DEF TypeOK
  <1>1. ASSUME NEW f \in PayloadFrameRecords, InMember(tar_members, f)
        PROVE  InMember(tar_members', f)
    <2>1. f.member \in Nat
      BY DEF PayloadFrameRecords
    <2>2. f.member < Len(tar_members)
      BY <1>1 DEF InMember
    <2>3. f.member + 1 \in 1 .. Len(tar_members)
      BY <2>1, <2>2, MembersStay
    <2>4. /\ tar_members'[f.member + 1] = tar_members[f.member + 1]
          /\ f.member < Len(tar_members')
      BY <2>1, <2>2, <2>3, MembersStay
    <2> QED  BY <1>1, <2>4 DEF InMember
  <1>2. CASE AppendFrame
    <2>1. PICK r \in next_results :
            /\ r.job \in FramesOut /\ r.job \in FrameJobs /\ r.len \in Nat
            /\ r.job.frame = next_frame.result
            /\ frames' = Append(frames,
                                payload_frame_metadata(Len(frames), envelope, r.job, r.len))
            /\ payload_frame_metadata(Len(frames), envelope, r.job, r.len)
                 \in PayloadFrameRecords
            /\ next_frame'.result = next_frame.result + 1
            /\ UNCHANGED tar_members
      BY <1>2, AppendFrameEffect
    <2> DEFINE f == payload_frame_metadata(Len(frames), envelope, r.job, r.len)
    <2>2. /\ f.frame = Len(frames) /\ f.member = r.job.member /\ f.size = r.job.size
          /\ f.tar_offset = r.job.start + r.job.offset
          /\ f.first <=> r.job.offset = 0
          /\ f.last <=> r.job.offset + r.job.size = r.job.group
      BY DEF payload_frame_metadata
    <2>3. InMember(tar_members, f)
      <3>1. CutFrom(tar_members, r.job)
        BY <2>1 DEF ChunksCut
      <3>2. /\ r.job.start \in Nat /\ r.job.offset \in Nat /\ r.job.size \in Nat
            /\ r.job.group \in Nat
        BY <2>1 DEF FrameJobs
      <3> DEFINE m == tar_members[f.member + 1]
      <3> HIDE DEF f
      <3>3. /\ m.start = r.job.start /\ m.group = r.job.group /\ f.member < Len(tar_members)
            /\ r.job.offset + r.job.size <= r.job.group
        BY <2>2, <3>1 DEF CutFrom
      <3> HIDE DEF m
      <3>4. /\ f.tar_offset = m.start <=> r.job.offset = 0
            /\ f.tar_offset + f.size = m.start + m.group
                 <=> r.job.offset + r.job.size = r.job.group
            /\ f.tar_offset >= m.start
            /\ f.tar_offset + f.size <= m.start + m.group
        <4>1. f.tar_offset = r.job.start + r.job.offset /\ f.size = r.job.size
          BY <2>2
        <4>2. /\ r.job.start + r.job.offset = r.job.start <=> r.job.offset = 0
              /\ (r.job.start + r.job.offset) + r.job.size = r.job.start + r.job.group
                   <=> r.job.offset + r.job.size = r.job.group
              /\ r.job.start + r.job.offset >= r.job.start
              /\ (r.job.start + r.job.offset) + r.job.size <= r.job.start + r.job.group
          BY <3>2, <3>3, StretchInside
        <4> QED  BY <3>3, <4>1, <4>2
      <3>5. /\ f.first <=> f.tar_offset = m.start
            /\ f.last <=> f.tar_offset + f.size = m.start + m.group
        BY <2>2, <3>4
      <3> QED  BY <3>3, <3>4, <3>5 DEF InMember, m
    <2> HIDE DEF f
    <2>4. f \in PayloadFrameRecords /\ frames' = Append(frames, f)
      BY <2>1 DEF f
    <2>5. Len(frames') = Len(frames) + 1
      BY <1>0, <2>4, AppendOf
    <2>6. ASSUME NEW i \in 1 .. Len(frames')
          PROVE  frames'[i].frame = i - 1 /\ InMember(tar_members', frames'[i])
      <3>1. \/ i \in 1 .. Len(frames) /\ frames'[i] = frames[i]
            \/ i = Len(frames) + 1 /\ frames'[i] = f
        BY <1>0, <2>4, AppendMembers
      <3> QED  BY <1>0, <2>1, <2>2, <2>3, <3>1 DEF FramesRecorded
    <2> QED  BY <2>1, <2>5, <2>6 DEF FramesRecorded
  <1>3. CASE UNCHANGED frames /\ ~AppendFrame
    <2>1. next_frame'.result = next_frame.result
      BY <1>3, FrameHand
    <2>2. \A i \in 1 .. Len(frames) : frames[i] \in PayloadFrameRecords
      BY <1>0, ElementOfSeq
    <2> QED  BY <1>1, <1>3, <2>1, <2>2 DEF FramesRecorded
  <1> QED  BY <1>2, <1>3, FramesGrow

-----------------------------------------------------------------------------
(***************************************************************************)
(* Packing                                                                 *)
(***************************************************************************)

\* Packing a frame appends it to the index and to the envelope being filled.
LEMMA Packed ==
    ASSUME TypeOK, FramesRecorded, AppendFrame
    PROVE  \E f \in PayloadFrameRecords, r \in next_results :
             /\ frames' = Append(frames, f) /\ Len(frames') = Len(frames) + 1
             /\ \A i \in 1 .. Len(frames) : frames'[i] = frames[i]
             /\ frames'[Len(frames) + 1] = f
             /\ f.frame = Len(frames) /\ f.envelope = envelope.index
             /\ f.offset = envelope.len /\ f.len = r.len /\ r.len \in Nat
             /\ ~needs_flush(r.len)
             /\ envelope'.index = envelope.index
             /\ envelope'.plaintext = Append(envelope.plaintext, Len(frames))
             /\ envelope'.len = envelope.len + f.len
             /\ UNCHANGED <<payload_objects, emitted>>
  <1>0. /\ frames \in Seq(PayloadFrameRecords) /\ Len(frames) \in Nat
        /\ envelope \in [index : Nat, plaintext : Seq(Nat), len : Nat]
    BY LenProperties DEF TypeOK
  <1>1. PICK r \in next_results :
          /\ r.job \in FrameJobs /\ r.len \in Nat
          /\ r.job.frame = next_frame.result
          /\ ~needs_flush(r.len)
          /\ frames' = Append(frames,
                              payload_frame_metadata(Len(frames), envelope, r.job, r.len))
          /\ payload_frame_metadata(Len(frames), envelope, r.job, r.len)
               \in PayloadFrameRecords
          /\ envelope' = extend_envelope(envelope, r.job.frame, r.len)
          /\ UNCHANGED <<payload_objects, emitted>>
    BY AppendFrameEffect
  <1> DEFINE f == payload_frame_metadata(Len(frames), envelope, r.job, r.len)
  <1>2. /\ f.frame = Len(frames) /\ f.envelope = envelope.index
        /\ f.offset = envelope.len /\ f.len = r.len
    BY DEF payload_frame_metadata
  <1>3. /\ envelope'.index = envelope.index
        /\ envelope'.plaintext = Append(envelope.plaintext, Len(frames))
        /\ envelope'.len = envelope.len + r.len
    BY <1>0, <1>1 DEF extend_envelope, FramesRecorded
  <1>4. f \in PayloadFrameRecords /\ frames' = Append(frames, f)
    BY <1>1
  <1> HIDE DEF f
  <1>5. /\ Len(frames') = Len(frames) + 1
        /\ \A i \in 1 .. Len(frames) : frames'[i] = frames[i]
        /\ frames'[Len(frames) + 1] = f
    BY <1>0, <1>4, AppendOf
  <1> QED  BY <1>1, <1>2, <1>3, <1>4, <1>5

\* Sealing the envelope being filled records its object and starts the next one.
LEMMA Sealed ==
    ASSUME TypeOK, WriteOrder, Seals
    PROVE  \E o \in PayloadObjects :
             /\ payload_objects' = Append(payload_objects, o)
             /\ Len(payload_objects') = Len(payload_objects) + 1
             /\ \A i \in 1 .. Len(payload_objects) : payload_objects'[i] = payload_objects[i]
             /\ payload_objects'[Len(payload_objects) + 1] = o
             /\ o.len = envelope.len
             /\ envelope.plaintext # <<>>
             /\ envelope'.index = envelope.index + 1
             /\ envelope'.plaintext = <<>> /\ envelope'.len = 0
             /\ envelope_job'.index = envelope.index
             /\ envelope_job'.plaintext = envelope.plaintext
             /\ pc' = "seal"
             /\ UNCHANGED <<frames, frame_buffer, next_frame, emitted>>
  <1> DEFINE o == payload_object(Options, next_block, envelope)
  <1>1. PICK return \in {"append", "finish_envelopes"} : Seal(return)
    BY DEF Seals, SealForAppend, FinalSeal
  <1>2. /\ envelope.plaintext # <<>> /\ payload_objects' = Append(payload_objects, o)
        /\ envelope' = EmptyEnvelope(envelope.index + 1)
        /\ envelope_job'.index = envelope.index
        /\ envelope_job'.plaintext = envelope.plaintext
        /\ pc' = "seal"
        /\ UNCHANGED <<frames, frame_buffer, next_frame, emitted>>
    BY <1>1 DEF Seal
  <1>3. envelope.len \in Nat /\ envelope.index \in Nat /\ next_block \in Nat
        /\ payload_objects \in Seq(PayloadObjects)
    BY DEF TypeOK
  <1>4. payload_object_can_fit(Options, envelope.len)
    BY <1>2 DEF WriteOrder, EnvelopeFits
  <1>5. object_extent(Options, next_block, envelope.len) \in Extents
    BY <1>3, <1>4, ExtentType
  <1>6. o \in PayloadObjects /\ o.len = envelope.len
    BY <1>3, <1>5 DEF payload_object, PayloadObjects
  <1>7. /\ envelope'.index = envelope.index + 1 /\ envelope'.plaintext = <<>>
        /\ envelope'.len = 0
    BY <1>2 DEF EmptyEnvelope
  <1> HIDE DEF o
  <1>8. /\ Len(payload_objects') = Len(payload_objects) + 1
        /\ \A i \in 1 .. Len(payload_objects) : payload_objects'[i] = payload_objects[i]
        /\ payload_objects'[Len(payload_objects) + 1] = o
    BY <1>2, <1>3, <1>6, AppendOf, SMTT(40)
  <1> QED  BY <1>2, <1>6, <1>7, <1>8

\* Nothing else touches the index or the envelope being filled.
LEMMA PackingEffects ==
    ASSUME TypeOK, [Next]_vars
    PROVE  \/ Seals \/ AppendFrame
           \/ UNCHANGED <<frames, envelope, payload_objects>>
  BY DEF BeginMember, EndMembers, ReadChunk, ReadFails, MemberDone,
              SendFrameJob, FrameJobsFull, ReceiveFrame, ReceiveFrameFails,
              DrainedFrames, FrameTooLarge, AppendDone,
              SendEnvelopeJob, EnvelopeJobsFull,
              ReceiveEnvelope, ReceiveEnvelopeFails, DrainedEnvelopes,
              EmitEnvelope, SinkFails, EmitDone, AwaitFrames,
              NothingToSeal, AwaitEnvelopes, EnvelopesDone, Join, ScopeEnds,
              Finished, TakeFrameJob, CompressFrame, CompressFails,
              FrameWorkerPanics, FrameWorkerStops, TakeEnvelopeJob,
              EncryptEnvelope, EncryptFails, EnvelopeWorkerPanics,
              EnvelopeWorkerStops, Next, MainStep, FrameWorkerStep,
              EnvelopeWorkerStep, Unwind, Fault, Seals

\* What the proofs below need to know of the types.
LEMMA PackingTypes ==
    ASSUME TypeOK, WriteOrder
    PROVE  /\ frames \in Seq(PayloadFrameRecords) /\ Len(frames) \in Nat
           /\ DOMAIN frames = 1 .. Len(frames)
           /\ frames = <<>> <=> Len(frames) = 0
           /\ \A i \in 1 .. Len(frames) : /\ frames[i].envelope \in Nat
                                          /\ frames[i].frame \in Nat
                                          /\ frames[i].offset \in Nat
                                          /\ frames[i].len \in Nat
           /\ payload_objects \in Seq(PayloadObjects) /\ Len(payload_objects) \in Nat
           /\ DOMAIN payload_objects = 1 .. Len(payload_objects)
           /\ envelope.index = Len(payload_objects)
           /\ envelope.index \in Nat /\ envelope.len \in Nat
           /\ envelope.plaintext \in Seq(Nat)
           /\ envelope.plaintext = <<>> => envelope.len = 0
  <1>1. /\ frames \in Seq(PayloadFrameRecords) /\ payload_objects \in Seq(PayloadObjects)
        /\ envelope.index \in Nat /\ envelope.len \in Nat /\ envelope.plaintext \in Seq(Nat)
    BY DEF TypeOK
  <1>2. \A i \in 1 .. Len(frames) : frames[i] \in PayloadFrameRecords
    BY <1>1, ElementOfSeq
  <1>3. \A i \in 1 .. Len(frames) : /\ frames[i].envelope \in Nat /\ frames[i].frame \in Nat
                                    /\ frames[i].offset \in Nat /\ frames[i].len \in Nat
    BY <1>2 DEF PayloadFrameRecords
  <1>4. /\ envelope.index = Len(payload_objects)
        /\ envelope.plaintext = <<>> => envelope.len = 0
    BY DEF WriteOrder, LaidOutInOrder
  <1> QED  BY <1>1, <1>3, <1>4, LenProperties, EmptySeq

\* The envelope being filled follows the last recorded frame.
LEMMA FillingStep ==
    ASSUME TypeOK, TypeOK', WriteOrder, WriteOrder', FramesRecorded, Filling, [Next]_vars
    PROVE  Filling'
  <1>0. /\ Len(frames) \in Nat /\ envelope.index \in Nat /\ envelope.len \in Nat
        /\ envelope.plaintext \in Seq(Nat)
        /\ frames' = <<>> <=> Len(frames') = 0
        /\ \A i \in 1 .. Len(frames) : frames[i].envelope \in Nat
    <2>1. (frames = <<>> <=> Len(frames) = 0)'
      <3>1. (frames \in Seq(PayloadFrameRecords))'
        BY DEF TypeOK
      <3> QED  BY <3>1, EmptySeq
    <2> QED  BY <2>1, PackingTypes
  <1>1. CASE AppendFrame
    <2>1. PICK f \in PayloadFrameRecords, r \in next_results :
             /\ Len(frames') = Len(frames) + 1
             /\ \A i \in 1 .. Len(frames) : frames'[i] = frames[i]
             /\ frames'[Len(frames) + 1] = f
             /\ f.envelope = envelope.index
             /\ f.offset = envelope.len
             /\ envelope'.index = envelope.index
             /\ envelope'.plaintext = Append(envelope.plaintext, Len(frames))
             /\ envelope'.len = envelope.len + f.len
      BY <1>1, Packed
    <2>2. /\ envelope'.plaintext # <<>>
          /\ envelope'.plaintext[Len(envelope'.plaintext)] = Len(frames)
      BY <1>0, <2>1, AppendOf
    <2>3. \A i \in 1 .. Len(frames') : frames'[i].envelope <= envelope'.index
      <3> TAKE i \in 1 .. Len(frames')
      <3>1. CASE i \in 1 .. Len(frames)
        BY <1>0, <2>1, <3>1 DEF Filling
      <3>2. CASE i = Len(frames) + 1
        BY <1>0, <2>1, <3>2
      <3> QED  BY <1>0, <2>1, <3>1, <3>2
    <2> QED  BY <1>0, <2>1, <2>2, <2>3 DEF Filling
  <1>2. CASE Seals
    <2>1. /\ envelope.plaintext # <<>> /\ envelope'.index = envelope.index + 1
          /\ envelope'.plaintext = <<>> /\ UNCHANGED frames
      BY <1>2, Sealed
    <2> QED  BY <1>0, <2>1, SMTT(40) DEF Filling
  <1>3. CASE UNCHANGED <<frames, envelope, payload_objects>>
    BY <1>3 DEF Filling
  <1> QED  BY <1>1, <1>2, <1>3, PackingEffects

\* The frames of each sealed envelope tile it.
LEMMA TilesStep ==
    ASSUME TypeOK, TypeOK', WriteOrder, FramesRecorded, Filling, [Next]_vars,
           TilesEnvelopes(frames, payload_objects)
    PROVE  TilesEnvelopes(frames', payload_objects')
  <1>0. /\ frames \in Seq(PayloadFrameRecords) /\ Len(frames) \in Nat
        /\ DOMAIN frames = 1 .. Len(frames)
        /\ frames = <<>> <=> Len(frames) = 0
        /\ \A i \in 1 .. Len(frames) : /\ frames[i].envelope \in Nat
                                       /\ frames[i].offset \in Nat
                                       /\ frames[i].len \in Nat
        /\ Len(payload_objects) \in Nat
        /\ DOMAIN payload_objects = 1 .. Len(payload_objects)
        /\ envelope.index = Len(payload_objects)
        /\ envelope.len \in Nat
        /\ envelope.plaintext = <<>> => envelope.len = 0
    BY PackingTypes
  <1>1. /\ DOMAIN frames' = 1 .. Len(frames') /\ Len(frames') \in Nat
        /\ DOMAIN payload_objects' = 1 .. Len(payload_objects') /\ Len(payload_objects') \in Nat
    BY LenProperties DEF TypeOK
  <1>2. CASE AppendFrame
    <2>1. PICK f \in PayloadFrameRecords, r \in next_results :
             /\ Len(frames') = Len(frames) + 1
             /\ \A i \in 1 .. Len(frames) : frames'[i] = frames[i]
             /\ frames'[Len(frames) + 1] = f
             /\ f.envelope = envelope.index /\ f.offset = envelope.len
             /\ UNCHANGED payload_objects
      BY <1>2, Packed
    <2>2. \A k \in DOMAIN payload_objects : frames_in(frames', k - 1) # {}
      <3> TAKE k \in DOMAIN payload_objects
      <3>1. PICK i \in DOMAIN frames : frames[i].envelope = k - 1
        BY DEF TilesEnvelopes, frames_in
      <3>2. i \in DOMAIN frames' /\ frames'[i].envelope = k - 1
        BY <1>0, <1>1, <2>1, <3>1
      <3> QED  BY <3>2 DEF frames_in
    <2>3. ASSUME NEW i \in 1 .. Len(frames)
          PROVE  /\ starts_envelope(frames', i) <=> starts_envelope(frames, i)
                 /\ ends_envelope(frames', i) => ends_envelope(frames, i)
                 /\ frames'[i] = frames[i]
                 /\ i # 1 => frames'[i - 1] = frames[i - 1]
      <3>0. Len(frames) \in Nat
        BY <1>0
      <3>1. i # 1 => i - 1 \in 1 .. Len(frames)
        BY <3>0
      <3>2. i # Len(frames) => i + 1 \in 1 .. Len(frames)
        BY <3>0
      <3>3. i # Len(frames')
        BY <1>0, <2>1
      <3> QED  BY <2>1, <3>1, <3>2, <3>3 DEF starts_envelope, ends_envelope
    <2>4. ASSUME NEW i \in 1 .. Len(frames)
          PROVE  LET g == frames'[i]
                 IN  /\ IF starts_envelope(frames', i)
                        THEN g.offset = 0 /\ g.envelope = IF i = 1 THEN 0
                                                         ELSE frames'[i - 1].envelope + 1
                        ELSE g.offset = frames'[i - 1].offset + frames'[i - 1].len
                     /\ g.envelope < Len(payload_objects') /\ ends_envelope(frames', i)
                          => payload_objects'[g.envelope + 1].len = g.offset + g.len
      <3>1. i \in DOMAIN frames
        BY <1>0
      <3>2. i = 1 => starts_envelope(frames, i)
        BY DEF starts_envelope
      <3> QED  BY <2>1, <2>3, <3>1, <3>2 DEF TilesEnvelopes
    <2>5. LET i == Len(frames) + 1
              g == frames'[i]
          IN  /\ IF starts_envelope(frames', i)
                 THEN g.offset = 0 /\ g.envelope = IF i = 1 THEN 0
                                                  ELSE frames'[i - 1].envelope + 1
                 ELSE g.offset = frames'[i - 1].offset + frames'[i - 1].len
              /\ ~(g.envelope < Len(payload_objects'))
      <3>1. ~(f.envelope < Len(payload_objects'))
        BY <1>0, <2>1
      <3>2. CASE Len(frames) = 0
        BY <1>0, <2>1, <3>1, <3>2 DEF Filling, starts_envelope
      <3>3. CASE Len(frames) # 0
        <4> DEFINE g == frames[Len(frames)]
        <4>1. /\ Len(frames) + 1 # 1 /\ (Len(frames) + 1) - 1 = Len(frames)
              /\ frames'[Len(frames)] = g /\ Len(frames) \in 1 .. Len(frames)
          BY <1>0, <2>1, <3>3
        <4>2. g.envelope \in Nat /\ g.offset \in Nat /\ g.len \in Nat
          BY <1>0, <4>1
        <4>3. CASE g.envelope # envelope.index
          <5>1. envelope.plaintext = <<>> /\ g.envelope = envelope.index - 1
            BY <1>0, <3>3, <4>3 DEF Filling
          <5>2. f.offset = 0 /\ f.envelope = g.envelope + 1
            BY <1>0, <2>1, <4>2, <5>1
          <5>3. starts_envelope(frames', Len(frames) + 1)
            BY <2>1, <4>1, <4>3 DEF starts_envelope
          <5> QED  BY <2>1, <3>1, <4>1, <5>2, <5>3
        <4>4. CASE g.envelope = envelope.index
          <5>1. envelope.plaintext # <<>>
            <6>1. envelope.plaintext = <<>> => g.envelope = envelope.index - 1
              BY <1>0, <3>3 DEF Filling
            <6>2. envelope.index \in Nat
              BY PackingTypes
            <6>3. envelope.index # envelope.index - 1
              BY <6>2
            <6> QED  BY <4>4, <6>1, <6>3
          <5>2. f.offset = g.offset + g.len
            BY <2>1, <5>1 DEF Filling
          <5>3. ~starts_envelope(frames', Len(frames) + 1)
            BY <1>0, <2>1, <4>1, <4>4 DEF starts_envelope
          <5> QED  BY <2>1, <3>1, <4>1, <5>2, <5>3
        <4> QED  BY <4>3, <4>4
      <3> QED  BY <3>2, <3>3
    <2>6. \A i \in DOMAIN frames' : i \in 1 .. Len(frames) \/ i = Len(frames) + 1
      BY <1>0, <1>1, <2>1
    <2> QED  BY <2>1, <2>2, <2>4, <2>5, <2>6 DEF TilesEnvelopes
  <1>3. CASE Seals
    <2>1. PICK o \in PayloadObjects :
             /\ Len(payload_objects') = Len(payload_objects) + 1
             /\ \A i \in 1 .. Len(payload_objects) : payload_objects'[i] = payload_objects[i]
             /\ payload_objects'[Len(payload_objects) + 1] = o
             /\ o.len = envelope.len
             /\ envelope.plaintext # <<>>
             /\ UNCHANGED frames
      BY <1>3, Sealed
    <2>2. /\ frames # <<>> /\ Len(frames) \in 1 .. Len(frames)
          /\ frames[Len(frames)].envelope = envelope.index
          /\ frames[Len(frames)].offset + frames[Len(frames)].len = envelope.len
      BY <1>0, <2>1 DEF Filling
    <2>3. \A k \in DOMAIN payload_objects' : frames_in(frames, k - 1) # {}
      <3> TAKE k \in DOMAIN payload_objects'
      <3>1. CASE k \in DOMAIN payload_objects
        BY <3>1 DEF TilesEnvelopes
      <3>2. CASE k = Len(payload_objects) + 1
        <4>1. Len(frames) \in frames_in(frames, k - 1)
          BY <1>0, <2>2, <3>2 DEF frames_in
        <4> QED  BY <4>1
      <3> QED  BY <1>0, <1>1, <2>1, <3>1, <3>2
    <2>4. ASSUME NEW i \in DOMAIN frames,
                 frames[i].envelope < Len(payload_objects'), ends_envelope(frames, i)
          PROVE  payload_objects'[frames[i].envelope + 1].len = frames[i].offset + frames[i].len
      <3>0. i \in 1 .. Len(frames) /\ frames[i].envelope \in Nat
        BY <1>0
      <3>1. CASE frames[i].envelope < Len(payload_objects)
        <4>1. frames[i].envelope + 1 \in 1 .. Len(payload_objects)
          BY <1>0, <3>0, <3>1
        <4> QED  BY <2>1, <2>4, <3>1, <4>1 DEF TilesEnvelopes
      <3>2. CASE frames[i].envelope = Len(payload_objects)
        <4>1. i = Len(frames)
          <5> SUFFICES ASSUME i # Len(frames)
                       PROVE  FALSE
            OBVIOUS
          <5>1. i + 1 \in 1 .. Len(frames) /\ (i + 1) - 1 = i /\ i + 1 # 1
            BY <1>0, <3>0
          <5>2. frames[i + 1].envelope # frames[i].envelope
            BY <2>4, <3>0 DEF ends_envelope
          <5>3. starts_envelope(frames, i + 1)
            BY <5>1, <5>2 DEF starts_envelope
          <5>4. frames[i + 1].envelope = frames[i].envelope + 1
            <6> DEFINE j == i + 1
            <6>1. j \in DOMAIN frames /\ j # 1 /\ j - 1 = i /\ starts_envelope(frames, j)
              BY <1>0, <5>1, <5>3
            <6> HIDE DEF j
            <6>2. frames[j].envelope = frames[j - 1].envelope + 1
              BY <6>1 DEF TilesEnvelopes
            <6> QED  BY <6>1, <6>2 DEF j
          <5>5. frames[i + 1].envelope <= envelope.index
            BY <5>1 DEF Filling
          <5> QED  BY <1>0, <3>0, <3>2, <5>1, <5>4, <5>5
        <4> QED  BY <2>1, <2>2, <3>2, <4>1
      <3> QED  BY <1>0, <2>1, <2>4, <3>0, <3>1, <3>2
    <2> QED  BY <2>1, <2>3, <2>4 DEF TilesEnvelopes
  <1>4. CASE UNCHANGED <<frames, envelope, payload_objects>>
    BY <1>4
  <1> QED  BY <1>2, <1>3, <1>4, PackingEffects

\* The first frame of an envelope would not have fitted the one before.
LEMMA GreedyStep ==
    ASSUME TypeOK, TypeOK', WriteOrder, FramesRecorded, Filling, SealedForNext, [Next]_vars,
           TilesEnvelopes(frames, payload_objects),
           PackedGreedily(Options, frames, payload_objects)
    PROVE  PackedGreedily(Options, frames', payload_objects')
  <1>0. /\ Len(frames) \in Nat /\ DOMAIN frames = 1 .. Len(frames)
        /\ frames = <<>> <=> Len(frames) = 0
        /\ Len(payload_objects) \in Nat
        /\ envelope.index = Len(payload_objects) /\ envelope.index \in Nat
    BY PackingTypes
  <1>1. \A i \in 1 .. Len(frames) : frames[i].envelope \in Nat
    BY PackingTypes
  <1>2. DOMAIN frames' = 1 .. Len(frames') /\ Len(frames') \in Nat
    BY LenProperties DEF TypeOK
  <1>3. CASE AppendFrame
    <2>1. PICK f \in PayloadFrameRecords, r \in next_results :
             /\ Len(frames') = Len(frames) + 1
             /\ \A i \in 1 .. Len(frames) : frames'[i] = frames[i]
             /\ frames'[Len(frames) + 1] = f
             /\ f.envelope = envelope.index /\ f.len = r.len
             /\ UNCHANGED payload_objects
      BY <1>3, Packed
    <2> SUFFICES ASSUME NEW i \in DOMAIN frames', starts_envelope(frames', i), i > 1
                 PROVE  Overfull(payload_objects[frames'[i - 1].envelope + 1].len
                                   + frames'[i].len)
      BY <2>1 DEF PackedGreedily, Overfull
    <2>2. CASE i \in 1 .. Len(frames)
      <3>1. i - 1 \in 1 .. Len(frames) /\ i \in DOMAIN frames
        BY <1>0, <2>2
      <3>2. frames'[i] = frames[i] /\ frames'[i - 1] = frames[i - 1]
        BY <2>1, <2>2, <3>1
      <3>3. starts_envelope(frames, i)
        BY <3>2 DEF starts_envelope
      <3> QED  BY <3>1, <3>2, <3>3 DEF PackedGreedily, Overfull
    <2>3. CASE i = Len(frames) + 1
      <3> DEFINE g == frames[Len(frames)]
      <3>1. /\ Len(frames) # 0 /\ i - 1 = Len(frames) /\ Len(frames) \in 1 .. Len(frames)
            /\ i # 1
        BY <1>0, <2>3
      <3>2. frames'[i] = f /\ frames'[i - 1] = g /\ g.envelope \in Nat
        BY <1>1, <2>1, <2>3, <3>1
      <3>3. g.envelope # envelope.index
        BY <2>1, <3>1, <3>2 DEF starts_envelope
      <3>4. envelope.plaintext = <<>> /\ g.envelope = envelope.index - 1
        BY <1>0, <3>1, <3>3 DEF Filling
      <3>5. envelope.index > 0 /\ g.envelope + 1 = envelope.index
        BY <1>0, <3>2, <3>4
      <3>6. running /\ ~finishing
        BY <1>3 DEF AppendFrame, running, finishing, awaiting, flushing
      <3>7. Overfull(payload_objects[envelope.index].len + r.len)
        BY <3>4, <3>5, <3>6 DEF SealedForNext
      <3> QED  BY <2>1, <3>2, <3>5, <3>7
    <2> QED  BY <1>0, <1>2, <2>1, <2>2, <2>3
  <1>4. CASE Seals
    <2>1. PICK o \in PayloadObjects :
             /\ \A i \in 1 .. Len(payload_objects) : payload_objects'[i] = payload_objects[i]
             /\ UNCHANGED frames
      BY <1>4, Sealed
    <2> SUFFICES ASSUME NEW i \in DOMAIN frames, starts_envelope(frames, i), i > 1
                 PROVE  Overfull(payload_objects'[frames[i - 1].envelope + 1].len
                                   + frames[i].len)
      BY <2>1 DEF PackedGreedily, Overfull
    <2>2. i \in 1 .. Len(frames) /\ i - 1 \in 1 .. Len(frames) /\ i # 1
      BY <1>0
    <2>3. frames[i].envelope = frames[i - 1].envelope + 1
      BY <2>2 DEF TilesEnvelopes
    <2>4. frames[i].envelope <= envelope.index
      BY <2>2 DEF Filling
    <2>5. frames[i - 1].envelope + 1 \in 1 .. Len(payload_objects)
      BY <1>0, <1>1, <2>2, <2>3, <2>4
    <2> QED  BY <2>1, <2>5 DEF PackedGreedily, Overfull
  <1>5. CASE UNCHANGED <<frames, envelope, payload_objects>>
    BY <1>5
  <1> QED  BY <1>3, <1>4, <1>5, PackingEffects

\* Where the main thread is while it packs: it stays in append_ordered_frame_result
\* as long as the next frame is there, and never comes back from finishing.
LEMMA AppendingEffects ==
    ASSUME TypeOK, KnowsFrames, [Next]_vars
    PROVE  /\ running' => running
           /\ finishing /\ running' => finishing'
           /\ appending /\ running' =>
                \/ AppendFrame \/ Seals \/ AppendDone
                \/ appending' /\ UNCHANGED <<frame_buffer, next_frame>>
           /\ AppendDone => next_results = {} /\ UNCHANGED <<frame_buffer, next_frame>>
           /\ SealForAppend => pc = "append" /\ appending'
           /\ FinalSeal => finishing'
           /\ gave_up => gave_up'
           /\ pc = "ok" => pc' = "ok"
           /\ Join /\ pc' # "ok" => gave_up'
           /\ ~running' => gave_up' \/ pc' = "ok"
           /\ pc' = "ok" => pc = "ok" \/ pc = "join"
           /\ pc = "ok" => ~gave_up
           /\ ReceiveFrame => running /\ ~appending /\ ~finishing
  <1>0. /\ frame_return \in {"drain", "send", "finish_frames"}
        /\ flush_return \in {"append", "finish_envelopes"}
        /\ emit_return \in {"drain", "seal", "finish_envelopes"}
    BY DEF TypeOK
  <1> USE DEF running, finishing, awaiting, flushing, appending, gave_up
  <1>1. CASE MainStep
    BY <1>0, <1>1 DEF BeginMember, EndMembers, ReadChunk, ReadFails, MemberDone,
              SendFrameJob, FrameJobsFull, ReceiveFrame, ReceiveFrameFails,
              DrainedFrames, AppendFrame, FrameTooLarge, AppendDone, SealForAppend, FinalSeal,
              Seal, Seals, SendEnvelopeJob, EnvelopeJobsFull,
              ReceiveEnvelope, ReceiveEnvelopeFails, DrainedEnvelopes,
              EmitEnvelope, SinkFails, EmitDone, AwaitFrames,
              NothingToSeal, AwaitEnvelopes, EnvelopesDone, Join, ScopeEnds,
              MainStep, Unwind
  <1>2. CASE UNCHANGED <<pc, returns, packing>>
    BY <1>2 DEF AppendDone, SealForAppend, FinalSeal, Seal, Join, AppendFrame, ReceiveFrame
  <1> QED  BY <1>1, <1>2, FrameEffects, ZenonT(60) DEF FrameWorkerStep, EnvelopeWorkerStep,
              TakeFrameJob, CompressFrame, CompressFails,
              FrameWorkerPanics, FrameWorkerStops, TakeEnvelopeJob,
              EncryptEnvelope, EncryptFails, EnvelopeWorkerPanics,
              EnvelopeWorkerStops

\* An envelope is sealed for the frame that comes next, or at the end.
LEMMA SealedForNextStep ==
    ASSUME TypeOK, TypeOK', WriteOrder, KnowsFrames, FramesOnce, FramesRecorded,
           SealedForNext, [Next]_vars
    PROVE  SealedForNext'
  <1>0. envelope.index \in Nat /\ envelope.index = Len(payload_objects)
        /\ envelope.plaintext \in Seq(Nat) /\ Len(frames) \in Nat
    BY PackingTypes
  <1>1. CASE AppendFrame
    <2>1. envelope'.plaintext = Append(envelope.plaintext, Len(frames))
      BY <1>1, Packed
    <2>2. envelope'.plaintext # <<>>
      BY <1>0, <2>1, AppendOf
    <2> QED  BY <2>2 DEF SealedForNext
  <1>2. CASE FinalSeal
    <2>1. finishing'
      BY <1>2, AppendingEffects
    <2> QED  BY <2>1 DEF SealedForNext
  <1>3. CASE SealForAppend
    <2>1. PICK o \in PayloadObjects :
             /\ payload_objects'[Len(payload_objects) + 1] = o /\ o.len = envelope.len
             /\ envelope'.index = envelope.index + 1
             /\ UNCHANGED <<frame_buffer, next_frame>>
      BY <1>3, Sealed DEF Seals
    <2>2. appending' /\ pc = "append"
      BY <1>3, AppendingEffects
    <2>3. PICK r \in next_results : needs_flush(r.len)
      BY <1>3 DEF SealForAppend
    <2>4. next_results' = next_results
      BY <2>1 DEF next_results
    <2>5. Overfull(envelope.len + r.len)
      BY <2>3 DEF Overfull, needs_flush, payload_envelope_needs_flush
    <2>6. \A s \in next_results : s = r
      BY <2>3 DEF FramesOnce, next_results
    <2>7. payload_objects'[envelope'.index].len = envelope.len
      BY <1>0, <2>1
    <2> QED  BY <2>2, <2>3, <2>4, <2>5, <2>6, <2>7 DEF SealedForNext, Overfull
  <1>4. CASE UNCHANGED <<envelope, payload_objects>> /\ ~AppendFrame /\ ~Seals
    <2>1. CASE ~running'
      BY <2>1, AppendingEffects DEF SealedForNext
    <2>2. CASE running' /\ (finishing \/ envelope.plaintext # <<>> \/ envelope.index = 0)
      <3>1. finishing => finishing'
        BY <2>2, AppendingEffects
      <3> QED  BY <1>0, <1>4, <2>2, <3>1 DEF SealedForNext
    <2>3. CASE running' /\ ~finishing /\ envelope.plaintext = <<>> /\ envelope.index # 0
      <3>1. running /\ ~gave_up /\ pc # "ok"
        BY <2>3, AppendingEffects DEF running, gave_up
      <3>2. appending /\ next_results # {}
        BY <2>3, <3>1 DEF SealedForNext
      <3>3. appending' /\ UNCHANGED <<frame_buffer, next_frame>>
        BY <1>4, <2>3, <3>2, AppendingEffects
      <3>4. next_results' = next_results
        BY <3>3 DEF next_results
      <3>5. \A r \in next_results : Overfull(payload_objects[envelope.index].len + r.len)
        BY <1>0, <2>3, <3>1 DEF SealedForNext
      <3>6. \A r \in next_results' : Overfull(payload_objects'[envelope'.index].len + r.len)
        BY <1>4, <3>4, <3>5
      <3> QED  BY <3>2, <3>3, <3>4, <3>6 DEF SealedForNext, Overfull
    <2> QED  BY <2>1, <2>2, <2>3
  <1> QED  BY <1>1, <1>2, <1>3, <1>4, PackingEffects DEF Seals

\* An envelope on its way carries the extent the index gives it.
LEMMA OutIndexed ==
    ASSUME TypeOK, WriteOrder, NEW e \in EnvelopesOut
    PROVE  AsIndexed(payload_objects, e) /\ e \in EnvelopeJobs /\ e.index < envelope.index
  <1>1. AsIndexed(payload_objects, e)
    BY DEF EnvelopesOut, WriteOrder, InFlightAsIndexed
  <1> QED  BY <1>1, OutTypes, PackingTypes DEF AsIndexed

\* The frames of a sealed envelope stay as they are.
LEMMA PlaintextStays ==
    ASSUME TypeOK, TypeOK', WriteOrder, FramesRecorded, [Next]_vars,
           NEW p, NEW k \in Nat, k # envelope.index, Plaintext(p, k)
    PROVE  Plaintext(p, k)'
  <1>0. Len(frames) \in Nat /\ DOMAIN frames = 1 .. Len(frames)
    BY PackingTypes
  <1>1. CASE AppendFrame
    <2>1. PICK f \in PayloadFrameRecords, r \in next_results :
             /\ Len(frames') = Len(frames) + 1
             /\ \A i \in 1 .. Len(frames) : frames'[i] = frames[i]
             /\ frames'[Len(frames) + 1] = f
             /\ f.envelope = envelope.index
      BY <1>1, Packed
    <2>2. DOMAIN frames' = 1 .. Len(frames')
      BY LenProperties DEF TypeOK
    <2>3. \A i \in DOMAIN frames' : \/ i \in DOMAIN frames /\ frames'[i] = frames[i]
                                    \/ i = Len(frames) + 1
      BY <1>0, <2>1, <2>2
    <2>4. \A i \in DOMAIN frames : i \in DOMAIN frames' /\ frames'[i] = frames[i]
      BY <1>0, <2>1, <2>2
    <2>5. {frames'[i].frame : i \in frames_in(frames', k)}
            = {frames[i].frame : i \in frames_in(frames, k)}
      <3>1. \A i \in frames_in(frames', k) : i \in frames_in(frames, k) /\ frames'[i] = frames[i]
        BY <2>1, <2>3 DEF frames_in
      <3>2. \A i \in frames_in(frames, k) : i \in frames_in(frames', k) /\ frames'[i] = frames[i]
        BY <2>4 DEF frames_in
      <3> QED  BY <3>1, <3>2
    <2> QED  BY <2>5 DEF Plaintext
  <1>2. CASE UNCHANGED frames
    BY <1>2 DEF Plaintext
  <1> QED  BY <1>1, <1>2, FramesGrow

\* The envelope being filled holds the frames recorded for it, and what is on its
\* way those that were recorded.
LEMMA PlaintextsStep ==
    ASSUME TypeOK, TypeOK', WriteOrder, FramesRecorded, Filling, Plaintexts, [Next]_vars
    PROVE  Plaintexts'
  <1>0. /\ Len(frames) \in Nat /\ DOMAIN frames = 1 .. Len(frames)
        /\ envelope.index \in Nat /\ envelope.plaintext \in Seq(Nat)
        /\ \A i \in 1 .. Len(frames) : frames[i].envelope \in Nat
    BY PackingTypes
  <1>1. ASSUME NEW e \in EnvelopesOut
        PROVE  Plaintext(e.plaintext, e.index)'
    <2>1. e.index < envelope.index /\ e.index \in Nat
      BY OutIndexed DEF EnvelopeJobs
    <2>2. e.index # envelope.index
      BY <1>0, <2>1
    <2>3. Plaintext(e.plaintext, e.index)
      BY DEF Plaintexts
    <2> QED  BY <2>1, <2>2, <2>3, PlaintextStays
  <1>2. ASSUME NEW e \in EnvelopesOut'
        PROVE  Plaintext(e.plaintext, e.index)'
    <2>1. CASE Seals /\ e = envelope_job'
      <3>1. /\ envelope_job'.plaintext = envelope.plaintext
            /\ envelope_job'.index = envelope.index /\ UNCHANGED frames
        BY <2>1, Sealed
      <3>2. Plaintext(e.plaintext, e.index)
        BY <2>1, <3>1 DEF Plaintexts
      <3> QED  BY <3>1, <3>2 DEF Plaintext
    <2> QED  BY <1>1, <2>1, EnvelopesFlow
  <1>3. Plaintext(envelope.plaintext, envelope.index)'
    <2>1. CASE AppendFrame
      <3>1. PICK f \in PayloadFrameRecords, r \in next_results :
               /\ Len(frames') = Len(frames) + 1
               /\ \A i \in 1 .. Len(frames) : frames'[i] = frames[i]
               /\ frames'[Len(frames) + 1] = f
               /\ f.envelope = envelope.index /\ f.frame = Len(frames)
               /\ envelope'.index = envelope.index
               /\ envelope'.plaintext = Append(envelope.plaintext, Len(frames))
        BY <2>1, Packed
      <3> DEFINE p == envelope.plaintext
                 q == envelope'.plaintext
                 k == envelope.index
      <3>2. /\ Len(p) \in Nat /\ Len(q) = Len(p) + 1 /\ q \in Seq(Nat)
            /\ \A i \in 1 .. Len(p) : q[i] = p[i]
            /\ q[Len(p) + 1] = Len(frames)
            /\ DOMAIN q = 1 .. Len(q) /\ DOMAIN p = 1 .. Len(p)
        BY <1>0, <3>1, AppendOf
      <3>3. /\ Len(p) > 0 => p[Len(p)] = Len(frames) - 1
            /\ \A i \in 2 .. Len(p) : p[i] = p[i - 1] + 1
            /\ {p[i] : i \in DOMAIN p} = {frames[i].frame : i \in frames_in(frames, k)}
        <4>1. Len(p) > 0 => p # <<>>
          BY <1>0, EmptySeq
        <4> QED  BY <4>1 DEF Filling, Plaintexts, Plaintext
      <3> HIDE DEF p, q, k
      <3>4. \A i \in 2 .. Len(q) : q[i] = q[i - 1] + 1
        <4> TAKE i \in 2 .. Len(q)
        <4>1. CASE i \in 2 .. Len(p)
          <5>1. i \in 1 .. Len(p) /\ i - 1 \in 1 .. Len(p)
            BY <3>2, <4>1
          <5> QED  BY <3>2, <3>3, <4>1, <5>1
        <4>2. CASE i = Len(p) + 1
          <5>1. Len(p) > 0 /\ Len(p) \in 1 .. Len(p) /\ i - 1 = Len(p)
            BY <3>2, <4>2
          <5> QED  BY <1>0, <3>2, <3>3, <4>2, <5>1
        <4> QED  BY <3>2, <4>1, <4>2
      <3>5. {q[i] : i \in DOMAIN q} = {p[i] : i \in DOMAIN p} \cup {Len(frames)}
        <4>1. \A i \in DOMAIN q : \/ i \in DOMAIN p /\ q[i] = p[i]
                                  \/ q[i] = Len(frames)
          BY <3>2
        <4>2. \A i \in DOMAIN p : i \in DOMAIN q /\ q[i] = p[i]
          BY <3>2
        <4>3. Len(p) + 1 \in DOMAIN q /\ q[Len(p) + 1] = Len(frames)
          BY <3>2
        <4> QED  BY <4>1, <4>2, <4>3
      <3>6. {frames'[i].frame : i \in frames_in(frames', k)}
              = {frames[i].frame : i \in frames_in(frames, k)} \cup {Len(frames)}
        <4>0. DOMAIN frames' = 1 .. Len(frames')
          BY LenProperties DEF TypeOK
        <4>1. \A i \in DOMAIN frames' : \/ i \in DOMAIN frames /\ frames'[i] = frames[i]
                                        \/ i = Len(frames) + 1
          BY <1>0, <3>1, <4>0
        <4>2. \A i \in DOMAIN frames : i \in DOMAIN frames' /\ frames'[i] = frames[i]
          BY <1>0, <3>1, <4>0
        <4>3. \A i \in frames_in(frames', k) :
                 \/ i \in frames_in(frames, k) /\ frames'[i] = frames[i]
                 \/ i = Len(frames) + 1
          BY <4>1 DEF frames_in
        <4>4. \A i \in frames_in(frames, k) :
                 i \in frames_in(frames', k) /\ frames'[i] = frames[i]
          BY <4>2 DEF frames_in
        <4>5. Len(frames) + 1 \in frames_in(frames', k)
              /\ frames'[Len(frames) + 1].frame = Len(frames)
          BY <1>0, <3>1, <4>0 DEF frames_in, k
        <4> QED  BY <4>3, <4>4, <4>5
      <3>7. /\ \A i \in 2 .. Len(q) : q[i] = q[i - 1] + 1
            /\ {q[i] : i \in DOMAIN q} = {frames'[i].frame : i \in frames_in(frames', k)}
        BY <3>3, <3>4, <3>5, <3>6
      <3> QED  BY <3>1, <3>7 DEF Plaintext, q, k
    <2>2. CASE Seals
      <3>1. /\ envelope'.index = envelope.index + 1 /\ envelope'.plaintext = <<>>
            /\ UNCHANGED frames
        BY <2>2, Sealed
      <3>2. frames_in(frames, envelope.index + 1) = {}
        BY <1>0 DEF frames_in, Filling
      <3>3. {frames[i].frame : i \in frames_in(frames, envelope.index + 1)} = {}
        BY <3>2
      <3>4. /\ \A i \in 2 .. Len(envelope'.plaintext) :
                    envelope'.plaintext[i] = envelope'.plaintext[i - 1] + 1
            /\ {envelope'.plaintext[i] : i \in DOMAIN envelope'.plaintext} = {}
        BY <3>1
      <3>5. {frames'[i].frame : i \in frames_in(frames', envelope'.index)} = {}
        BY <3>1, <3>3
      <3> QED  BY <3>4, <3>5 DEF Plaintext
    <2>3. CASE UNCHANGED <<frames, envelope, payload_objects>>
      <3>1. {frames'[i].frame : i \in frames_in(frames', envelope'.index)}
              = {frames[i].frame : i \in frames_in(frames, envelope.index)}
        BY <2>3
      <3>2. envelope'.plaintext = envelope.plaintext
        BY <2>3
      <3>3. Plaintext(envelope.plaintext, envelope.index)
        BY DEF Plaintexts
      <3> QED  BY <3>1, <3>2, <3>3, ZenonT(60) DEF Plaintext
    <2> QED  BY <2>1, <2>2, <2>3, PackingEffects
  <1>4. \A e \in EnvelopesOut' : Plaintext(e.plaintext, e.index)'
    BY <1>2
  <1> QED  BY <1>3, <1>4 DEF Plaintexts

-----------------------------------------------------------------------------
(***************************************************************************)
(* Writing                                                                 *)
(***************************************************************************)

\* A block lies in the extent the index gives its envelope.
InExtent(objects, r) ==
    LET e == objects[r.index + 1].extent
    IN  /\ r.index < Len(objects)
        /\ r.block \in e.first .. next_block_index(e) - 1
        /\ r.data <=> r.block < e.first + e.data

\* The records of an envelope.
LEMMA RecordsAre ==
    ASSUME NEW e \in EnvelopeJobs, NEW i \in 1 .. Len(records(e))
    PROVE  /\ records(e)[i] \in BlockRecords
           /\ records(e)[i].block = e.extent.first + i - 1
           /\ records(e)[i].data <=> i <= e.extent.data
           /\ records(e)[i].index = e.index /\ records(e)[i].plaintext = e.plaintext
           /\ i \in 1 .. e.extent.data + e.extent.parity
           /\ e.extent.first \in Nat /\ e.extent.data \in Nat /\ e.extent.parity \in Nat
  <1>1. e.extent.first \in Nat /\ e.extent.data \in Nat /\ e.extent.parity \in Nat
    BY DEF EnvelopeJobs, Extents
  <1>2. /\ records(e) \in Seq(BlockRecords)
        /\ Len(records(e)) = e.extent.data + e.extent.parity
    BY RecordsType
  <1>3. i \in 1 .. e.extent.data + e.extent.parity
    BY <1>2
  <1>4. records(e)[i] \in BlockRecords
    BY <1>2, ElementOfSeq
  <1>5. records(e)[i] = [block |-> e.extent.first + i - 1, data |-> i <= e.extent.data,
                         index |-> e.index, plaintext |-> e.plaintext]
    BY <1>3 DEF records, block_records
  <1>6. records(e)[i].block = e.extent.first + i - 1
    BY RecordsType
  <1>7. records(e)[i].index = e.index /\ records(e)[i].plaintext = e.plaintext
    BY <1>5
  <1>8. records(e)[i].data <=> i <= e.extent.data
    <2> DEFINE b == i <= e.extent.data
    <2>1. records(e)[i] = [block |-> e.extent.first + i - 1, data |-> b,
                           index |-> e.index, plaintext |-> e.plaintext]
      BY <1>5
    <2> HIDE DEF b
    <2>2. records(e)[i].data = b
      BY <2>1
    <2> QED  BY <2>2 DEF b
  <1> QED  BY <1>1, <1>3, <1>4, <1>6, <1>7, <1>8

\* What a write adds, whole or cut short: the first blocks of the next envelope.
LEMMA Written ==
    ASSUME TypeOK, TypeOK', WriteOrder, EmitEnvelope \/ SinkFails
    PROVE  \E e \in EnvelopesOut : \E n \in 0 .. Len(records(e)) :
             /\ e.extent.first = Len(emitted)
             /\ Len(emitted') = Len(emitted) + n
             /\ \A i \in 1 .. Len(emitted) : emitted'[i] = emitted[i]
             /\ \A i \in 1 .. n : emitted'[Len(emitted) + i] = records(e)[i]
             /\ leaves' = leaves \o data_leaves(e, n)
             /\ UNCHANGED <<frames, payload_objects>>
  <1>1. PICK e \in next_sealed : \E n \in 0 .. Len(records(e)) :
          /\ emitted' = emitted \o SubSeq(records(e), 1, n)
          /\ leaves' = leaves \o data_leaves(e, n)
    <2>1. CASE EmitEnvelope
      <3>1. PICK e \in next_sealed : /\ emitted' = emitted \o records(e)
                                     /\ leaves' = leaves \o data_leaves(e, Len(records(e)))
        BY <2>1 DEF EmitEnvelope
      <3>2. e \in EnvelopeJobs
        BY DEF next_sealed, TypeOK
      <3>3. /\ SubSeq(records(e), 1, Len(records(e))) = records(e)
            /\ Len(records(e)) \in 0 .. Len(records(e))
        BY <3>2, RecordsType, SubSeqFull, LenProperties
      <3> QED  BY <3>1, <3>3
    <2>2. CASE SinkFails
      <3>1. PICK e \in next_sealed : \E n \in 0 .. Len(records(e)) - 1 :
              /\ emitted' = emitted \o SubSeq(records(e), 1, n)
              /\ leaves' = leaves \o data_leaves(e, n)
        BY <2>2 DEF SinkFails
      <3>2. e \in EnvelopeJobs
        BY DEF next_sealed, TypeOK
      <3>3. Len(records(e)) \in Nat
        BY <3>2, RecordsType, LenProperties
      <3>4. \A n \in 0 .. Len(records(e)) - 1 : n \in 0 .. Len(records(e))
        BY <3>3
      <3> QED  BY <3>1, <3>4
    <2> QED  BY <2>1, <2>2
  <1>2. PICK n \in 0 .. Len(records(e)) :
          /\ emitted' = emitted \o SubSeq(records(e), 1, n)
          /\ leaves' = leaves \o data_leaves(e, n)
    BY <1>1
  <1>3. /\ pc = "emit" /\ UNCHANGED <<frames, payload_objects>>
    BY DEF EmitEnvelope, SinkFails
  <1>4. e \in envelope_buffer /\ e \in EnvelopeJobs /\ e.index = next_envelope
    BY DEF next_sealed, TypeOK
  <1>5. e \in EnvelopesOut
    BY <1>4 DEF EnvelopesOut
  <1>6. e.extent.first = Len(emitted)
    <2>1. /\ next_envelope < Len(payload_objects)
          /\ e.extent = payload_objects[next_envelope + 1].extent
      BY <1>4, <1>5, OutIndexed DEF AsIndexed
    <2>2. Len(emitted) = first_block(payload_objects, next_block, next_envelope)
      BY <1>3 DEF WriteOrder, WrittenUpToNext
    <2> QED  BY <2>1, <2>2 DEF first_block
  <1> DEFINE part == SubSeq(records(e), 1, n)
  <1>7. /\ Len(records(e)) \in Nat /\ n \in Nat /\ records(e) \in Seq(BlockRecords)
        /\ emitted \in Seq(BlockRecords) /\ Len(emitted) \in Nat
    BY <1>4, RecordsType, LenProperties DEF TypeOK
  <1>8. \A i \in 1 .. n : records(e)[i] \in BlockRecords
    BY <1>7, ElementOfSeq
  <1>9. /\ part \in Seq(BlockRecords) /\ Len(part) = n
        /\ \A i \in 1 .. n : part[i] = records(e)[i]
    BY <1>7, <1>8, SubSeqProperties
  <1> HIDE DEF part
  <1>10. /\ Len(emitted') = Len(emitted) + n
         /\ \A i \in 1 .. Len(emitted) + n :
               emitted'[i] = IF i <= Len(emitted) THEN emitted[i] ELSE part[i - Len(emitted)]
    <2>1. emitted' = emitted \o part
      BY <1>2 DEF part
    <2> QED  BY <1>7, <1>9, <2>1, ConcatProperties
  <1>11. \A i \in 1 .. Len(emitted) : emitted'[i] = emitted[i]
    BY <1>7, <1>10
  <1>12. ASSUME NEW i \in 1 .. n
         PROVE  emitted'[Len(emitted) + i] = records(e)[i]
    <2>1. /\ Len(emitted) + i \in 1 .. Len(emitted) + n /\ ~(Len(emitted) + i <= Len(emitted))
          /\ (Len(emitted) + i) - Len(emitted) = i
      BY <1>7, SMTT(40)
    <2> QED  BY <1>9, <1>10, <2>1, SMTT(40)
  <1> QED  BY <1>2, <1>3, <1>5, <1>6, <1>10, <1>11, <1>12

\* Nothing else writes.
LEMMA WritingEffects ==
    ASSUME TypeOK, [Next]_vars
    PROVE  EmitEnvelope \/ SinkFails \/ UNCHANGED <<emitted, leaves>>
  BY DEF BeginMember, EndMembers, ReadChunk, ReadFails, MemberDone,
              SendFrameJob, FrameJobsFull, ReceiveFrame, ReceiveFrameFails,
              DrainedFrames, AppendFrame, FrameTooLarge, AppendDone, SealForAppend,
              FinalSeal, Seal, SendEnvelopeJob, EnvelopeJobsFull,
              ReceiveEnvelope, ReceiveEnvelopeFails, DrainedEnvelopes,
              EmitDone, AwaitFrames,
              NothingToSeal, AwaitEnvelopes, EnvelopesDone, Join, ScopeEnds,
              Finished, TakeFrameJob, CompressFrame, CompressFails,
              FrameWorkerPanics, FrameWorkerStops, TakeEnvelopeJob,
              EncryptEnvelope, EncryptFails, EnvelopeWorkerPanics,
              EnvelopeWorkerStops, Next, MainStep, FrameWorkerStep,
              EnvelopeWorkerStep, Unwind, Fault

\* The index describes a block: its extent, and the frames it was cut from.
LEMMA DescribedIs ==
    ASSUME TypeOK
    PROVE  DescribesBlocks(frames, payload_objects, emitted)
             <=> \A i \in 1 .. Len(emitted) : /\ InExtent(payload_objects, emitted[i])
                                             /\ Plaintext(emitted[i].plaintext, emitted[i].index)
  <1>1. DOMAIN emitted = 1 .. Len(emitted)
    BY LenProperties DEF TypeOK
  <1> QED  BY <1>1 DEF DescribesBlocks, InExtent, Plaintext

LEMMA DescribedIsNext ==
    TypeOK' => (DescribesBlocks(frames, payload_objects, emitted)
                 <=> \A i \in 1 .. Len(emitted) :
                        /\ InExtent(payload_objects, emitted[i])
                        /\ Plaintext(emitted[i].plaintext, emitted[i].index))'
  <1>1. TypeOK => (DescribesBlocks(frames, payload_objects, emitted)
                    <=> \A i \in 1 .. Len(emitted) :
                           /\ InExtent(payload_objects, emitted[i])
                           /\ Plaintext(emitted[i].plaintext, emitted[i].index))
    BY DescribedIs
  <1> QED  BY <1>1, PTL

\* A written block stays described.
LEMMA DescribedStays ==
    ASSUME TypeOK, TypeOK', WriteOrder, FramesRecorded, [Next]_vars,
           NEW r \in BlockRecords, InExtent(payload_objects, r), Plaintext(r.plaintext, r.index)
    PROVE  InExtent(payload_objects', r) /\ Plaintext(r.plaintext, r.index)'
  <1>0. /\ r.index \in Nat /\ r.index < Len(payload_objects) /\ r.index # envelope.index
        /\ Len(payload_objects) \in Nat
    <2>1. r.index \in Nat /\ r.index < Len(payload_objects)
      BY DEF BlockRecords, InExtent
    <2> QED  BY <2>1, PackingTypes
  <1>1. Plaintext(r.plaintext, r.index)'
    BY <1>0, PlaintextStays
  <1>2. InExtent(payload_objects', r)
    <2>1. CASE Seals
      <3>1. /\ Len(payload_objects') = Len(payload_objects) + 1
            /\ \A i \in 1 .. Len(payload_objects) : payload_objects'[i] = payload_objects[i]
        BY <2>1, Sealed
      <3>2. r.index + 1 \in 1 .. Len(payload_objects)
        BY <1>0
      <3>3. r.index < Len(payload_objects') /\ payload_objects'[r.index + 1] = payload_objects[r.index + 1]
        BY <1>0, <3>1, <3>2
      <3> QED  BY <3>3 DEF InExtent
    <2>2. CASE UNCHANGED payload_objects
      BY <2>2
    <2>3. AppendFrame => UNCHANGED payload_objects
      BY Packed
    <2> QED  BY <2>1, <2>2, <2>3, PackingEffects
  <1> QED  BY <1>1, <1>2

\* Every written block is described by the index.
LEMMA DescribesStep ==
    ASSUME TypeOK, TypeOK', WriteOrder, FramesRecorded, Plaintexts, [Next]_vars,
           DescribesBlocks(frames, payload_objects, emitted)
    PROVE  DescribesBlocks(frames', payload_objects', emitted')
  <1>0. emitted \in Seq(BlockRecords) /\ Len(emitted) \in Nat
    BY LenProperties DEF TypeOK
  <1>1. ASSUME NEW i \in 1 .. Len(emitted)
        PROVE  /\ InExtent(payload_objects', emitted[i])
               /\ \A r \in BlockRecords : r = emitted[i] => Plaintext(r.plaintext, r.index)'
    <2>1. PICK r \in BlockRecords : r = emitted[i]
      BY <1>0, ElementOfSeq
    <2>2. InExtent(payload_objects, r) /\ Plaintext(r.plaintext, r.index)
      BY <2>1, DescribedIs
    <2>3. InExtent(payload_objects', r) /\ Plaintext(r.plaintext, r.index)'
      BY <2>2, DescribedStays
    <2> QED  BY <2>1, <2>3
  <1>2. ASSUME NEW i \in 1 .. Len(emitted')
        PROVE  /\ InExtent(payload_objects', emitted'[i])
               /\ \A r \in BlockRecords : r = emitted'[i] => Plaintext(r.plaintext, r.index)'
    <2>1. CASE UNCHANGED emitted
      BY <1>1, <2>1
    <2>2. CASE EmitEnvelope \/ SinkFails
      <3>1. PICK e \in EnvelopesOut : \E n \in 0 .. Len(records(e)) :
             /\ Len(emitted') = Len(emitted) + n
             /\ \A j \in 1 .. Len(emitted) : emitted'[j] = emitted[j]
             /\ \A j \in 1 .. n : emitted'[Len(emitted) + j] = records(e)[j]
             /\ UNCHANGED <<frames, payload_objects>>
        BY <2>2, Written
      <3>2. PICK n \in 0 .. Len(records(e)) :
             /\ Len(emitted') = Len(emitted) + n
             /\ \A j \in 1 .. Len(emitted) : emitted'[j] = emitted[j]
             /\ \A j \in 1 .. n : emitted'[Len(emitted) + j] = records(e)[j]
             /\ UNCHANGED <<frames, payload_objects>>
        BY <3>1
      <3>3. CASE i \in 1 .. Len(emitted)
        BY <1>1, <3>2, <3>3
      <3>4. CASE i \notin 1 .. Len(emitted)
        <4> DEFINE j == i - Len(emitted)
        <4>0. e \in EnvelopeJobs /\ AsIndexed(payload_objects, e)
          BY OutIndexed
        <4>1. Len(records(e)) \in Nat
          BY <4>0, RecordsType, LenProperties
        <4>2. j \in 1 .. n /\ j \in 1 .. Len(records(e)) /\ Len(emitted) + j = i
          BY <1>0, <3>2, <3>4, <4>1
        <4> HIDE DEF j
        <4>r. PICK r \in BlockRecords : r = records(e)[j]
          BY <4>0, <4>2, RecordsAre
        <4>3. emitted'[i] = r
          BY <3>2, <4>2, <4>r
        <4>4. /\ r \in BlockRecords
              /\ r.block = e.extent.first + j - 1
              /\ r.data <=> j <= e.extent.data
              /\ r.index = e.index /\ r.plaintext = e.plaintext
              /\ j \in 1 .. e.extent.data + e.extent.parity
              /\ e.extent.first \in Nat /\ e.extent.data \in Nat /\ e.extent.parity \in Nat
          BY <4>0, <4>2, <4>r, RecordsAre
        <4>5. /\ r.index < Len(payload_objects)
              /\ payload_objects[r.index + 1].extent = e.extent
          BY <4>0, <4>4 DEF AsIndexed
        <4>6. r.block \in e.extent.first .. next_block_index(e.extent) - 1
          <5>1. /\ e.extent.first \in Nat /\ e.extent.data \in Nat /\ e.extent.parity \in Nat
                /\ r.block = e.extent.first + j - 1
                /\ j \in 1 .. e.extent.data + e.extent.parity
            BY <4>4
          <5> QED  BY <5>1, SMTT(40) DEF next_block_index
        <4>7. j <= e.extent.data <=> r.block < e.extent.first + e.extent.data
          <5>1. /\ e.extent.first \in Nat /\ e.extent.data \in Nat /\ j \in Int
                /\ r.block = e.extent.first + j - 1
            BY <4>4
          <5> QED  BY <5>1, SMTT(40)
        <4>8. r.data <=> r.block < e.extent.first + e.extent.data
          BY <4>4, <4>7
        <4>9. InExtent(payload_objects, r)
          BY <4>5, <4>6, <4>8 DEF InExtent
        <4>10. Plaintext(r.plaintext, r.index)
          BY <4>4 DEF Plaintexts
        <4>11. Plaintext(r.plaintext, r.index)'
          BY <3>2, <4>10 DEF Plaintext
        <4> QED  BY <3>2, <4>3, <4>9, <4>11
      <3> QED  BY <3>3, <3>4
    <2> QED  BY <2>1, <2>2, WritingEffects
  <1>3. \A i \in 1 .. Len(emitted') : Plaintext(emitted[i].plaintext, emitted[i].index)'
    <2> TAKE i \in 1 .. Len(emitted')
    <2>1. emitted' \in Seq(BlockRecords)
      BY DEF TypeOK
    <2>2. PICK r \in BlockRecords : r = emitted'[i]
      BY <2>1, ElementOfSeq
    <2>3. Plaintext(r.plaintext, r.index)'
      BY <1>2, <2>2
    <2> QED  BY <2>2, <2>3 DEF Plaintext
  <1> QED  BY <1>2, <1>3, DescribedIsNext

\* The leaf hashes of the first n blocks of an envelope: its data blocks among them.
hashed(e, n) == IF n < e.extent.data THEN n ELSE e.extent.data

LEMMA LeavesAre ==
    ASSUME NEW e \in EnvelopeJobs, NEW n \in Nat, CollectLeaves
    PROVE  /\ hashed(e, n) \in Nat
           /\ data_leaves(e, n) \in Seq(Nat) /\ Len(data_leaves(e, n)) = hashed(e, n)
           /\ \A i \in 1 .. hashed(e, n) :
                 /\ data_leaves(e, n)[i] = e.extent.first + i - 1
                 /\ i \in 1 .. n /\ i <= e.extent.data
           /\ \A i \in 1 .. n : i <= e.extent.data => i \in 1 .. hashed(e, n)
  <1> DEFINE h == hashed(e, n)
             s == [i \in 1 .. h |-> e.extent.first + i - 1]
  <1>1. e.extent.first \in Nat /\ e.extent.data \in Nat
    BY DEF EnvelopeJobs, Extents
  <1>2. /\ h \in Nat
        /\ \A i \in 1 .. h : i \in 1 .. n /\ i <= e.extent.data
        /\ \A i \in 1 .. n : i <= e.extent.data => i \in 1 .. h
    BY <1>1 DEF hashed
  <1>3. data_leaves(e, n) = s
    BY DEF data_leaves, hashed
  <1> HIDE DEF h
  <1>4. s \in [1 .. h -> Nat]
    BY <1>1, <1>2
  <1>5. s \in Seq(Nat) /\ Len(s) = h
    BY <1>2, <1>4, SeqDef, LenProperties
  <1>6. \A i \in 1 .. h : s[i] = e.extent.first + i - 1
    OBVIOUS
  <1> HIDE DEF s
  <1> QED  BY <1>2, <1>3, <1>5, <1>6 DEF h

\* The leaf hashes are those of the data blocks written, in order.
LEMMA LeavesStep ==
    ASSUME TypeOK, TypeOK', WriteOrder, LeavesCollected, [Next]_vars
    PROVE  LeavesCollected'
  <1>0. /\ emitted \in Seq(BlockRecords) /\ Len(emitted) \in Nat
        /\ DOMAIN emitted = 1 .. Len(emitted)
        /\ leaves \in Seq(Nat) /\ Len(leaves) \in Nat /\ DOMAIN leaves = 1 .. Len(leaves)
        /\ DOMAIN emitted' = 1 .. Len(emitted') /\ DOMAIN leaves' = 1 .. Len(leaves')
    BY LenProperties DEF TypeOK
  <1>1. CASE UNCHANGED <<emitted, leaves>>
    <2>1. {leaves'[i] : i \in DOMAIN leaves'} = {leaves[i] : i \in DOMAIN leaves}
      BY <1>1
    <2>2. {emitted'[i].block : i \in {j \in DOMAIN emitted' : emitted'[j].data}}
            = {emitted[i].block : i \in {j \in DOMAIN emitted : emitted[j].data}}
      BY <1>1
    <2>3. UNCHANGED leaves
      BY <1>1
    <2> QED  BY <2>1, <2>2, <2>3 DEF LeavesCollected
  <1>2. CASE EmitEnvelope \/ SinkFails
    <2> SUFFICES ASSUME CollectLeaves
                 PROVE  LeavesCollected'
      BY DEF LeavesCollected
    <2>1. PICK e \in EnvelopesOut : \E n \in 0 .. Len(records(e)) :
             /\ e.extent.first = Len(emitted)
             /\ Len(emitted') = Len(emitted) + n
             /\ \A i \in 1 .. Len(emitted) : emitted'[i] = emitted[i]
             /\ \A i \in 1 .. n : emitted'[Len(emitted) + i] = records(e)[i]
             /\ leaves' = leaves \o data_leaves(e, n)
      BY <1>2, Written
    <2>2. PICK n \in 0 .. Len(records(e)) :
             /\ e.extent.first = Len(emitted)
             /\ Len(emitted') = Len(emitted) + n
             /\ \A i \in 1 .. Len(emitted) : emitted'[i] = emitted[i]
             /\ \A i \in 1 .. n : emitted'[Len(emitted) + i] = records(e)[i]
             /\ leaves' = leaves \o data_leaves(e, n)
      BY <2>1
    <2>3. e \in EnvelopeJobs /\ n \in Nat /\ Len(records(e)) \in Nat
      BY OutIndexed, RecordsType, LenProperties
    <2> DEFINE new == data_leaves(e, n)
               b == Len(emitted)
               old == {emitted[i].block : i \in {j \in DOMAIN emitted : emitted[j].data}}
               h == hashed(e, n)
    <2>4. /\ h \in Nat
          /\ new \in Seq(Nat) /\ Len(new) = h
          /\ \A i \in 1 .. h : new[i] = b + i - 1
          /\ \A i \in 1 .. h : i \in 1 .. n /\ i <= e.extent.data
          /\ \A i \in 1 .. n : i <= e.extent.data => i \in 1 .. h
      <3>1. e.extent.first = Len(emitted)
        BY <2>2
      <3> QED  BY <2>3, <3>1, LeavesAre, ZenonT(60)
    <2> HIDE DEF new, h
    <2>h. h \in Nat
      BY <2>4
    <2>5. /\ Len(leaves') = Len(leaves) + h
          /\ \A i \in 1 .. Len(leaves) + h :
                leaves'[i] = IF i <= Len(leaves) THEN leaves[i] ELSE new[i - Len(leaves)]
      <3>1. leaves' = leaves \o new
        BY <2>2 DEF new
      <3> QED  BY <1>0, <2>4, <3>1, ConcatProperties, ZenonT(60)
    <2>6. /\ \A i \in 1 .. Len(leaves) : leaves'[i] = leaves[i] /\ i \in 1 .. Len(leaves')
          /\ \A i \in 1 .. h : /\ leaves'[Len(leaves) + i] = b + i - 1
                               /\ Len(leaves) + i \in 1 .. Len(leaves')
          /\ \A i \in 1 .. Len(leaves') :
                i \in 1 .. Len(leaves) \/ i - Len(leaves) \in 1 .. h
      <3>1. \A i \in 1 .. Len(leaves) : leaves'[i] = leaves[i] /\ i \in 1 .. Len(leaves')
        BY <1>0, <2>5, <2>h
      <3>2. ASSUME NEW i \in 1 .. h
            PROVE  /\ leaves'[Len(leaves) + i] = b + i - 1
                   /\ Len(leaves) + i \in 1 .. Len(leaves')
        <4>1. /\ Len(leaves) + i \in 1 .. Len(leaves) + h
              /\ ~(Len(leaves) + i <= Len(leaves)) /\ (Len(leaves) + i) - Len(leaves) = i
          BY <1>0, <2>h
        <4> QED  BY <2>4, <2>5, <4>1
      <3>3. \A i \in 1 .. Len(leaves') : i \in 1 .. Len(leaves) \/ i - Len(leaves) \in 1 .. h
        BY <1>0, <2>5, <2>h
      <3> QED  BY <3>1, <3>2, <3>3
    <2>7. /\ \A i \in 1 .. n : /\ emitted'[b + i].block = b + i - 1
                               /\ emitted'[b + i].data <=> i <= e.extent.data
                               /\ b + i \in 1 .. Len(emitted')
          /\ \A i \in 1 .. b : emitted'[i] = emitted[i] /\ i \in 1 .. Len(emitted')
          /\ \A i \in 1 .. Len(emitted') : i \in 1 .. b \/ i - b \in 1 .. n
      <3>0. b \in Nat /\ n \in Nat /\ Len(emitted') = b + n
        BY <1>0, <2>2, <2>3
      <3>1. ASSUME NEW i \in 1 .. n
            PROVE  /\ emitted'[b + i].block = b + i - 1
                   /\ emitted'[b + i].data <=> i <= e.extent.data
                   /\ b + i \in 1 .. Len(emitted')
        <4>0. n <= Len(records(e)) /\ Len(records(e)) \in Nat
          BY <2>3
        <4>1. i \in 1 .. Len(records(e)) /\ b + i \in 1 .. Len(emitted')
          BY <3>0, <4>0
        <4>2. emitted'[b + i] = records(e)[i]
          BY <2>2
        <4>3. /\ records(e)[i].block = e.extent.first + i - 1
              /\ records(e)[i].data <=> i <= e.extent.data
          BY <2>3, <4>1, RecordsAre
        <4> QED  BY <2>2, <4>1, <4>2, <4>3
      <3>2. \A i \in 1 .. b : emitted'[i] = emitted[i] /\ i \in 1 .. Len(emitted')
        <4>1. \A i \in 1 .. b : i \in 1 .. Len(emitted')
          BY <3>0
        <4> QED  BY <2>2, <4>1
      <3>3. \A i \in 1 .. Len(emitted') : i \in 1 .. b \/ i - b \in 1 .. n
        BY <3>0
      <3> QED  BY <3>1, <3>2, <3>3
    <2>8. /\ {leaves[i] : i \in 1 .. Len(leaves)} = old
          /\ \A i \in 2 .. Len(leaves) : leaves[i - 1] < leaves[i]
      BY <1>0 DEF LeavesCollected
    <2>9. ASSUME NEW x
          PROVE  x \in {leaves'[i] : i \in 1 .. Len(leaves')}
                   <=> x \in old \/ \E i \in 1 .. h : x = b + i - 1
      <3>1. ASSUME NEW i \in 1 .. Len(leaves'), x = leaves'[i]
            PROVE  x \in old \/ \E j \in 1 .. h : x = b + j - 1
        <4>1. CASE i \in 1 .. Len(leaves)
          BY <2>6, <2>8, <3>1, <4>1
        <4>2. CASE i - Len(leaves) \in 1 .. h
          <5> DEFINE j == i - Len(leaves)
          <5>1. j \in 1 .. h /\ Len(leaves) + j = i
            BY <1>0, <4>2
          <5> HIDE DEF j
          <5>2. x = b + j - 1
            BY <2>6, <3>1, <5>1
          <5> QED  BY <5>1, <5>2
        <4> QED  BY <2>6, <4>1, <4>2
      <3>2. ASSUME x \in old
            PROVE  \E i \in 1 .. Len(leaves') : x = leaves'[i]
        <4>1. PICK i \in 1 .. Len(leaves) : x = leaves[i]
          BY <2>8, <3>2
        <4> QED  BY <2>6, <4>1
      <3>3. ASSUME NEW i \in 1 .. h, x = b + i - 1
            PROVE  \E j \in 1 .. Len(leaves') : x = leaves'[j]
        BY <2>6, <3>3
      <3> QED  BY <3>1, <3>2, <3>3
    <2>10. ASSUME NEW x
           PROVE  x \in {emitted'[i].block : i \in {j \in 1 .. Len(emitted') : emitted'[j].data}}
                    <=> x \in old \/ \E i \in 1 .. h : x = b + i - 1
      <3>1. ASSUME NEW i \in 1 .. Len(emitted'), emitted'[i].data, x = emitted'[i].block
            PROVE  x \in old \/ \E j \in 1 .. h : x = b + j - 1
        <4>1. CASE i \in 1 .. b
          BY <1>0, <2>7, <3>1, <4>1
        <4>2. CASE i - b \in 1 .. n
          <5> DEFINE j == i - b
          <5>1. j \in 1 .. n /\ b + j = i
            BY <1>0, <4>2
          <5> HIDE DEF j
          <5>2. x = b + j - 1 /\ j <= e.extent.data
            BY <2>7, <3>1, <5>1
          <5> QED  BY <2>4, <5>1, <5>2
        <4> QED  BY <2>7, <4>1, <4>2
      <3>2. ASSUME x \in old
            PROVE  \E i \in 1 .. Len(emitted') : emitted'[i].data /\ x = emitted'[i].block
        <4>1. PICK i \in 1 .. b : emitted[i].data /\ x = emitted[i].block
          BY <1>0, <3>2
        <4> QED  BY <2>7, <4>1
      <3>3. ASSUME NEW i \in 1 .. h, x = b + i - 1
            PROVE  \E j \in 1 .. Len(emitted') : emitted'[j].data /\ x = emitted'[j].block
        <4>1. i \in 1 .. n /\ i <= e.extent.data
          BY <2>4
        <4> QED  BY <2>7, <3>3, <4>1
      <3> QED  BY <3>1, <3>2, <3>3
    <2>11. {leaves'[i] : i \in DOMAIN leaves'}
             = {emitted'[i].block : i \in {j \in DOMAIN emitted' : emitted'[j].data}}
      <3>1. {leaves'[i] : i \in 1 .. Len(leaves')}
              = {emitted'[i].block : i \in {j \in 1 .. Len(emitted') : emitted'[j].data}}
        BY <2>9, <2>10
      <3> QED  BY <1>0, <3>1
    <2>12. \A i \in 1 .. Len(leaves) : leaves[i] \in Nat /\ leaves[i] < b
      <3> TAKE i \in 1 .. Len(leaves)
      <3>1. leaves[i] \in old
        BY <2>8
      <3>2. PICK j \in 1 .. b : leaves[i] = emitted[j].block
        BY <1>0, <3>1
      <3>3. emitted[j].block = j - 1
        BY DEF WriteOrder, BlocksInOrder, InBlockOrder
      <3> QED  BY <1>0, <3>2, <3>3
    <2>13. \A i \in 2 .. Len(leaves') : leaves'[i - 1] < leaves'[i]
      <3> TAKE i \in 2 .. Len(leaves')
      <3>1. CASE i \in 2 .. Len(leaves)
        <4>1. i \in 1 .. Len(leaves) /\ i - 1 \in 1 .. Len(leaves)
          BY <1>0, <3>1
        <4> QED  BY <2>6, <2>8, <3>1, <4>1
      <3>2. CASE i = Len(leaves) + 1
        <4>1. i - 1 \in 1 .. Len(leaves) /\ i - 1 = Len(leaves) /\ 1 \in 1 .. h
          BY <1>0, <2>5, <2>h, <3>2
        <4>2. leaves'[i - 1] < b
          BY <2>6, <2>12, <4>1
        <4>3. leaves'[i] = b + 1 - 1
          BY <2>6, <3>2, <4>1
        <4> QED  BY <1>0, <4>2, <4>3
      <3>3. CASE i > Len(leaves) + 1
        <4> DEFINE j == i - Len(leaves)
        <4>1. /\ j \in 1 .. h /\ j - 1 \in 1 .. h
              /\ Len(leaves) + j = i /\ Len(leaves) + (j - 1) = i - 1
          BY <1>0, <2>5, <2>h, <3>3
        <4> HIDE DEF j
        <4>2. leaves'[i] = b + j - 1 /\ leaves'[i - 1] = b + (j - 1) - 1
          BY <2>6, <4>1
        <4> QED  BY <1>0, <4>1, <4>2
      <3> QED  BY <1>0, <2>5, <3>1, <3>2, <3>3
    <2> QED  BY <2>11, <2>13 DEF LeavesCollected
  <1> QED  BY <1>1, <1>2, WritingEffects

\* A success has written everything that was planned.
LEMMA AllWrittenStep ==
    ASSUME TypeOK, TypeOK', WriteOrder, KnowsEnvelopes, AllWritten, [Next]_vars
    PROVE  AllWritten'
  <1> SUFFICES ASSUME pc' = "ok"
               PROVE  Len(emitted') = next_block'
    BY DEF AllWritten
  <1>1. CASE pc = "ok"
    <2>1. ~running
      BY <1>1 DEF running
    <2> QED  BY <1>1, <2>1, EndEffects DEF AllWritten
  <1>2. CASE Join
    <2>1. pc = "join" /\ UNCHANGED <<emitted, next_block>>
      BY <1>2 DEF Join
    <2>2. next_envelope = Len(payload_objects) /\ Len(payload_objects) \in Nat
      BY <2>1, PackingTypes DEF KnowsEnvelopes
    <2>3. Len(emitted) = first_block(payload_objects, next_block, next_envelope)
      BY <2>1 DEF WriteOrder, WrittenUpToNext
    <2>4. ~(next_envelope < Len(payload_objects))
      BY <2>2
    <2> QED  BY <2>1, <2>3, <2>4 DEF first_block
  <1> QED  BY <1>1, <1>2, EndEffects

-----------------------------------------------------------------------------
(***************************************************************************)
(* Striping                                                                *)
(***************************************************************************)

\* Division with remainder.
LEMMA DivMod ==
    ASSUME NEW n \in Int, NEW d \in Nat \ {0}
    PROVE  n = d * (n \div d) + (n % d) /\ n % d \in 0 .. d - 1 /\ n \div d \in Int
  OBVIOUS

\* A multiple of d strictly between -d and d is 0.
LEMMA SmallMultiple ==
    ASSUME NEW q \in Int, NEW d \in Nat \ {0}, 0 - d < d * q, d * q < d
    PROVE  q = 0
  OBVIOUS

\* Multiplication is monotone.
LEMMA TimesMonotone ==
    ASSUME NEW a \in Int, NEW b \in Int, NEW d \in Nat, a <= b
    PROVE  d * a <= d * b
  OBVIOUS

LEMMA TimesApart ==
    ASSUME NEW a \in Int, NEW b \in Int, NEW d \in Nat
    PROVE  d * (a - b) = d * a - d * b /\ d * a \in Int
  OBVIOUS

\* Block d * a + v is on volume v.
LEMMA ModOf ==
    ASSUME NEW a \in Nat, NEW d \in Nat \ {0}, NEW v \in 0 .. d - 1
    PROVE  (d * a + v) % d = v
  <1> DEFINE n == d * a + v
             q == n \div d
             r == n % d
  <1>1. d * a \in Int /\ n \in Int
    BY TimesApart
  <1>2. n = d * q + r /\ r \in 0 .. d - 1 /\ q \in Int
    BY <1>1, DivMod
  <1>3. n = d * a + v
    OBVIOUS
  <1> HIDE DEF n, q, r
  <1>4. d * (a - q) = d * a - d * q /\ d * q \in Int
    BY <1>2, TimesApart
  <1>5. d * (a - q) = r - v
    BY <1>1, <1>2, <1>3, <1>4
  <1>6. 0 - d < d * (a - q) /\ d * (a - q) < d
    BY <1>2, <1>5
  <1>7. a - q = 0
    BY <1>2, <1>6, SmallMultiple
  <1>8. r = v
    BY <1>1, <1>2, <1>3, <1>7
  <1> QED  BY <1>8 DEF r, n

\* The striped block count is the number of blocks below n that are on volume v.
LEMMA StripeCount ==
    ASSUME NEW n \in Nat, NEW w \in Nat \ {0}, NEW v \in 0 .. w - 1
    PROVE  Cardinality({i \in 1 .. n : (i - 1) % w = v}) = striped_block_count(n, w, v)
  <1> DEFINE S == {i \in 1 .. n : (i - 1) % w = v}
             Q == (n - 1 - v) \div w
             c == striped_block_count(n, w, v)
             f == [k \in 1 .. c |-> w * (k - 1) + v + 1]
  <1>0. Q \in Int /\ w * Q \in Int /\ w * Q <= n - 1 - v /\ n - 1 - v < w * Q + w
    <2>1. n - 1 - v \in Int
      OBVIOUS
    <2>2. /\ n - 1 - v = w * Q + ((n - 1 - v) % w) /\ (n - 1 - v) % w \in 0 .. w - 1
          /\ Q \in Int
      BY <2>1, DivMod
    <2> HIDE DEF Q
    <2>3. w * Q \in Int
      BY <2>2, TimesApart
    <2> QED  BY <2>2, <2>3
  <1>1. c = IF n <= v THEN 0 ELSE Q + 1
    BY DEF striped_block_count
  <1> HIDE DEF Q, c
  <1>2. c \in Nat
    <2>1. CASE n > v
      <3>1. Q >= 0
        <4> SUFFICES ASSUME Q <= 0 - 1
                     PROVE  FALSE
          BY <1>0
        <4>1. w * Q <= w * (0 - 1)
          BY <1>0, TimesMonotone
        <4>2. w * (0 - 1) = 0 - w
          OBVIOUS
        <4> QED  BY <1>0, <2>1, <4>1, <4>2
      <3> QED  BY <1>0, <1>1, <2>1, <3>1
    <2> QED  BY <1>1, <2>1
  <1>3. \A k \in 1 .. c : w * (k - 1) \in Nat /\ w * (k - 1) + v + 1 <= n
    <2> TAKE k \in 1 .. c
    <2>1. n > v /\ k - 1 <= Q /\ k - 1 \in Nat
      BY <1>0, <1>1, <1>2
    <2>2. w * (k - 1) <= w * Q
      BY <1>0, <2>1, TimesMonotone
    <2>3. w * (k - 1) \in Nat
      BY <2>1
    <2> QED  BY <1>0, <2>2, <2>3
  <1>4. f \in Bijection(1 .. c, S)
    <2>1. \A k \in 1 .. c : f[k] \in S
      <3> TAKE k \in 1 .. c
      <3>1. f[k] = w * (k - 1) + v + 1
        OBVIOUS
      <3>2. w * (k - 1) \in Nat /\ w * (k - 1) + v + 1 <= n /\ k - 1 \in Nat
        BY <1>2, <1>3
      <3>3. (w * (k - 1) + v) % w = v
        BY <3>2, ModOf
      <3> DEFINE x == w * (k - 1)
      <3> HIDE DEF x
      <3>4. f[k] \in 1 .. n /\ f[k] - 1 = x + v
        BY <3>1, <3>2 DEF x
      <3> QED  BY <3>3, <3>4 DEF x
    <2>2. f \in [1 .. c -> S]
      BY <2>1
    <2>3. \A j, k \in 1 .. c : f[j] = f[k] => j = k
      <3> TAKE j, k \in 1 .. c
      <3> SUFFICES ASSUME f[j] = f[k]
                   PROVE  j = k
        OBVIOUS
      <3>1. /\ j - 1 \in Int /\ k - 1 \in Int
            /\ w * (j - 1) \in Nat /\ w * (k - 1) \in Nat
        BY <1>2, <1>3
      <3>2. w * (j - 1) = w * (k - 1)
        BY <3>1
      <3>3. w * ((j - 1) - (k - 1)) = w * (j - 1) - w * (k - 1)
        BY <3>1, TimesApart
      <3>4. w * ((j - 1) - (k - 1)) = 0
        BY <3>1, <3>2, <3>3
      <3>5. (j - 1) - (k - 1) = 0
        <4> DEFINE y == (j - 1) - (k - 1)
        <4>1. y \in Int /\ w * y = 0
          BY <3>1, <3>4
        <4> HIDE DEF y
        <4>2. y = 0
          BY <4>1, SmallMultiple
        <4> QED  BY <4>2 DEF y
      <3> QED  BY <3>1, <3>5
    <2>4. \A i \in S : \E k \in 1 .. c : f[k] = i
      <3> TAKE i \in S
      <3> DEFINE q == (i - 1) \div w
      <3>1. i \in 1 .. n /\ (i - 1) % w = v /\ i - 1 \in Nat
        OBVIOUS
      <3>2. i - 1 = w * q + v /\ q \in Int
        BY <3>1, DivMod
      <3>3. q \in Nat
        BY <3>1
      <3> HIDE DEF q
      <3>4. w * q \in Nat
        BY <3>3
      <3>5. n > v
        BY <3>1, <3>2, <3>4
      <3>6. q <= Q
        <4> SUFFICES ASSUME Q + 1 <= q
                     PROVE  FALSE
          BY <1>0, <3>3
        <4>1. w * (Q + 1) <= w * q
          BY <1>0, <3>3, TimesMonotone
        <4>2. w * (Q + 1) = w * Q + w
          BY <1>0
        <4> QED  BY <1>0, <3>1, <3>2, <3>4, <4>1, <4>2
      <3>7. q + 1 \in 1 .. c /\ (q + 1) - 1 = q
        BY <1>0, <1>1, <3>3, <3>5, <3>6
      <3>8. f[q + 1] = w * q + v + 1
        BY <3>7
      <3> QED  BY <3>1, <3>2, <3>4, <3>7, <3>8
    <2> HIDE DEF f, S
    <2> QED  BY <2>2, <2>3, <2>4, Fun_IsBij
  <1> HIDE DEF f, S
  <1>5. ExistsBijection(1 .. c, S)
    BY <1>4 DEF ExistsBijection
  <1>6. IsFiniteSet(1 .. c) /\ Cardinality(1 .. c) = c
    BY <1>2, FS_Interval
  <1>7. Cardinality(S) = c
    BY <1>5, <1>6, FS_Bijection
  <1> QED  BY <1>7 DEF S, c

-----------------------------------------------------------------------------
(***************************************************************************)
(* The index                                                               *)
(***************************************************************************)

IndexAll == CompletionInv /\ IndexInv /\ LeavesCollected /\ AllWritten

LEMMA InitIndex == Init => IndexAll
  <1> SUFFICES ASSUME Init PROVE IndexAll
    OBVIOUS
  <1>1. CompletionInv
    BY InitCompletion
  <1>2. /\ pc = "member" /\ frame_jobs = <<>> /\ envelope_jobs = <<>>
        /\ frame_results = <<>> /\ envelope_results = <<>>
        /\ frame_buffer = {} /\ envelope_buffer = {}
        /\ next_frame = [job |-> 0, result |-> 0]
        /\ envelope.index = 0 /\ envelope.plaintext = <<>>
        /\ tar_members = <<>> /\ tar_total_size = 0
        /\ frames = <<>> /\ payload_objects = <<>> /\ emitted = <<>> /\ leaves = <<>>
        /\ frame_worker = [w \in FrameWorkers |-> Worker("idle", NoFrameJob)]
        /\ envelope_worker = [w \in EnvelopeWorkers |-> Worker("idle", NoEnvelopeJob)]
    BY DEF Init, EmptyEnvelope
  <1>3. /\ ~frame_in_hand /\ ~envelope_in_hand /\ ~chunk_pending /\ ~in_member
    BY <1>2 DEF frame_in_hand, envelope_in_hand, chunk_pending, in_member, receiving,
               appending, flushing
  <1>4. FramesOut = {}
    <2>1. {v \in FrameWorkers : frame_worker[v].state = "busy"} = {}
      BY <1>2 DEF Worker
    <2>2. Len(frame_jobs) = 0 /\ Len(frame_results) = 0
      BY <1>2
    <2> QED  BY <1>2, <1>3, <2>1, <2>2 DEF FramesOut
  <1>5. EnvelopesOut = {}
    <2>1. {v \in EnvelopeWorkers : envelope_worker[v].state = "busy"} = {}
      BY <1>2 DEF Worker
    <2>2. Len(envelope_jobs) = 0 /\ Len(envelope_results) = 0
      BY <1>2
    <2> QED  BY <1>2, <1>3, <2>1, <2>2 DEF EnvelopesOut
  <1>6. Spans = {}
    <2>1. 1 .. Len(frames) = {}
      BY <1>2
    <2> QED  BY <1>4, <2>1 DEF Spans
  <1>7. ReadingInPlace /\ ChunksCut /\ SpansAbut
    BY <1>2, <1>3, <1>4, <1>6 DEF ReadingInPlace, ChunksCut, SpansAbut
  <1>8. FramesRecorded /\ Filling
    <2>1. Len(frames) = 0 /\ next_frame.result = 0
      BY <1>2
    <2> QED  BY <1>2, <2>1 DEF FramesRecorded, Filling
  <1>9. DOMAIN frames = {} /\ DOMAIN payload_objects = {} /\ DOMAIN emitted = {}
    BY <1>2
  <1>10. Plaintexts
    <2>1. frames_in(frames, 0) = {}
      BY <1>9 DEF frames_in
    <2>2. {frames[i].frame : i \in frames_in(frames, 0)} = {}
      BY <2>1
    <2>3. /\ \A i \in 2 .. Len(envelope.plaintext) :
                envelope.plaintext[i] = envelope.plaintext[i - 1] + 1
          /\ {envelope.plaintext[i] : i \in DOMAIN envelope.plaintext} = {}
      BY <1>2
    <2>4. Plaintext(envelope.plaintext, envelope.index)
      BY <1>2, <2>2, <2>3 DEF Plaintext
    <2> QED  BY <1>5, <2>4 DEF Plaintexts
  <1>11. SealedForNext
    BY <1>2 DEF SealedForNext
  <1>12. /\ TilesEnvelopes(frames, payload_objects)
         /\ PackedGreedily(Options, frames, payload_objects)
         /\ DescribesBlocks(frames, payload_objects, emitted)
    BY <1>9 DEF TilesEnvelopes, PackedGreedily, DescribesBlocks
  <1>13. LeavesCollected
    <2>1. Len(leaves) = 0 /\ DOMAIN leaves = {}
      BY <1>2
    <2>2. {leaves[i] : i \in DOMAIN leaves} = {}
      BY <2>1
    <2>3. {emitted[i].block : i \in {j \in DOMAIN emitted : emitted[j].data}} = {}
      BY <1>9
    <2> QED  BY <2>1, <2>2, <2>3 DEF LeavesCollected
  <1>14. AllWritten
    BY <1>2 DEF AllWritten
  <1> QED  BY <1>1, <1>7, <1>8, <1>10, <1>11, <1>12, <1>13, <1>14 DEF IndexAll, IndexInv

\* The inductive invariant: chunks keep their places in the tar stream while they
\* are out with the workers, the frames recorded so far and the envelope being
\* filled follow one another, and every envelope on its way or written holds the
\* frames recorded for it.
THEOREM IndexAlways == Spec => []IndexAll
  <1>1. CompletionInv /\ IndexAll /\ [Next]_vars /\ CompletionInv' => IndexAll'
    <2> SUFFICES ASSUME IndexAll, [Next]_vars, CompletionInv'
                 PROVE  IndexAll'
      OBVIOUS
    <2>1. /\ TypeOK /\ WriteOrder /\ KnowsFrames /\ KnowsEnvelopes /\ FramesOnce
          /\ ReadingInPlace /\ ChunksCut /\ SpansAbut /\ FramesRecorded
          /\ Filling /\ Plaintexts /\ SealedForNext
          /\ TilesEnvelopes(frames, payload_objects)
          /\ PackedGreedily(Options, frames, payload_objects)
          /\ DescribesBlocks(frames, payload_objects, emitted)
          /\ LeavesCollected /\ AllWritten
      BY DEF IndexAll, IndexInv, CompletionInv
    <2>2. TypeOK' /\ WriteOrder'
      BY DEF CompletionInv
    <2>3. ReadingInPlace'
      BY <2>1, <2>2, ReadingStep
    <2>4. ChunksCut'
      BY <2>1, <2>2, <2>3, ChunksStep
    <2>5. SpansAbut'
      BY <2>1, <2>2, SpansStep
    <2>6. FramesRecorded'
      BY <2>1, <2>2, RecordedStep
    <2>7. Filling'
      BY <2>1, <2>2, FillingStep
    <2>8. Plaintexts'
      BY <2>1, <2>2, PlaintextsStep
    <2>9. SealedForNext'
      BY <2>1, <2>2, SealedForNextStep
    <2>10. TilesEnvelopes(frames, payload_objects)'
      BY <2>1, <2>2, TilesStep DEF TilesEnvelopes
    <2>11. PackedGreedily(Options, frames, payload_objects)'
      BY <2>1, <2>2, GreedyStep DEF PackedGreedily
    <2>12. DescribesBlocks(frames, payload_objects, emitted)'
      BY <2>1, <2>2, DescribesStep DEF DescribesBlocks
    <2>13. LeavesCollected'
      BY <2>1, <2>2, LeavesStep
    <2>14. AllWritten'
      BY <2>1, <2>2, AllWrittenStep
    <2> QED  BY <2>3, <2>4, <2>5, <2>6, <2>7, <2>8, <2>9, <2>10, <2>11, <2>12, <2>13, <2>14
             DEF IndexAll, IndexInv
  <1> QED  BY <1>1, InitIndex, CompletionAlways, PTL DEF Spec

\* The frames tile the tar stream, each inside its member.
LEMMA StreamTiled ==
    ASSUME TypeOK, SpansAbut, FramesRecorded
    PROVE  TilesStream(frames, tar_members)
  <1>0. frames \in Seq(PayloadFrameRecords) /\ Len(frames) \in Nat
        /\ DOMAIN frames = 1 .. Len(frames)
    BY LenProperties DEF TypeOK
  <1>1. ASSUME NEW i \in 1 .. Len(frames)
        PROVE  /\ frame_span(frames[i]) \in Spans
               /\ frame_span(frames[i]).number = i - 1
               /\ frame_span(frames[i]).first = frames[i].tar_offset
               /\ frame_span(frames[i]).end = frames[i].tar_offset + frames[i].size
    <2>1. frames[i].frame = i - 1
      BY DEF FramesRecorded
    <2>2. frame_span(frames[i]) \in Spans
      BY DEF Spans
    <2> QED  BY <2>1, <2>2 DEF frame_span
  <1>2. ASSUME NEW i \in 1 .. Len(frames)
        PROVE  frames[i].tar_offset = IF i = 1 THEN 0
                                      ELSE frames[i - 1].tar_offset + frames[i - 1].size
    <2>1. CASE i = 1
      BY <1>1, <2>1 DEF SpansAbut
    <2>2. CASE i # 1
      <3>1. i - 1 \in 1 .. Len(frames) /\ i - 1 = ((i - 1) - 1) + 1
        BY <1>0, <2>2
      <3>2. frame_span(frames[i]).first = frame_span(frames[i - 1]).end
        <4> DEFINE x == frame_span(frames[i - 1])
                   y == frame_span(frames[i])
        <4>1. x \in Spans /\ y \in Spans /\ y.number = i - 1 /\ x.number = (i - 1) - 1
          BY <1>1, <3>1
        <4> HIDE DEF x, y
        <4>2. y.number = x.number + 1
          BY <3>1, <4>1
        <4>3. y.first = x.end
          BY <4>1, <4>2 DEF SpansAbut
        <4> QED  BY <4>3 DEF x, y
      <3> QED  BY <1>1, <2>2, <3>1, <3>2
    <2> QED  BY <2>1, <2>2
  <1>3. \A i \in 1 .. Len(frames) : frames[i].frame = i - 1 /\ InMember(tar_members, frames[i])
    BY DEF FramesRecorded
  <1> QED  BY <1>0, <1>2, <1>3 DEF TilesStream, InMember

\* The index describes what was encrypted, whatever order the frames were
\* compressed and the envelopes encrypted in.
THEOREM IndexAlwaysDescribes == Spec => []IndexDescribesBlocks
  <1>1. IndexAll => IndexDescribesBlocks
    BY StreamTiled DEF IndexAll, IndexInv, CompletionInv, IndexDescribesBlocks
  <1> QED  BY <1>1, IndexAlways, PTL

\* Every volume got the blocks its stripe asks for.
LEMMA VolumesFilled ==
    ASSUME TypeOK, WriteOrder, NEW v \in 0 .. Options.stripe_width - 1
    PROVE  Cardinality({i \in DOMAIN emitted : volume_of(Options, emitted[i].block) = v})
             = striped_block_count(Len(emitted), Options.stripe_width, v)
  <1>1. Options.stripe_width \in Nat \ {0}
    BY OptionsAssumption DEF ValidOptions, ValidRequest, OptionFields
  <1>2. Len(emitted) \in Nat /\ DOMAIN emitted = 1 .. Len(emitted)
    BY LenProperties DEF TypeOK
  <1>3. \A i \in 1 .. Len(emitted) : emitted[i].block = i - 1
    BY DEF WriteOrder, BlocksInOrder, InBlockOrder
  <1>4. {i \in DOMAIN emitted : volume_of(Options, emitted[i].block) = v}
          = {i \in 1 .. Len(emitted) : (i - 1) % Options.stripe_width = v}
    BY <1>2, <1>3 DEF volume_of
  <1> QED  BY <1>1, <1>2, <1>4, StripeCount

\* The last frame ends where the tar stream does.
LEMMA StreamEnds ==
    ASSUME TypeOK, ReadingInPlace, SpansAbut, FramesRecorded, pc = "ok",
           next_frame.result = next_frame.job, tar_members # <<>>
    PROVE  /\ tar_total_size = last_member.start + last_member.group
           /\ frames[Len(frames)].tar_offset + frames[Len(frames)].size = tar_total_size
  <1>0. /\ Len(frames) \in Nat /\ tar_total_size \in Nat /\ next_frame.job \in Nat
        /\ last_member.start \in Nat /\ last_member.group \in Nat
    <2>1. tar_members \in Seq(TarMembers) /\ Len(tar_members) \in 1 .. Len(tar_members)
      <3>1. tar_members \in Seq(TarMembers)
        BY DEF TypeOK
      <3> QED  BY <3>1, TailOf
    <2>2. last_member \in TarMembers
      BY <2>1, ElementOfSeq DEF last_member
    <2> QED  BY <2>2, LenProperties DEF TypeOK, TarMembers
  <1>1. ~in_member /\ ~chunk_pending /\ ~gave_up
    BY DEF in_member, chunk_pending, gave_up, receiving, appending, flushing
  <1>2. tar_total_size = last_member.start + last_member.group /\ last_member.group > 0
    BY <1>1 DEF ReadingInPlace
  <1>3. next_frame.job # 0
    <2>1. next_frame.job = 0 => tar_total_size = 0
      BY DEF ReadingInPlace
    <2> QED  BY <1>0, <1>2, <2>1
  <1>4. Len(frames) = next_frame.job /\ Len(frames) \in 1 .. Len(frames)
    BY <1>0, <1>3 DEF FramesRecorded
  <1> DEFINE f == frames[Len(frames)]
             x == frame_span(f)
  <1>5. x \in Spans
    BY <1>4 DEF Spans
  <1>6. x.number = next_frame.job - 1 /\ x.end = f.tar_offset + f.size
    <2>1. f.frame = Len(frames) - 1
      BY <1>4 DEF FramesRecorded
    <2> QED  BY <1>4, <2>1 DEF frame_span
  <1> HIDE DEF x, f
  <1>7. x.end = cursor
    BY <1>1, <1>5, <1>6 DEF SpansAbut
  <1>8. cursor = tar_total_size
    BY <1>0, <1>1 DEF cursor
  <1> QED  BY <1>2, <1>6, <1>7, <1>8 DEF f

\* A success leaves nothing out: every member was read to its end and every
\* chunk, block and leaf hash is there.
THEOREM SuccessAlwaysComplete == Spec => []SuccessIsComplete
  <1>1. IndexAll => SuccessIsComplete
    <2> SUFFICES ASSUME IndexAll, pc = "ok"
                 PROVE  SuccessIsComplete
      BY DEF SuccessIsComplete
    <2>1. /\ TypeOK /\ WriteOrder /\ Ended /\ ReadingInPlace /\ SpansAbut /\ FramesRecorded
          /\ LeavesCollected /\ AllWritten
      BY DEF IndexAll, IndexInv, CompletionInv
    <2>2. faults = {} /\ next_frame.result = next_frame.job
      BY <2>1 DEF Ended
    <2>3. Len(frames) = next_frame.job
      BY <2>1, <2>2 DEF FramesRecorded
    <2>4. Len(emitted) = next_block
      BY <2>1 DEF AllWritten
    <2>5. \A v \in 0 .. Options.stripe_width - 1 :
             Cardinality({i \in DOMAIN emitted : volume_of(Options, emitted[i].block) = v})
               = striped_block_count(next_block, Options.stripe_width, v)
      BY <2>1, <2>4, VolumesFilled
    <2>6. tar_members # <<>> =>
             LET m == tar_members[Len(tar_members)]
                 f == frames[Len(frames)]
             IN  /\ tar_total_size = m.start + m.group
                 /\ f.tar_offset + f.size = tar_total_size
      BY <2>1, <2>2, StreamEnds DEF last_member
    <2> QED  BY <2>1, <2>2, <2>3, <2>4, <2>5, <2>6 DEF SuccessIsComplete, LeavesCollected
  <1> QED  BY <1>1, IndexAlways, PTL
=============================================================================
