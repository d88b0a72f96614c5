--------------------------- MODULE ParallelWriter ---------------------------
(***************************************************************************)
(* The ordered parallel archive writer (writer/parallel.rs).               *)
(*                                                                         *)
(* The main thread cuts the tar members into chunks and sends them, over a *)
(* bounded channel, to compression workers.  Results come back in any      *)
(* order; the main thread puts them back in frame order, packs them into   *)
(* envelopes, assigns each envelope its block extent and sends it, over a  *)
(* second bounded channel, to encryption workers.  Their results come back *)
(* in any order too; the main thread puts them back in envelope order and  *)
(* writes the blocks.  Everything the main thread does between two channel *)
(* operations is invisible to the workers and is one step here.            *)
(*                                                                         *)
(* Bytes are abstracted to lengths.  A compressed frame is its index and   *)
(* its length, the plaintext of an envelope is the sequence of the frames  *)
(* in it, and an encrypted block is its index, its kind and the envelope   *)
(* it was cut from.                                                        *)
(***************************************************************************)
EXTENDS PayloadFrames, FiniteSets

CONSTANTS
    FrameWorkers,       \* the worker_count threads that compress
    EnvelopeWorkers,    \* the worker_count threads that encrypt
    FrameJobsPerWorker,    \* capacity of the frame job channel per worker: 4
    EnvelopeJobsPerWorker, \* capacity of the envelope job channel per worker: 2
    GroupSizes,         \* sizes a tar member group may have
    FrameLens,          \* lengths a compressed frame may have
    MaxMembers,         \* bound: members per archive
    Options,            \* the planned WriterOptions, a record of ObjectPlan
    CollectLeaves,      \* whether root authentication collects leaf hashes
    Faults              \* the kinds of fault that may happen

FaultKinds == {"read", "sink", "frame_error", "frame_panic",
               "envelope_error", "envelope_panic"}

ASSUME WorkersAssumption ==
    /\ IsFiniteSet(FrameWorkers) /\ FrameWorkers # {}
    /\ IsFiniteSet(EnvelopeWorkers) /\ EnvelopeWorkers # {}
ASSUME BufferAssumption ==
    /\ FrameJobsPerWorker \in Nat \ {0}
    /\ EnvelopeJobsPerWorker \in Nat \ {0}
ASSUME InputAssumption ==
    /\ GroupSizes \subseteq Nat \ {0}
    /\ FrameLens \subseteq Nat \ {0}
    /\ MaxMembers \in Nat
ASSUME OptionsAssumption == ValidOptions(Options)
ASSUME FlagAssumption ==
    /\ CollectLeaves \in BOOLEAN
    /\ Faults \subseteq FaultKinds

VARIABLES
    pc,              \* where the main thread is
    frame_return,    \* where receive_ordered_frame_result returns to
    flush_return,    \* where flush_ordered_parallel_envelope returns to
    emit_return,     \* where receive_ordered_envelope_result returns to
    input,           \* the member being read: start, group size, offset
    frame_job,       \* the frame job in the main thread's hand
    envelope_job,    \* the envelope job in the main thread's hand
    tar_members,     \* OrderedParallelState.tar_members
    tar_total_size,  \* OrderedParallelState.tar_total_size
    frames,          \* OrderedParallelState.frames
    next_frame,      \* next_frame_job_index and next_frame_result_index
    frame_buffer,    \* frame results that came back early
    envelope,        \* the envelope being filled
    payload_objects, \* OrderedParallelState.payload_objects
    next_block,      \* next_payload_block_index
    next_envelope,   \* next_envelope_result_index
    envelope_buffer, \* envelope results that came back early
    frame_jobs, frame_results, envelope_jobs, envelope_results,  \* channels
    senders,         \* the job senders the main thread still holds
    frame_worker,    \* what each compression worker is doing
    envelope_worker, \* what each encryption worker is doing
    emitted,         \* the block records written to the volumes, in order
    leaves,          \* data_leaf_hashes: the block indices hashed, in order
    faults           \* the faults that happened

returns == <<frame_return, flush_return, emit_return>>
reading == <<input, frame_job, tar_members, tar_total_size>>
packing == <<frames, next_frame, frame_buffer, envelope>>
sealing == <<envelope_job, payload_objects, next_block>>
sink    == <<next_envelope, envelope_buffer, emitted, leaves>>
frame_side    == <<frame_jobs, frame_results, frame_worker>>
envelope_side == <<envelope_jobs, envelope_results, envelope_worker>>
ordered  == <<reading, packing, sealing, sink>>
channels == <<frame_side, envelope_side>>
vars == <<pc, returns, ordered, channels, senders, faults>>

\* The capacities grow with the number of workers, and that matters: a main
\* thread that found a channel full waits for a result, and every worker but
\* one may panic and take a queued job with it.
frame_job_buffer_of_one == 1  \* mutant: a capacity of its own
frame_job_buffer    == FrameJobsPerWorker * Cardinality(FrameWorkers)
envelope_job_buffer == EnvelopeJobsPerWorker * Cardinality(EnvelopeWorkers)

-----------------------------------------------------------------------------
(***************************************************************************)
(* Data                                                                    *)
(***************************************************************************)

\* TarMember: where the member's group starts in the tar stream, and its size.
TarMembers == [start : Nat, group : Nat]

\* OrderedFrameJob: chunk number frame, cut from member at offset.
FrameJobs == [frame : Nat, member : Nat, start : Nat, offset : Nat,
              group : Nat, size : Nat]

\* OrderedFrameResult: the job and the length of the compressed frame.
FrameResults == [job : FrameJobs, len : Nat]

\* OrderedEnvelopeJob, and the envelope result, which are the same envelope
\* before and after encryption.
EnvelopeJobs == [index : Nat, plaintext : Seq(Nat), extent : Extents]

\* What encrypt_object or serialize_zero_parity_encrypted_object makes of a job.
records(job) == block_records(job.index, job.plaintext, job.extent)

\* The messages of the result channels.
FrameMessages    == [ok : BOOLEAN, value : FrameResults]
EnvelopeMessages == [ok : BOOLEAN, value : EnvelopeJobs]
Ok(value)  == [ok |-> TRUE, value |-> value]
Failed(value) == [ok |-> FALSE, value |-> value]

NoInput == [start |-> 0, group |-> 0, offset |-> 0]

\* No job in hand.
NoFrameJob == [frame |-> 0, member |-> 0, start |-> 0, offset |-> 0,
               group |-> 0, size |-> 0]
NoEnvelopeJob == [index |-> 0, plaintext |-> <<>>,
                  extent |-> [first |-> 0, data |-> 0, parity |-> 0]]

\* A worker is idle, busy with a job, or gone.
WorkerStates == {"idle", "busy", "stopped", "panicked"}
Gone == {"stopped", "panicked"}
Worker(state, job) == [state |-> state, job |-> job]
frames_gone    == \A w \in FrameWorkers : frame_worker[w].state \in Gone
envelopes_gone == \A w \in EnvelopeWorkers : envelope_worker[w].state \in Gone

\* The scope's closure has returned, and with it the main thread's channel
\* ends are dropped.
Terminal == {"ok", "err", "panic"}
Returned == Terminal \cup {"unwind"}

-----------------------------------------------------------------------------
Init ==
    /\ pc = "member"
    /\ frame_return = "drain" /\ flush_return = "append" /\ emit_return = "drain"
    /\ input = NoInput /\ frame_job = NoFrameJob
    /\ tar_members = <<>> /\ tar_total_size = 0
    /\ frames = <<>> /\ frame_buffer = {}
    /\ next_frame = [job |-> 0, result |-> 0]
    /\ envelope = EmptyEnvelope(0)
    /\ envelope_job = NoEnvelopeJob
    /\ payload_objects = <<>> /\ next_block = 0
    /\ next_envelope = 0 /\ envelope_buffer = {}
    /\ frame_jobs = <<>> /\ frame_results = <<>>
    /\ envelope_jobs = <<>> /\ envelope_results = <<>>
    /\ senders = {"frame", "envelope"}
    /\ frame_worker = [w \in FrameWorkers |-> Worker("idle", NoFrameJob)]
    /\ envelope_worker = [w \in EnvelopeWorkers |-> Worker("idle", NoEnvelopeJob)]
    /\ emitted = <<>> /\ leaves = <<>>
    /\ faults = {}
-----------------------------------------------------------------------------
(***************************************************************************)
(* Error return.  The closure returns Err, dropping its channel ends; the  *)
(* thread scope then waits for every worker.                               *)
(***************************************************************************)
Unwind == pc' = "unwind" /\ senders' = {}

Fault(kind) == kind \in Faults /\ faults' = faults \cup {kind}

-----------------------------------------------------------------------------
(***************************************************************************)
(* Reading members: write_prebuilt_member                                  *)
(***************************************************************************)

\* Mutant: the TarMember is not recorded before its frames.
BeginMember_unrecorded ==
    /\ pc = "member"
    /\ \E size \in GroupSizes :
          input' = [start |-> tar_total_size, group |-> size, offset |-> 0]
    /\ pc' = "read"
    /\ UNCHANGED <<returns, frame_job, tar_members, tar_total_size, packing,
                   sealing, sink, channels, senders, faults>>

\* drive_members starts another member: its TarMember is recorded first.
BeginMember ==
    /\ pc = "member"
    /\ Len(tar_members) < MaxMembers
    /\ \E size \in GroupSizes :
          /\ input' = [start |-> tar_total_size, group |-> size, offset |-> 0]
          /\ tar_members' = Append(tar_members,
                                   [start |-> tar_total_size, group |-> size])
    /\ pc' = "read"
    /\ UNCHANGED <<returns, frame_job, tar_total_size, packing, sealing, sink,
                   channels, senders, faults>>

\* drive_members is done: the frame job sender is dropped.
EndMembers ==
    /\ pc = "member"
    /\ pc' = "finish_frames"
    /\ senders' = senders \ {"frame"}
    /\ UNCHANGED <<returns, ordered, channels, faults>>

\* One chunk is read and becomes the frame job in hand.
ReadChunk ==
    LET remaining == input.group - input.offset
        size == IF remaining < Options.chunk_size THEN remaining ELSE Options.chunk_size
    IN  /\ pc = "read"
        /\ input.offset < input.group
        /\ frame_job' = [frame |-> next_frame.job, member |-> Len(tar_members) - 1,
                         start |-> input.start, offset |-> input.offset,
                         group |-> input.group, size |-> size]
        /\ next_frame' = [next_frame EXCEPT !.job = @ + 1]
        /\ pc' = "send"
        /\ UNCHANGED <<returns, input, tar_members, tar_total_size, frames,
                       frame_buffer, envelope, sealing, sink, channels,
                       senders, faults>>

\* The source fails, or ends before its declared size.
ReadFails ==
    /\ pc = "read"
    /\ input.offset < input.group
    /\ Fault("read")
    /\ Unwind
    /\ UNCHANGED <<returns, ordered, channels>>

MemberDone ==
    /\ pc = "read"
    /\ input.offset = input.group
    /\ pc' = "member"
    /\ UNCHANGED <<returns, ordered, channels, senders, faults>>

-----------------------------------------------------------------------------
(***************************************************************************)
(* Frame jobs and their results.  The receivers of the job channels are    *)
(* shared with the main thread, so try_send never finds them disconnected. *)
(***************************************************************************)

\* send_ordered_frame_job: the channel has room.
SendFrameJob ==
    /\ pc = "send"
    /\ Len(frame_jobs) < frame_job_buffer
    /\ frame_jobs' = Append(frame_jobs, frame_job)
    /\ pc' = "receive" /\ frame_return' = "drain"
    /\ UNCHANGED <<flush_return, emit_return, ordered, frame_results,
                   frame_worker, envelope_side, senders, faults>>

\* send_ordered_frame_job: the channel is full, so wait for a result first.
FrameJobsFull ==
    /\ pc = "send"
    /\ Len(frame_jobs) >= frame_job_buffer
    /\ pc' = "receive" /\ frame_return' = "send"
    /\ UNCHANGED <<flush_return, emit_return, ordered, channels, senders, faults>>

\* receive_ordered_frame_result takes a result and buffers it.
ReceiveFrame ==
    /\ pc = "receive"
    /\ frame_results # <<>>
    /\ Head(frame_results).ok
    /\ frame_buffer' = frame_buffer \cup {Head(frame_results).value}
    /\ frame_results' = Tail(frame_results)
    /\ pc' = "append"
    /\ UNCHANGED <<returns, reading, frames, next_frame, envelope, sealing,
                   sink, frame_jobs, frame_worker, envelope_side, senders,
                   faults>>

\* It takes a worker's error, or waits on a channel all workers have left.
ReceiveFrameFails ==
    /\ pc = "receive"
    /\ \/ /\ frame_results # <<>>
          /\ ~Head(frame_results).ok
          /\ frame_results' = Tail(frame_results)
       \/ /\ frame_results = <<>>
          /\ frame_return # "drain"
          /\ frames_gone
          /\ UNCHANGED frame_results
    /\ Unwind
    /\ UNCHANGED <<returns, ordered, frame_jobs, frame_worker, envelope_side,
                   faults>>

\* drain_ordered_frame_results finds nothing more: the chunk is accounted for
\* and write_prebuilt_member goes on.
DrainedFrames ==
    /\ pc = "receive" /\ frame_return = "drain"
    /\ frame_results = <<>>
    /\ input' = [input EXCEPT !.offset = @ + frame_job.size]
    /\ tar_total_size' = tar_total_size + frame_job.size
    /\ frame_job' = NoFrameJob
    /\ pc' = "read"
    /\ UNCHANGED <<returns, tar_members, packing, sealing, sink, channels,
                   senders, faults>>

-----------------------------------------------------------------------------
(***************************************************************************)
(* Packing frames into envelopes, in frame order                           *)
(***************************************************************************)

next_results_any == frame_buffer  \* mutant: frames are packed as they come back

next_results == {r \in frame_buffer : r.job.frame = next_frame.result}

needs_flush(len) == payload_envelope_needs_flush(Options, envelope, len)

\* append_ordered_frame_result
AppendFrame ==
    /\ pc = "append"
    /\ \E r \in next_results :
          /\ ~needs_flush(r.len)
          /\ envelope.plaintext # <<>> \/ payload_object_can_fit(Options, r.len)
          /\ frames' = Append(frames,
                              payload_frame_metadata(Len(frames), envelope, r.job, r.len))
          /\ envelope' = extend_envelope(envelope, r.job.frame, r.len)
          /\ frame_buffer' = frame_buffer \ {r}
          /\ next_frame' = [next_frame EXCEPT !.result = @ + 1]
    /\ UNCHANGED <<pc, returns, reading, sealing, sink, channels, senders,
                   faults>>

\* append_ordered_frame_result: a frame too large for an envelope of its own.
FrameTooLarge ==
    /\ pc = "append"
    /\ \E r \in next_results :
          /\ envelope.plaintext = <<>>
          /\ ~payload_object_can_fit(Options, r.len)
    /\ Unwind
    /\ UNCHANGED <<returns, ordered, channels, faults>>

\* The next frame is not there yet: receive_ordered_frame_result returns.
AppendDone ==
    /\ pc = "append"
    /\ next_results = {}
    /\ pc' = IF frame_return = "drain" THEN "receive" ELSE frame_return
    /\ UNCHANGED <<returns, ordered, channels, senders, faults>>

-----------------------------------------------------------------------------
(***************************************************************************)
(* Sealing an envelope: flush_ordered_parallel_envelope                    *)
(***************************************************************************)

\* Mutant: the next object is planned over this one.
Seal_in_place(return) ==
    LET object == payload_object(Options, next_block, envelope)
    IN  /\ envelope.plaintext # <<>>
        /\ envelope_job' = [index |-> envelope.index, plaintext |-> envelope.plaintext,
                            extent |-> object.extent]
        /\ payload_objects' = Append(payload_objects, object)
        /\ envelope' = EmptyEnvelope(envelope.index + 1)
        /\ pc' = "seal" /\ flush_return' = return
        /\ UNCHANGED <<frame_return, emit_return, reading, frames, next_frame,
                       frame_buffer, next_block, sink, channels, senders, faults>>

\* The envelope gets its extent and becomes the job in hand.  Its plan cannot
\* fail: what is in the envelope fits an object (EnvelopeFits).
Seal(return) ==
    LET object == payload_object(Options, next_block, envelope)
    IN  /\ envelope.plaintext # <<>>
        /\ envelope_job' = [index |-> envelope.index, plaintext |-> envelope.plaintext,
                            extent |-> object.extent]
        /\ payload_objects' = Append(payload_objects, object)
        /\ next_block' = next_block_index(object.extent)
        /\ envelope' = EmptyEnvelope(envelope.index + 1)
        /\ pc' = "seal" /\ flush_return' = return
        /\ UNCHANGED <<frame_return, emit_return, reading, frames, next_frame,
                       frame_buffer, sink, channels, senders, faults>>

\* The next frame does not fit the envelope any more.
SealForAppend ==
    /\ pc = "append"
    /\ \E r \in next_results : needs_flush(r.len)
    /\ Seal("append")

SendEnvelopeJob ==
    /\ pc = "seal"
    /\ Len(envelope_jobs) < envelope_job_buffer
    /\ envelope_jobs' = Append(envelope_jobs, envelope_job)
    /\ envelope_job' = NoEnvelopeJob
    /\ pc' = "collect" /\ emit_return' = "drain"
    /\ UNCHANGED <<frame_return, flush_return, reading, packing,
                   payload_objects, next_block, sink, frame_side,
                   envelope_results, envelope_worker, senders, faults>>

\* Mutant: the job a full channel gave back is dropped.
EnvelopeJobsFull_drops_job ==
    /\ pc = "seal"
    /\ Len(envelope_jobs) >= envelope_job_buffer
    /\ pc' = "collect" /\ emit_return' = "drain"
    /\ UNCHANGED <<frame_return, flush_return, ordered, channels, senders, faults>>

EnvelopeJobsFull ==
    /\ pc = "seal"
    /\ Len(envelope_jobs) >= envelope_job_buffer
    /\ pc' = "collect" /\ emit_return' = "seal"
    /\ UNCHANGED <<frame_return, flush_return, ordered, channels, senders, faults>>

\* receive_ordered_envelope_result
ReceiveEnvelope ==
    /\ pc = "collect"
    /\ envelope_results # <<>>
    /\ Head(envelope_results).ok
    /\ envelope_buffer' = envelope_buffer \cup {Head(envelope_results).value}
    /\ envelope_results' = Tail(envelope_results)
    /\ pc' = "emit"
    /\ UNCHANGED <<returns, reading, packing, sealing, next_envelope, emitted,
                   leaves, frame_side, envelope_jobs, envelope_worker,
                   senders, faults>>

ReceiveEnvelopeFails ==
    /\ pc = "collect"
    /\ \/ /\ envelope_results # <<>>
          /\ ~Head(envelope_results).ok
          /\ envelope_results' = Tail(envelope_results)
       \/ /\ envelope_results = <<>>
          /\ emit_return # "drain"
          /\ envelopes_gone
          /\ UNCHANGED envelope_results
    /\ Unwind
    /\ UNCHANGED <<returns, ordered, frame_side, envelope_jobs, envelope_worker,
                   faults>>

\* drain_ordered_envelope_results finds nothing more: the flush returns.
DrainedEnvelopes ==
    /\ pc = "collect" /\ emit_return = "drain"
    /\ envelope_results = <<>>
    /\ pc' = flush_return
    /\ UNCHANGED <<returns, ordered, channels, senders, faults>>

-----------------------------------------------------------------------------
(***************************************************************************)
(* Writing the blocks, in envelope order: emit_ordered_envelope_result     *)
(***************************************************************************)

next_sealed_any == envelope_buffer  \* mutant: envelopes are written as they come back

next_sealed == {e \in envelope_buffer : e.index = next_envelope}

\* emit_block_record hashes the data blocks among the first n blocks of an
\* envelope.  A zero-parity envelope without leaf collection is written from
\* serialized records, which collect no leaf hash.
data_leaves(job, n) ==
    LET hashed == IF n < job.extent.data THEN n ELSE job.extent.data
    IN  IF CollectLeaves THEN [i \in 1 .. hashed |-> job.extent.first + i - 1]
        ELSE <<>>

EmitEnvelope ==
    /\ pc = "emit"
    /\ \E e \in next_sealed :
          /\ emitted' = emitted \o records(e)
          /\ leaves' = leaves \o data_leaves(e, Len(records(e)))
          /\ envelope_buffer' = envelope_buffer \ {e}
          /\ next_envelope' = next_envelope + 1
    /\ UNCHANGED <<pc, returns, reading, packing, sealing, channels, senders,
                   faults>>

\* A write fails after some of the envelope's blocks.
SinkFails ==
    /\ pc = "emit"
    /\ \E e \in next_sealed :
       \E n \in 0 .. Len(records(e)) - 1 :
          /\ emitted' = emitted \o SubSeq(records(e), 1, n)
          /\ leaves' = leaves \o data_leaves(e, n)
          /\ envelope_buffer' = envelope_buffer \ {e}
    /\ Fault("sink")
    /\ Unwind
    /\ UNCHANGED <<returns, reading, packing, sealing, next_envelope, channels>>

EmitDone ==
    /\ pc = "emit"
    /\ next_sealed = {}
    /\ pc' = IF emit_return = "drain" THEN "collect" ELSE emit_return
    /\ UNCHANGED <<returns, ordered, channels, senders, faults>>

-----------------------------------------------------------------------------
(***************************************************************************)
(* Finishing                                                               *)
(***************************************************************************)

AwaitFrames ==
    /\ pc = "finish_frames"
    /\ next_frame.result < next_frame.job
    /\ pc' = "receive" /\ frame_return' = "finish_frames"
    /\ UNCHANGED <<flush_return, emit_return, ordered, channels, senders, faults>>

\* The last, partly filled envelope.
FinalSeal ==
    /\ pc = "finish_frames"
    /\ next_frame.result = next_frame.job
    /\ Seal("finish_envelopes")

\* There is none: an archive with no members.
NothingToSeal ==
    /\ pc = "finish_frames"
    /\ next_frame.result = next_frame.job
    /\ envelope.plaintext = <<>>
    /\ pc' = "finish_envelopes"
    /\ UNCHANGED <<returns, ordered, channels, senders, faults>>

\* Mutant: one result too many is awaited.
AwaitEnvelopes_one_more ==
    /\ pc = "finish_envelopes"
    /\ next_envelope <= envelope.index
    /\ senders' = senders \ {"envelope"}
    /\ pc' = "collect" /\ emit_return' = "finish_envelopes"
    /\ UNCHANGED <<frame_return, flush_return, ordered, channels, faults>>

\* The envelope job sender is dropped before the remaining envelopes are
\* awaited.
AwaitEnvelopes ==
    /\ pc = "finish_envelopes"
    /\ next_envelope < envelope.index
    /\ senders' = senders \ {"envelope"}
    /\ pc' = "collect" /\ emit_return' = "finish_envelopes"
    /\ UNCHANGED <<frame_return, flush_return, ordered, channels, faults>>

\* Mutant: the results that are still out are not awaited.
EnvelopesDone_at_once ==
    /\ pc = "finish_envelopes"
    /\ senders' = senders \ {"envelope"}
    /\ pc' = "join"
    /\ UNCHANGED <<returns, ordered, channels, faults>>

EnvelopesDone ==
    /\ pc = "finish_envelopes"
    /\ next_envelope = envelope.index
    /\ senders' = senders \ {"envelope"}
    /\ pc' = "join"
    /\ UNCHANGED <<returns, ordered, channels, faults>>

\* The workers are joined, and the closure returns Ok.  A worker that panicked
\* would make join fail (NoPanicAtJoin).
Join ==
    /\ pc = "join"
    /\ frames_gone /\ envelopes_gone
    /\ pc' = IF \E w \in FrameWorkers : frame_worker[w].state = "panicked" THEN "err"
             ELSE IF \E w \in EnvelopeWorkers : envelope_worker[w].state = "panicked"
                  THEN "err" ELSE "ok"
    /\ UNCHANGED <<returns, ordered, channels, senders, faults>>

\* After an error return the thread scope waits for every worker, and panics
\* itself if one it did not join has panicked.
ScopeEnds ==
    /\ pc = "unwind"
    /\ frames_gone /\ envelopes_gone
    /\ pc' = IF \/ \E w \in FrameWorkers : frame_worker[w].state = "panicked"
                \/ \E w \in EnvelopeWorkers : envelope_worker[w].state = "panicked"
             THEN "panic" ELSE "err"
    /\ UNCHANGED <<returns, ordered, channels, senders, faults>>

-----------------------------------------------------------------------------
(***************************************************************************)
(* Workers.  Taking the receiver's lock and receiving are one step: which  *)
(* idle worker gets a job is arbitrary either way.  A worker that cannot   *)
(* deliver its result, or has delivered an error, stops.                   *)
(***************************************************************************)

TakeFrameJob(w) ==
    /\ frame_worker[w].state = "idle"
    /\ frame_jobs # <<>>
    /\ frame_worker' = [frame_worker EXCEPT ![w] = Worker("busy", Head(frame_jobs))]
    /\ frame_jobs' = Tail(frame_jobs)
    /\ UNCHANGED <<pc, returns, ordered, frame_results, envelope_side, senders,
                   faults>>

CompressFrame(w) ==
    /\ frame_worker[w].state = "busy"
    /\ \E len \in FrameLens :
          IF pc \in Returned
          THEN /\ frame_worker' = [frame_worker EXCEPT ![w] = Worker("stopped", NoFrameJob)]
               /\ UNCHANGED frame_results
          ELSE /\ frame_worker' = [frame_worker EXCEPT ![w] = Worker("idle", NoFrameJob)]
               /\ frame_results' = Append(frame_results,
                                     Ok([job |-> frame_worker[w].job, len |-> len]))
    /\ UNCHANGED <<pc, returns, ordered, frame_jobs, envelope_side, senders,
                   faults>>

CompressFails(w) ==
    /\ frame_worker[w].state = "busy"
    /\ Fault("frame_error")
    /\ frame_worker' = [frame_worker EXCEPT ![w] = Worker("stopped", NoFrameJob)]
    /\ frame_results' = IF pc \in Returned THEN frame_results
                        ELSE Append(frame_results,
                               Failed([job |-> frame_worker[w].job, len |-> 0]))
    /\ UNCHANGED <<pc, returns, ordered, frame_jobs, envelope_side, senders>>

FrameWorkerPanics(w) ==
    /\ frame_worker[w].state = "busy"
    /\ Fault("frame_panic")
    /\ frame_worker' = [frame_worker EXCEPT ![w] = Worker("panicked", NoFrameJob)]
    /\ UNCHANGED <<pc, returns, ordered, frame_jobs, frame_results,
                   envelope_side, senders>>

FrameWorkerStops(w) ==
    /\ frame_worker[w].state = "idle"
    /\ frame_jobs = <<>> /\ "frame" \notin senders
    /\ frame_worker' = [frame_worker EXCEPT ![w] = Worker("stopped", NoFrameJob)]
    /\ UNCHANGED <<pc, returns, ordered, frame_jobs, frame_results,
                   envelope_side, senders, faults>>

TakeEnvelopeJob(w) ==
    /\ envelope_worker[w].state = "idle"
    /\ envelope_jobs # <<>>
    /\ envelope_worker' =
         [envelope_worker EXCEPT ![w] = Worker("busy", Head(envelope_jobs))]
    /\ envelope_jobs' = Tail(envelope_jobs)
    /\ UNCHANGED <<pc, returns, ordered, frame_side, envelope_results, senders,
                   faults>>

EncryptEnvelope(w) ==
    /\ envelope_worker[w].state = "busy"
    /\ IF pc \in Returned
       THEN /\ envelope_worker' =
                 [envelope_worker EXCEPT ![w] = Worker("stopped", NoEnvelopeJob)]
            /\ UNCHANGED envelope_results
       ELSE /\ envelope_worker' =
                 [envelope_worker EXCEPT ![w] = Worker("idle", NoEnvelopeJob)]
            /\ envelope_results' = Append(envelope_results, Ok(envelope_worker[w].job))
    /\ UNCHANGED <<pc, returns, ordered, frame_side, envelope_jobs, senders,
                   faults>>

EncryptFails(w) ==
    /\ envelope_worker[w].state = "busy"
    /\ Fault("envelope_error")
    /\ envelope_worker' =
         [envelope_worker EXCEPT ![w] = Worker("stopped", NoEnvelopeJob)]
    /\ envelope_results' = IF pc \in Returned THEN envelope_results
                           ELSE Append(envelope_results, Failed(envelope_worker[w].job))
    /\ UNCHANGED <<pc, returns, ordered, frame_side, envelope_jobs, senders>>

EnvelopeWorkerPanics(w) ==
    /\ envelope_worker[w].state = "busy"
    /\ Fault("envelope_panic")
    /\ envelope_worker' =
         [envelope_worker EXCEPT ![w] = Worker("panicked", NoEnvelopeJob)]
    /\ UNCHANGED <<pc, returns, ordered, frame_side, envelope_jobs,
                   envelope_results, senders>>

EnvelopeWorkerStops(w) ==
    /\ envelope_worker[w].state = "idle"
    /\ envelope_jobs = <<>> /\ "envelope" \notin senders
    /\ envelope_worker' =
         [envelope_worker EXCEPT ![w] = Worker("stopped", NoEnvelopeJob)]
    /\ UNCHANGED <<pc, returns, ordered, frame_side, envelope_jobs,
                   envelope_results, senders, faults>>

-----------------------------------------------------------------------------
MainStep ==
    \/ BeginMember \/ EndMembers \/ ReadChunk \/ ReadFails \/ MemberDone
    \/ SendFrameJob \/ FrameJobsFull \/ ReceiveFrame \/ ReceiveFrameFails
    \/ DrainedFrames
    \/ AppendFrame \/ FrameTooLarge \/ AppendDone
    \/ SealForAppend \/ SendEnvelopeJob \/ EnvelopeJobsFull
    \/ ReceiveEnvelope \/ ReceiveEnvelopeFails \/ DrainedEnvelopes
    \/ EmitEnvelope \/ SinkFails \/ EmitDone
    \/ AwaitFrames \/ FinalSeal \/ NothingToSeal
    \/ AwaitEnvelopes \/ EnvelopesDone \/ Join \/ ScopeEnds

FrameWorkerStep(w) ==
    \/ TakeFrameJob(w) \/ CompressFrame(w) \/ CompressFails(w)
    \/ FrameWorkerPanics(w) \/ FrameWorkerStops(w)

EnvelopeWorkerStep(w) ==
    \/ TakeEnvelopeJob(w) \/ EncryptEnvelope(w) \/ EncryptFails(w)
    \/ EnvelopeWorkerPanics(w) \/ EnvelopeWorkerStops(w)

\* The writer has returned and nothing is left to happen.
Finished == pc \in Terminal /\ UNCHANGED vars

Next == \/ MainStep
        \/ \E w \in FrameWorkers : FrameWorkerStep(w)
        \/ \E w \in EnvelopeWorkers : EnvelopeWorkerStep(w)
        \/ Finished

Spec == Init /\ [][Next]_vars

\* Every thread keeps running: the operating system schedules each of them.
Fairness == /\ WF_vars(MainStep)
            /\ \A w \in FrameWorkers : WF_vars(FrameWorkerStep(w))
            /\ \A w \in EnvelopeWorkers : WF_vars(EnvelopeWorkerStep(w))

FairSpec == Spec /\ Fairness

-----------------------------------------------------------------------------
(***************************************************************************)
(* Properties                                                              *)
(***************************************************************************)

\* Every variable holds a value of its kind.
TypeOK ==
    /\ pc \in {"member", "read", "send", "receive", "append", "seal", "collect",
               "emit", "finish_frames", "finish_envelopes", "join"} \cup Returned
    /\ frame_return \in {"drain", "send", "finish_frames"}
    /\ flush_return \in {"append", "finish_envelopes"}
    /\ emit_return \in {"drain", "seal", "finish_envelopes"}
    /\ input \in [start : Nat, group : Nat, offset : Nat]
    /\ frame_job \in FrameJobs
    /\ envelope_job \in EnvelopeJobs
    /\ tar_members \in Seq(TarMembers)
    /\ tar_total_size \in Nat
    /\ frames \in Seq(PayloadFrameRecords)
    /\ next_frame \in [job : Nat, result : Nat]
    /\ frame_buffer \subseteq FrameResults
    /\ envelope \in [index : Nat, plaintext : Seq(Nat), len : Nat]
    /\ payload_objects \in Seq(PayloadObjects)
    /\ next_block \in Nat
    /\ next_envelope \in Nat
    /\ envelope_buffer \subseteq EnvelopeJobs
    /\ frame_jobs \in Seq(FrameJobs)
    /\ frame_results \in Seq(FrameMessages)
    /\ envelope_jobs \in Seq(EnvelopeJobs)
    /\ envelope_results \in Seq(EnvelopeMessages)
    /\ senders \subseteq {"frame", "envelope"}
    /\ frame_worker \in [FrameWorkers -> [state : WorkerStates, job : FrameJobs]]
    /\ envelope_worker \in [EnvelopeWorkers -> [state : WorkerStates, job : EnvelopeJobs]]
    /\ emitted \in Seq(BlockRecords)
    /\ leaves \in Seq(Nat)
    /\ faults \subseteq FaultKinds

\* What is in the envelope being filled can be sealed: plan_encrypted_object
\* never fails in flush_ordered_parallel_envelope.
EnvelopeFits ==
    envelope.plaintext # <<>> => payload_object_can_fit(Options, envelope.len)

\* Blocks reach the volumes in block order without a gap, whatever order the
\* encryption workers finish in: block i is the i-th record written, so every
\* volume v holds v, v + stripe_width, v + 2 * stripe_width, ... at any moment,
\* a write that failed half-way included.
BlocksInOrder == InBlockOrder(emitted)

\* The index the reader will trust describes what was encrypted: a written
\* block belongs to the extent payload_objects gives its envelope, and the
\* plaintext it was cut from is the frames recorded for that envelope, in order.
\* These frames tile each sealed envelope, and they tile the tar stream, with
\* the two flags of a frame marking exactly the start and the end of its member's
\* group, although the frames were compressed in any order.  Nor does the layout
\* depend on scheduling: an envelope is as full as its limits allow, so one layout
\* is left for a given sequence of frame lengths.
IndexDescribesBlocks ==
    /\ DescribesBlocks(frames, payload_objects, emitted)
    /\ TilesEnvelopes(frames, payload_objects)
    /\ TilesStream(frames, tar_members)
    /\ PackedGreedily(Options, frames, payload_objects)

envelope_in_hand ==
    pc = "seal" \/ (pc \in {"collect", "emit"} /\ emit_return = "seal")

\* How many copies of envelope k are on their way to the volumes.
copies(k) ==
      Cardinality({i \in DOMAIN envelope_jobs : envelope_jobs[i].index = k})
    + Cardinality({w \in EnvelopeWorkers : /\ envelope_worker[w].state = "busy"
                                           /\ envelope_worker[w].job.index = k})
    + Cardinality({i \in DOMAIN envelope_results : envelope_results[i].value.index = k})
    + Cardinality({e \in envelope_buffer : e.index = k})
    + (IF envelope_in_hand /\ envelope_job.index = k THEN 1 ELSE 0)

\* The envelope index is the AEAD nonce counter, so no index is ever encrypted
\* twice; and unless a fault has happened no envelope is lost on its way.
EachEnvelopeOnce ==
    \A k \in 0 .. envelope.index - 1 :
        LET seen == copies(k) + (IF k < next_envelope THEN 1 ELSE 0)
        IN  /\ seen <= 1
            /\ faults = {} /\ pc \notin Returned => seen = 1

\* A successful return means a complete payload: every member was read to its
\* end, every chunk is in the index, every sealed block was written, every data
\* block has its leaf hash, and nothing failed.
SuccessIsComplete ==
    pc = "ok" =>
        /\ faults = {}
        /\ Len(frames) = next_frame.job
        /\ Len(emitted) = next_block
        /\ \A v \in 0 .. Options.stripe_width - 1 :
              Cardinality({i \in DOMAIN emitted : volume_of(Options, emitted[i].block) = v})
                = striped_block_count(next_block, Options.stripe_width, v)
        /\ tar_members # <<>> =>
              LET m == tar_members[Len(tar_members)]
                  f == frames[Len(frames)]
              IN  /\ tar_total_size = m.start + m.group
                  /\ f.tar_offset + f.size = tar_total_size
        /\ CollectLeaves =>
              /\ {leaves[i] : i \in DOMAIN leaves}
                   = {emitted[i].block : i \in {j \in DOMAIN emitted : emitted[j].data}}
              /\ \A i \in 2 .. Len(leaves) : leaves[i - 1] < leaves[i]

\* The writer fails only for a cause: a fault of its surroundings, or a frame
\* that no envelope can hold.  The orderly exit of the workers is never taken
\* for "worker stopped".  And a panic never passes for an orderly exit: a worker
\* that panicked is missed by its job before join is reached.
FailureHasCause ==
    /\ pc \in {"unwind", "err", "panic"} =>
          \/ faults # {}
          \/ \E r \in frame_buffer : ~payload_object_can_fit(Options, r.len)
    /\ pc = "join" =>
          /\ \A w \in FrameWorkers : frame_worker[w].state # "panicked"
          /\ \A w \in EnvelopeWorkers : envelope_worker[w].state # "panicked"

\* The writer returns, whatever the workers do: the two bounded channels never
\* leave everyone waiting on everyone.
Termination == <>(pc \in Terminal)

-----------------------------------------------------------------------------
(***************************************************************************)
(* Why the order holds whatever the workers do.  The invariant below is    *)
(* inductive; ParallelWriterProofs proves it and what follows from it.     *)
(***************************************************************************)

\* Nothing has happened before the first member.
NothingBeforeMembers ==
    tar_members = <<>> =>
        /\ pc \in {"member", "finish_frames", "finish_envelopes", "join"} \cup Returned
        /\ next_frame.job = 0
        /\ envelope = EmptyEnvelope(0)

\* The first block of object k, or of the object that comes next.
first_block(objects, next, k) ==
    IF k < Len(objects) THEN objects[k + 1].extent.first ELSE next

\* The objects in the index are numbered and laid out without a gap from block
\* 0, and the next one starts at next_payload_block_index.
LaidOutInOrder ==
    /\ envelope.index = Len(payload_objects)
    /\ first_block(payload_objects, next_block, 0) = 0
    /\ \A k \in 0 .. Len(payload_objects) - 1 :
          next_block_index(payload_objects[k + 1].extent)
            = first_block(payload_objects, next_block, k + 1)

\* The job of a sealed envelope carries the extent the index gives the envelope.
AsIndexed(objects, job) ==
    /\ job.index < Len(objects)
    /\ job.extent = objects[job.index + 1].extent

\* So does every envelope between the main thread's hand and the volumes.
InFlightAsIndexed ==
    /\ envelope_in_hand => AsIndexed(payload_objects, envelope_job)
    /\ \A i \in 1 .. Len(envelope_jobs) :
          AsIndexed(payload_objects, envelope_jobs[i])
    /\ \A w \in EnvelopeWorkers :
          envelope_worker[w].state = "busy"
            => AsIndexed(payload_objects, envelope_worker[w].job)
    /\ \A i \in 1 .. Len(envelope_results) :
          AsIndexed(payload_objects, envelope_results[i].value)
    /\ \A e \in envelope_buffer : AsIndexed(payload_objects, e)

\* What is written is exactly the objects before next_envelope, until a write
\* fails.
WrittenUpToNext ==
    pc \notin Returned =>
        /\ next_envelope <= Len(payload_objects)
        /\ Len(emitted) = first_block(payload_objects, next_block, next_envelope)

\* The write order invariant: the objects are laid out in order, every envelope
\* keeps its place while it is out with the workers, and what is written ends
\* where the next envelope starts.
WriteOrder ==
    /\ NothingBeforeMembers
    /\ envelope.plaintext = <<>> => envelope.len = 0
    /\ EnvelopeFits
    /\ LaidOutInOrder
    /\ InFlightAsIndexed
    /\ WrittenUpToNext
    /\ BlocksInOrder

-----------------------------------------------------------------------------
(***************************************************************************)
(* Refinement                                                              *)
(***************************************************************************)

stream_objects ==
    [k \in DOMAIN payload_objects |->
        [first |-> payload_objects[k].extent.first,
         size  |-> payload_objects[k].extent.data + payload_objects[k].extent.parity]]

stream_status == IF pc = "ok" THEN "ok"
                 ELSE IF pc \in Returned THEN "failed" ELSE "open"

Stream == INSTANCE PayloadStream WITH
    Sizes   <- 1 .. Options.max_shards,
    objects <- stream_objects,
    written <- Len(emitted),
    status  <- stream_status

\* The parallel writer implements the sequential payload stream: no
\* interleaving of the workers is visible in the layout, in the order of the
\* writes, or in what a success or a failure leaves behind.
ImplementsStream == Stream!Spec

=============================================================================
