----------------------------- MODULE TwoPassWriter -----------------------------
(***************************************************************************)
(* The two-pass archive writer (write_archive_stream_inner, plan.rs,       *)
(* envelope.rs) over live input files (create.rs, os_input.rs).            *)
(*                                                                         *)
(* The planning pass reads and compresses every file to fix the layout,    *)
(* the index and the content hash; the emission pass reads and compresses  *)
(* everything again, compares each frame and envelope with the plan, and   *)
(* writes.  Other processes may rewrite a file at any moment.  The reader  *)
(* of a file compares the file's identity with the scan's when it opens    *)
(* it and when it has read the last byte, and notes a difference for the   *)
(* run to report; it never fails because of it.                            *)
(*                                                                         *)
(* A version stands for the bytes a file holds at one time, at the length  *)
(* its header promised: a file that grew is clamped, one that shrank or    *)
(* vanished is filled with zeros, which is a version too.  A byte is its   *)
(* file and the version it was read from; Compress gives the length a      *)
(* sequence of bytes compresses to.  A rewrite always changes the file's   *)
(* identity (its ctime).  The tar header and padding bytes, which do not   *)
(* change, are left out of a member.                                       *)
(***************************************************************************)
EXTENDS PayloadFrames

CONSTANTS
    Members,        \* the sizes of the scanned files, in order
    Versions,       \* the contents a file may have
    Compress(_),    \* the compressed length of a sequence of bytes
    MaxChanges,     \* bound: how often other processes rewrite a file
    Options         \* the planned WriterOptions, a record of ObjectPlan

\* What is assumed of the constants.
InputAssumption == Members \in Seq(Nat \ {0}) /\ MaxChanges \in Nat
OptionsAssumption == ValidOptions(Options)

\* A byte is its file and the version it was read from.
Bytes == [file : DOMAIN Members, version : Versions]

\* A compressed frame is never empty: it has a header at least.
CompressAssumption ==
    \A n \in 1 .. Options.chunk_size : \A bytes \in [1 .. n -> Bytes] :
        Compress(bytes) \in Nat \ {0}

VARIABLES
    pc,         \* "plan", "emit", "ok", "err", or "io_err" after an I/O error
    scanned,    \* the version of each file when it was scanned
    file,       \* the version of each file now
    changes,    \* how often a file was rewritten
    touched,    \* the files whose identity is not the scanned one any more
    noted,      \* the files the run will report as changed while archived
    member,     \* the file being read in this pass
    offset,     \* how much of it was packed
    pushback,   \* bytes read from it and not packed yet
    stream_pos, \* tar_total_size of this pass
    envelope,   \* the envelope being filled in this pass
    next_block, \* next_block_index of this pass
    plan,       \* what the planning pass fixed
    frame,      \* next_frame_index of the emission pass
    emitted,    \* block records written
    written     \* the bytes packed for encryption, in order

pass == <<member, offset, pushback, stream_pos, envelope, next_block>>
disk == <<scanned, file, changes, touched>>
output == <<frame, emitted, written>>
vars == <<pc, disk, noted, pass, plan, output>>

NoPlanYet == [frames |-> <<>>, objects |-> <<>>, content |-> <<>>, total |-> 0]

Init ==
    /\ pc = "plan"
    /\ scanned \in [DOMAIN Members -> Versions]
    /\ file = scanned /\ changes = 0 /\ touched = {} /\ noted = {}
    /\ member = 1 /\ offset = 0 /\ pushback = <<>> /\ stream_pos = 0
    /\ envelope = EmptyEnvelope(0) /\ next_block = 0
    /\ plan = NoPlanYet
    /\ frame = 0 /\ emitted = <<>> /\ written = <<>>

-----------------------------------------------------------------------------
\* Another process rewrites a file.
FileChanges ==
    /\ pc \in {"plan", "emit"}
    /\ changes < MaxChanges
    /\ \E f \in DOMAIN Members, v \in Versions :
          /\ file[f] # v
          /\ file' = [file EXCEPT ![f] = v]
          /\ touched' = touched \cup {f}
    /\ changes' = changes + 1
    /\ UNCHANGED <<pc, scanned, noted, pass, plan, output>>

-----------------------------------------------------------------------------
(***************************************************************************)
(* One chunk of either pass                                                *)
(***************************************************************************)

reading == member <= Len(Members) /\ offset < Members[member]

chunk_limit == LET left == Members[member] - offset
               IN  IF left < Options.chunk_size THEN left ELSE Options.chunk_size

\* The bytes of the chunk: what was pushed back, then the file as it is now.
chunk == pushback \o [i \in 1 .. chunk_limit - Len(pushback) |->
                         [file |-> member, version |-> file[member]]]

\* How many bytes of the chunk go into a frame: halved until the frame fits an
\* envelope, 0 if not even one byte does.
chunk_len ==
    LET fit[n \in 0 .. Options.chunk_size] ==
            IF n = 0 \/ payload_object_can_fit(Options, Compress(SubSeq(chunk, 1, n)))
            THEN n ELSE fit[n \div 2]
    IN  fit[Len(chunk)]

packed == SubSeq(chunk, 1, chunk_len)
frame_len == Compress(packed)
this_chunk == [member |-> member - 1, start |-> stream_pos - offset,
               offset |-> offset, group |-> Members[member], size |-> chunk_len]

\* Mutant: the identity is checked at the open only.
note_changes_at_open ==
    noted' = IF member \in touched /\ offset = 0 THEN noted \cup {member} ELSE noted

\* The identity checks, at the open of a file and after its last byte.
note_changes ==
    noted' = IF /\ member \in touched
                /\ \/ offset = 0
                   \/ /\ offset + Len(chunk) = Members[member]
                      /\ Len(chunk) > Len(pushback)
             THEN noted \cup {member} ELSE noted

\* The rest of the chunk is pushed back, and the pass moves on.
advance ==
    LET done == offset + chunk_len = Members[member]
    IN  /\ offset' = IF done THEN 0 ELSE offset + chunk_len
        /\ member' = IF done THEN member + 1 ELSE member
        /\ pushback' = SubSeq(chunk, chunk_len + 1, Len(chunk))
        /\ stream_pos' = stream_pos + chunk_len

\* A frame that does not fit seals the envelope first; base is the envelope it
\* then goes to.
needs_flush == payload_envelope_needs_flush(Options, envelope, frame_len)
base == IF needs_flush THEN EmptyEnvelope(envelope.index + 1) ELSE envelope
object == payload_object(Options, next_block, envelope)
sealed_blocks == block_records(envelope.index, envelope.plaintext, object.extent)

\* A single byte that fits no envelope fails either pass.
ByteTooLarge ==
    /\ pc \in {"plan", "emit"} /\ reading
    /\ chunk_len = 0
    /\ pc' = "err"
    /\ note_changes
    /\ UNCHANGED <<disk, pass, plan, output>>

\* A file cannot be read.
SourceFails ==
    /\ pc \in {"plan", "emit"} /\ reading
    /\ Len(chunk) > Len(pushback)
    /\ pc' = "io_err"
    /\ UNCHANGED <<disk, noted, pass, plan, output>>

-----------------------------------------------------------------------------
(***************************************************************************)
(* Planning pass: plan_payload_stream                                      *)
(***************************************************************************)
PlanChunk ==
    /\ pc = "plan" /\ reading /\ chunk_len > 0
    /\ plan' = [plan EXCEPT
         !.objects = IF needs_flush THEN Append(@, object) ELSE @,
         !.frames  = Append(@, payload_frame_metadata(Len(@), base, this_chunk, frame_len)),
         !.content = @ \o packed]
    /\ next_block' = IF needs_flush THEN next_block_index(object.extent) ELSE next_block
    /\ envelope' = extend_envelope(base, Len(plan.frames), frame_len)
    /\ note_changes /\ advance
    /\ UNCHANGED <<pc, disk, output>>

PlanFinalFlush ==
    /\ pc = "plan" /\ ~reading
    /\ envelope.plaintext # <<>>
    /\ plan' = [plan EXCEPT !.objects = Append(@, object)]
    /\ next_block' = next_block_index(object.extent)
    /\ envelope' = EmptyEnvelope(envelope.index + 1)
    /\ UNCHANGED <<pc, disk, noted, member, offset, pushback, stream_pos, output>>

\* The payload is planned: the index is built and the emission pass starts.
BeginEmission ==
    /\ pc = "plan" /\ ~reading
    /\ envelope.plaintext = <<>>
    /\ plan' = [plan EXCEPT !.total = next_block]
    /\ pc' = "emit"
    /\ member' = 1 /\ offset' = 0 /\ pushback' = <<>> /\ stream_pos' = 0
    /\ envelope' = EmptyEnvelope(0) /\ next_block' = 0
    /\ UNCHANGED <<disk, noted, output>>

-----------------------------------------------------------------------------
(***************************************************************************)
(* Emission pass: emit_payload_stream                                      *)
(***************************************************************************)

\* Mutant: an envelope of another size is written too.
matches_object_any_size == envelope.index < Len(plan.objects)

\* flush_payload_envelope_emit finds the envelope it planned.
matches_object ==
    /\ envelope.index < Len(plan.objects)
    /\ plan.objects[envelope.index + 1].len = envelope.len

\* append_payload_frame_to_emit: the frame must be the planned one.
matches_frame ==
    /\ frame < Len(plan.frames)
    /\ plan.frames[frame + 1] =
         payload_frame_metadata(frame, base, this_chunk, frame_len)

\* The sealed envelope is written, then the frame is compared and packed.
EmitChunk ==
    /\ pc = "emit" /\ reading /\ chunk_len > 0
    /\ needs_flush => matches_object
    /\ emitted' = IF needs_flush THEN emitted \o sealed_blocks ELSE emitted
    /\ next_block' = IF needs_flush THEN next_block_index(object.extent) ELSE next_block
    /\ note_changes
    /\ IF matches_frame
       THEN /\ envelope' = extend_envelope(base, frame, frame_len)
            /\ written' = written \o packed
            /\ frame' = frame + 1
            /\ advance
            /\ UNCHANGED pc
       ELSE /\ pc' = "err"  \* "emitted payload frame does not match plan"
            /\ envelope' = base
            /\ UNCHANGED <<member, offset, pushback, stream_pos, written, frame>>
    /\ UNCHANGED <<disk, plan>>

\* "emitted payload envelope does not match plan", before anything is written
EnvelopeMismatch ==
    /\ pc = "emit"
    /\ envelope.plaintext # <<>> /\ ~matches_object
    /\ reading => chunk_len > 0 /\ needs_flush
    /\ pc' = "err"
    /\ IF reading THEN note_changes ELSE UNCHANGED noted
    /\ UNCHANGED <<disk, pass, plan, output>>

EmitFinalFlush ==
    /\ pc = "emit" /\ ~reading
    /\ envelope.plaintext # <<>>
    /\ matches_object
    /\ emitted' = emitted \o sealed_blocks
    /\ next_block' = next_block_index(object.extent)
    /\ envelope' = EmptyEnvelope(envelope.index + 1)
    /\ UNCHANGED <<pc, disk, noted, member, offset, pushback, stream_pos, plan,
                   frame, written>>

\* A write fails after some of an envelope's blocks.
SinkFails ==
    /\ pc = "emit"
    /\ envelope.plaintext # <<>> /\ matches_object
    /\ reading => chunk_len > 0 /\ needs_flush
    /\ \E n \in 0 .. Len(sealed_blocks) - 1 :
          emitted' = emitted \o SubSeq(sealed_blocks, 1, n)
    /\ pc' = "io_err"
    /\ IF reading THEN note_changes ELSE UNCHANGED noted
    /\ UNCHANGED <<disk, pass, plan, frame, written>>

\* Every planned frame and envelope was emitted, and the metadata follows; or
\* "streaming payload plan mismatch".
Finish ==
    /\ pc = "emit" /\ ~reading
    /\ envelope.plaintext = <<>>
    /\ pc' = IF frame = Len(plan.frames) /\ envelope.index = Len(plan.objects)
             THEN "ok" ELSE "err"
    /\ UNCHANGED <<disk, noted, pass, plan, output>>

\* The writer has returned.
Finished == pc \in {"ok", "err", "io_err"} /\ UNCHANGED vars

Writer ==
    \/ ByteTooLarge \/ SourceFails
    \/ PlanChunk \/ PlanFinalFlush \/ BeginEmission
    \/ EmitChunk \/ EnvelopeMismatch \/ EmitFinalFlush \/ SinkFails \/ Finish

Next == Writer \/ FileChanges \/ Finished

Spec == Init /\ [][Next]_vars

-----------------------------------------------------------------------------
(***************************************************************************)
(* Properties                                                              *)
(***************************************************************************)

\* At any moment of the emission, and after a failure, what was written is the
\* beginning of the plan: the planned block at its place, cut from an envelope
\* of exactly the planned frames; and a run that succeeds has written all of it.
\* The index was built before the first write, so it describes the blocks
\* whatever happened to the files between the passes.
EmissionFollowsPlan ==
    /\ InBlockOrder(emitted)
    /\ DescribesBlocks(plan.frames, plan.objects, emitted)
    /\ pc = "ok" => /\ Len(emitted) = plan.total
                    /\ frame = Len(plan.frames)
                    /\ TilesEnvelopes(plan.frames, plan.objects)

\* A success never holds content that differs from the scanned file without
\* the run reporting that file.
ChangesAreNoted ==
    pc = "ok" =>
        \A i \in DOMAIN written :
            written[i].version # scanned[written[i].file] => written[i].file \in noted

\* What the comment on report_inputs_not_fully_archived says of files that
\* moved while they were archived: the archive is complete and readable.  The
\* content hash in the index, fixed by the planning pass, is then the hash of
\* what the emission pass encrypted.
ArchiveVerifies == pc = "ok" => written = plan.content
================================================================================
