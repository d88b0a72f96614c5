------------------------------- MODULE MCWriters -------------------------------
(***************************************************************************)
(* Small instances of the sequential writers, and of the objects they lay  *)
(* out, for TLC.  A behaviour is one of three parts: the single-pass       *)
(* writer (SinglePassWriter), the two-pass writer over files that change   *)
(* (TwoPassWriter), or objects that are written and then lose volumes and  *)
(* blocks (Recovery).  The variables of the other parts stay as they are.  *)
(***************************************************************************)
EXTENDS SinglePassWriter, SequencesExt

CONSTANT Parts      \* the parts a run checks

VARIABLES
    part,
    phase, scanned, file, changes, touched, noted, member, offset, pushback,
    stream_pos, filling, next_index, plan, frame, records, written,
    asked, extents, gone, rotten, loaded

ofTwoPass == <<phase, scanned, file, changes, touched, noted, member, offset, pushback,
               stream_pos, filling, next_index, plan, frame, records, written>>
ofObjects == <<asked, extents, gone, rotten, loaded>>
all == <<part, vars, ofTwoPass, ofObjects>>

\* Blocks of 2 bytes, a tag of 1, two volumes; a frame of 7 bytes fits no
\* envelope, and a chunk is up to 5 bytes so that halving leaves odd rests.
MCOptions ==
    [block_size |-> 2, tag_len |-> 1, stripe_width |-> 2,
     volume_loss_tolerance |-> 0, bit_rot_buffer_pct |-> 10,
     fec_data_shards |-> 3, fec_parity_shards |-> 1,
     envelope_target_size |-> 5, chunk_size |-> 5,
     max_shards |-> 4, word_max |-> 100000]

-----------------------------------------------------------------------------
\* Contents of a file.  "text" and "code" compress alike; "noise" does not
\* compress, and 4 bytes of it fit no envelope; of "dense" not even one byte
\* does.
MCVersions == {"text", "code", "noise", "dense"}
Density == [v \in MCVersions |-> CASE v = "noise" -> 4 [] v = "dense" -> 14 [] OTHER -> 1]
MCCompress(bytes) ==
    (1 + FoldSeq(LAMBDA b, sum : sum + Density[b.version], 0, bytes)) \div 2

MCTwoPassOptions ==
    plan_writer_options(
        [block_size |-> 2, tag_len |-> 1, stripe_width |-> 2,
         volume_loss_tolerance |-> 1, bit_rot_buffer_pct |-> 0,
         fec_data_shards |-> 3, fec_parity_shards |-> 0,
         envelope_target_size |-> 4, chunk_size |-> 4,
         max_shards |-> 6, word_max |-> 100000])

TwoPass == INSTANCE TwoPassWriter WITH
    Members <- <<3, 6>>, Versions <- MCVersions, Compress <- MCCompress, MaxChanges <- 2,
    Options <- MCTwoPassOptions,
    pc <- phase, envelope <- filling, next_block <- next_index, emitted <- records

ASSUME TwoPassAssumption ==
    TwoPass!InputAssumption /\ TwoPass!OptionsAssumption /\ TwoPass!CompressAssumption

-----------------------------------------------------------------------------
\* Objects of up to 5 data blocks.
MCAsked(width, tolerance, pct) ==
    [block_size |-> 2, tag_len |-> 1, stripe_width |-> width,
     volume_loss_tolerance |-> tolerance, bit_rot_buffer_pct |-> pct,
     fec_data_shards |-> 5, fec_parity_shards |-> 0,
     envelope_target_size |-> 8, chunk_size |-> 8,
     max_shards |-> 15, word_max |-> 100000]

\* The parity that the last of them asks for does not converge.
MCOptionSets ==
    {MCAsked(1, 0, 0), MCAsked(1, 0, 20), MCAsked(2, 1, 0), MCAsked(3, 1, 5),
     MCAsked(3, 2, 0), MCAsked(4, 1, 25), MCAsked(4, 2, 0), MCAsked(2, 1, 50)}

Objects == INSTANCE Recovery WITH
    OptionSets <- MCOptionSets, Lens <- {0, 5, 8, 12}, MaxObjects <- 2, MaxErased <- 2, RepairCap <- 4,
    options <- asked, lost <- gone, erased <- rotten

ASSUME ObjectsAssumption == Objects!InputAssumption

-----------------------------------------------------------------------------
NoObjects == asked = <<>> /\ extents = <<>> /\ gone = {} /\ rotten = {} /\ loaded = <<>>
NoTwoPass ==
    /\ phase = "idle" /\ scanned = <<>> /\ file = <<>> /\ changes = 0 /\ touched = {} /\ noted = {}
    /\ member = 0 /\ offset = 0 /\ pushback = <<>> /\ stream_pos = 0 /\ filling = <<>>
    /\ next_index = 0 /\ plan = <<>> /\ frame = 0 /\ records = <<>> /\ written = <<>>

WritersInit ==
    /\ part \in Parts
    /\ Init
    /\ IF part = "two_pass" THEN TwoPass!Init ELSE NoTwoPass
    /\ IF part = "objects" THEN Objects!Init ELSE NoObjects

WritersNext ==
    \/ part = "single_pass" /\ Next /\ UNCHANGED <<part, ofTwoPass, ofObjects>>
    \/ part = "two_pass" /\ TwoPass!Next /\ UNCHANGED <<part, vars, ofObjects>>
    \/ part = "objects" /\ Objects!Next /\ UNCHANGED <<part, vars, ofTwoPass>>

WritersSpec == WritersInit /\ [][WritersNext]_all

\* TwoPassWriter's property: at any moment of the emission, and after a
\* failure, what was written is the beginning of the plan, and a run that
\* succeeds has written all of it (emit_payload_stream), whatever happened to
\* the files between the passes.
EmissionFollowsPlan == part = "two_pass" => TwoPass!EmissionFollowsPlan

\* TwoPassWriter's property: a success never holds content that differs from
\* the scanned file without the run reporting that file (os_input.rs).
ChangesAreNoted == part = "two_pass" => TwoPass!ChangesAreNoted

\* Recovery's property: an object loads whenever at most volume_loss_tolerance
\* volumes and bit_rot_buffer_pct of its blocks are gone (load_decrypted_object,
\* repair_data_gf16).
SurvivesItsBudget == part = "objects" => Objects!SurvivesItsBudget

\* Recovery's property: no smaller parity than the planned one would do
\* (compute_parity).
ParityIsLeast == part = "objects" => Objects!ParityIsLeast

\* What the comment on report_inputs_not_fully_archived says of files that
\* moved while they were archived, the archive is complete and readable: the
\* content hash fixed by the planning pass is the hash of what the emission
\* pass encrypted.
ArchiveVerifies == part = "two_pass" => TwoPass!ArchiveVerifies
================================================================================
