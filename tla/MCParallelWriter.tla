--------------------------- MODULE MCParallelWriter ---------------------------
(* Small instances of the ordered parallel writer for TLC.                   *)
EXTENDS ParallelWriter, TLC

\* Blocks of 2 bytes, a tag of 1, two volumes, envelopes of up to 5 bytes in
\* up to 3 data blocks, and one parity block each.
MCOptions ==
    [block_size |-> 2, tag_len |-> 1, stripe_width |-> 2,
     volume_loss_tolerance |-> 0, bit_rot_buffer_pct |-> 10,
     fec_data_shards |-> 3, fec_parity_shards |-> 1,
     envelope_target_size |-> 5, chunk_size |-> 2,
     max_shards |-> 4, word_max |-> 100000]

Symmetry == Permutations(FrameWorkers) \cup Permutations(EnvelopeWorkers)
===============================================================================
