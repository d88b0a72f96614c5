----------------------------- MODULE ObjectPlan -----------------------------
(***************************************************************************)
(* How the writer sizes one encrypted object and lays it out in blocks:    *)
(* the pure arithmetic of writer/envelope.rs and writer/plan.rs that every *)
(* writer (two-pass, single-pass, ordered parallel) and the reader's FEC   *)
(* repair depend on.                                                       *)
(*                                                                         *)
(* An options record o holds the WriterOptions fields the arithmetic uses. *)
(* Lengths are natural numbers; u64 arithmetic is checked in the code, so  *)
(* a value above o.word_max (2^64 - 1 in the code) is an error, not a      *)
(* wrapped number.  Errors are the value NoPlan.                           *)
(***************************************************************************)
EXTENDS Integers

\* Every Err(FormatError::...) of the planning functions.
NoPlan == -1

\* The loop bound of compute_parity.
ParityIterations == 100

OptionFields == {"block_size", "tag_len", "stripe_width",
                 "volume_loss_tolerance", "bit_rot_buffer_pct",
                 "fec_data_shards", "fec_parity_shards",
                 "envelope_target_size", "chunk_size",
                 "max_shards", "word_max"}

ceil_div(n, d) == (n + d - 1) \div d

-----------------------------------------------------------------------------
(***************************************************************************)
(* Parity                                                                  *)
(***************************************************************************)

\* Mutant: the blocks a volume may hold are rounded down.
parity_step_rounds_down(o, d, p) ==
    LET need == o.volume_loss_tolerance * ((d + p) \div o.stripe_width)
                + ceil_div((d + p) * o.bit_rot_buffer_pct, 100)
        floor == IF o.volume_loss_tolerance > 0 \/ o.bit_rot_buffer_pct > 0
                 THEN 1 ELSE 0
    IN  IF need > floor THEN need ELSE floor

\* One turn of compute_parity's loop: the parity that d data blocks and the
\* previous guess p ask for.
parity_step(o, d, p) ==
    LET total     == d + p
        by_volume == o.volume_loss_tolerance * ceil_div(total, o.stripe_width)
        by_bitrot == ceil_div(total * o.bit_rot_buffer_pct, 100)
        floor     == IF o.volume_loss_tolerance > 0 \/ o.bit_rot_buffer_pct > 0
                     THEN 1 ELSE 0
    IN  IF \/ total > o.word_max
           \/ total * o.bit_rot_buffer_pct + 99 > o.word_max
           \/ by_volume + by_bitrot > o.word_max
        THEN NoPlan
        ELSE IF by_volume + by_bitrot > floor THEN by_volume + by_bitrot ELSE floor

\* Mutant: the first guess is the number of data blocks.
parity_guesses_from_data(o, d) ==
    LET guess[i \in 0 .. ParityIterations] ==
            IF i = 0 THEN d
            ELSE LET p == guess[i - 1]
                 IN  IF p = NoPlan THEN NoPlan ELSE parity_step(o, d, p)
    IN  guess

\* The loop's guesses, the first of which is 0; after an error there is none.
parity_guesses(o, d) ==
    LET guess[i \in 0 .. ParityIterations] ==
            IF i = 0 THEN 0
            ELSE LET p == guess[i - 1]
                 IN  IF p = NoPlan THEN NoPlan ELSE parity_step(o, d, p)
    IN  guess

\* The guess that repeats the one before it, if a turn makes it.
settled_guess(guess) ==
    LET settled(i) == guess[i] = guess[i - 1]
    IN  IF \E i \in 1 .. ParityIterations : settled(i)
        THEN guess[CHOOSE i \in 1 .. ParityIterations : settled(i)]
        ELSE NoPlan

\* The loop returns the guess that settles within its ParityIterations turns.
parity_loop(o, d) == settled_guess(parity_guesses(o, d))

\* A guess that passes the loop's own test: it is the parity that d data blocks
\* and itself ask for.
tested_guess(o, d, p) == IF p \in Nat /\ parity_step(o, d, p) = p THEN p ELSE NoPlan

compute_parity(o, d) == tested_guess(o, d, parity_loop(o, d))

(***************************************************************************)
(* Options.  plan_writer_options checks what was asked for and sets the    *)
(* parity class maximum to the parity of a full object; a request whose    *)
(* parity does not converge is refused before anything is written.         *)
(***************************************************************************)
ValidRequest(o) ==
    /\ o \in [OptionFields -> Nat]
    /\ o.block_size > 0
    /\ o.stripe_width > 0
    /\ o.volume_loss_tolerance < o.stripe_width
    /\ o.bit_rot_buffer_pct <= 100
    /\ 0 < o.chunk_size /\ o.chunk_size <= o.envelope_target_size
    /\ o.fec_data_shards > 0

plan_writer_options(o) ==
    [o EXCEPT !.fec_parity_shards = compute_parity(o, o.fec_data_shards)]

\* The result of plan_writer_options for a request it accepts.
ValidOptions(o) == ValidRequest(o) /\ plan_writer_options(o) = o

-----------------------------------------------------------------------------
(***************************************************************************)
(* Objects                                                                 *)
(***************************************************************************)

\* Payload and tag rounded up to whole blocks, with a whole block of padding
\* when there would be none: the suffix padding is never empty.
data_block_count(o, len) == (len + o.tag_len) \div o.block_size + 1

\* Whether plan_encrypted_object succeeds under the payload class maxima.  A
\* parity that cannot be computed is an error of its own in the code; with
\* valid options it is met only by an object above the data class maximum.
payload_object_can_fit(o, len) ==
    LET d == data_block_count(o, len)
        p == compute_parity(o, d)
    IN  /\ p # NoPlan
        /\ d <= o.fec_data_shards
        /\ p <= o.fec_parity_shards
        /\ d + p <= o.max_shards

\* An ObjectExtent: len bytes planned as an object that starts at block first.
object_extent(o, first, len) ==
    LET d == data_block_count(o, len)
    IN  [first |-> first, data |-> d, parity |-> compute_parity(o, d)]

next_block_index(e) == e.first + e.data + e.parity

-----------------------------------------------------------------------------
(***************************************************************************)
(* Striping                                                                *)
(***************************************************************************)

volume_of(o, block) == block % o.stripe_width

\* The number of blocks of an archive of total blocks that volume v holds.
striped_block_count(total, width, v) ==
    IF total <= v THEN 0 ELSE (total - 1 - v) \div width + 1
=============================================================================
