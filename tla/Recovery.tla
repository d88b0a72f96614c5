------------------------------- MODULE Recovery -------------------------------
(***************************************************************************)
(* What the parity of an object is for: the writer lays encrypted objects  *)
(* out over the volumes, volumes are lost and blocks rot, and the reader   *)
(* loads an object from what is left (reader/validation.rs, fec.rs).       *)
(*                                                                         *)
(* A block is readable when its volume is there and its record passes its  *)
(* CRC.  The erasure code is the GF(2^16) Cauchy code of fec.rs: any       *)
(* data_block_count shards of an object determine the others.              *)
(***************************************************************************)
EXTENDS ObjectPlan, Sequences, FiniteSets

CONSTANTS
    OptionSets,    \* the WriterOptions that may be asked for
    Lens,          \* plaintext lengths of objects
    MaxObjects,    \* bound: objects per archive
    MaxErased,     \* bound: rotten blocks
    RepairCap      \* READER_MAX_REPAIR_TOTAL_SHARDS: 1024

\* What is asked of the constants.
InputAssumption ==
    /\ \A o \in OptionSets : ValidRequest(o)
    /\ Lens \subseteq Nat
    /\ MaxObjects \in Nat /\ MaxErased \in Nat
    /\ RepairCap \in Nat

VARIABLES
    options,   \* the archive's options, in its CryptoHeader
    extents,   \* the objects of the archive
    lost,      \* the volumes that are gone
    erased,    \* the blocks whose record does not parse or fails its CRC
    loaded     \* the object read last, and what came of it

vars == <<options, extents, lost, erased, loaded>>

NotLoaded == [object |-> 0, result |-> "none"]

\* The options that plan_writer_options accepts.
planned_options ==
    {o \in {plan_writer_options(r) : r \in OptionSets} : o.fec_parity_shards # NoPlan}

Init ==
    /\ options \in planned_options
    /\ extents = <<>> /\ lost = {} /\ erased = {}
    /\ loaded = NotLoaded

total_blocks == IF extents = <<>> THEN 0 ELSE next_block_index(extents[Len(extents)])
object_blocks(e) == e.first .. next_block_index(e) - 1

-----------------------------------------------------------------------------
\* plan_encrypted_object: the next object starts where the last one ends.
WriteObject ==
    /\ lost = {} /\ erased = {}
    /\ Len(extents) < MaxObjects
    /\ \E len \in Lens :
          /\ payload_object_can_fit(options, len)
          /\ extents' = Append(extents, object_extent(options, total_blocks, len))
    /\ UNCHANGED <<options, lost, erased, loaded>>

\* An object that cannot be planned is not written.
RefuseObject ==
    /\ lost = {} /\ erased = {}
    /\ Len(extents) < MaxObjects
    /\ \E len \in Lens : ~payload_object_can_fit(options, len)
    /\ UNCHANGED vars

\* A finished archive loses a volume, or a block of it rots.
LoseVolume ==
    /\ extents # <<>>
    /\ \E v \in (0 .. options.stripe_width - 1) \ lost : lost' = lost \cup {v}
    /\ loaded' = NotLoaded
    /\ UNCHANGED <<options, extents, erased>>

BlockRots ==
    /\ Cardinality(erased) < MaxErased
    /\ \E b \in (0 .. total_blocks - 1) \ erased : erased' = erased \cup {b}
    /\ loaded' = NotLoaded
    /\ UNCHANGED <<options, extents, lost>>

-----------------------------------------------------------------------------
\* required_object_parity, the reader's own computation, which an extent must
\* agree with.
required_object_parity(d) == compute_parity(options, d)

validate_object_extent(e) ==
    /\ e.data > 0 /\ e.data <= options.fec_data_shards
    /\ e.parity <= options.fec_parity_shards
    /\ e.parity = required_object_parity(e.data)
    /\ e.data + e.parity <= options.max_shards
    /\ e.data * options.block_size > options.tag_len

\* The blocks that blocks.block() returns a record for.
readable(e) ==
    {b \in object_blocks(e) : volume_of(options, b) \notin lost /\ b \notin erased}

data_blocks(e) == e.first .. e.first + e.data - 1

\* repair_data_gf16, behind the fast path of recover_data_bytes_gf16.
repair_data(e) ==
    IF data_blocks(e) \subseteq readable(e) THEN "ok"
    ELSE IF e.data > RepairCap THEN "resource_limit"
    ELSE IF Cardinality(readable(e)) < e.data THEN "too_few" ELSE "ok"

\* Opening the volumes that are left, then loading one object.
LoadObject ==
    /\ \E k \in DOMAIN extents :
          loaded' = [object |-> k,
                     result |-> IF Cardinality(lost) > options.volume_loss_tolerance
                                THEN "refused"
                                ELSE IF ~validate_object_extent(extents[k])
                                THEN "invalid" ELSE repair_data(extents[k])]
    /\ UNCHANGED <<options, extents, lost, erased>>

Next == WriteObject \/ RefuseObject \/ LoseVolume \/ BlockRots \/ LoadObject

Spec == Init /\ [][Next]_vars

-----------------------------------------------------------------------------
(***************************************************************************)
(* Properties                                                              *)
(***************************************************************************)

\* What rots within an object's bit_rot_buffer_pct.
rot_budget(e) == ceil_div((e.data + e.parity) * options.bit_rot_buffer_pct, 100)
rotten(e) == {b \in erased \cap object_blocks(e) : volume_of(options, b) \notin lost}

\* The archive survives what it was configured to survive: with at most
\* volume_loss_tolerance volumes gone and at most bit_rot_buffer_pct percent of
\* an object's blocks rotten on the others, both at once, the object loads,
\* wherever its blocks happen to start in the stripe.  The one exception is the
\* reader's own limit on the size of the repair matrix.
SurvivesItsBudget ==
    loaded # NotLoaded =>
        LET e == extents[loaded.object]
        IN  /\ Cardinality(lost) <= options.volume_loss_tolerance
            /\ Cardinality(rotten(e)) <= rot_budget(e)
            /\ e.data <= RepairCap
            => loaded.result = "ok"

\* The parity compute_parity's iteration finds is the least that covers what
\* the object's own size asks for: a smaller one would not cover it.
ParityIsLeast ==
    \A k \in DOMAIN extents :
        LET e == extents[k]
        IN  \A p \in 0 .. e.parity - 1 : parity_step(options, e.data, p) > p
===============================================================================
