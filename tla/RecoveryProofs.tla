---------------------------- MODULE RecoveryProofs ----------------------------
(***************************************************************************)
(* Proofs that an archive survives the damage it was configured to survive,*)
(* and that it pays for no more parity than that takes, for any options,   *)
(* any sizes of objects and any reader limit.                              *)
(***************************************************************************)
EXTENDS Recovery, PayloadFramesProofs

-----------------------------------------------------------------------------
(***************************************************************************)
(* Striping                                                                *)
(***************************************************************************)

\* A multiple of d strictly between -d and d is 0.
LEMMA SmallMultiple ==
    ASSUME NEW q \in Int, NEW d \in Nat \ {0}, 0 - d < d * q, d * q < d
    PROVE  q = 0
  OBVIOUS

\* Two blocks of one volume in the same stripe row of an object are the same.
LEMMA SameRowSameBlock ==
    ASSUME NEW w \in Nat \ {0}, NEW f \in Int, NEW b \in Int, NEW c \in Int,
           b % w = c % w, (b - f) \div w = (c - f) \div w
    PROVE  b = c
  <1> DEFINE q == (b \div w) - (c \div w)
  <1>1. /\ b = w * (b \div w) + (b % w) /\ b \div w \in Int /\ b % w \in 0 .. w - 1
        /\ c = w * (c \div w) + (c % w) /\ c \div w \in Int /\ c % w \in 0 .. w - 1
    BY DivMod
  <1>2. q \in Int /\ w * q = w * (b \div w) - w * (c \div w)
    BY <1>1
  <1>3. b - c = w * q
    BY <1>1, <1>2
  <1>4. /\ b - f = w * ((b - f) \div w) + ((b - f) % w) /\ (b - f) % w \in 0 .. w - 1
        /\ c - f = w * ((c - f) \div w) + ((c - f) % w) /\ (c - f) % w \in 0 .. w - 1
        /\ w * ((b - f) \div w) \in Int
    <2>1. b - f \in Int /\ c - f \in Int
      OBVIOUS
    <2>2. /\ b - f = w * ((b - f) \div w) + ((b - f) % w) /\ (b - f) % w \in 0 .. w - 1
          /\ (b - f) \div w \in Int
      BY <2>1, DivMod
    <2>3. c - f = w * ((c - f) \div w) + ((c - f) % w) /\ (c - f) % w \in 0 .. w - 1
      BY <2>1, DivMod
    <2> QED  BY <2>2, <2>3
  <1>5. b - c = ((b - f) % w) - ((c - f) % w)
    BY <1>4
  <1>6. 0 - w < w * q /\ w * q < w
    BY <1>3, <1>4, <1>5
  <1>7. q = 0
    <2> HIDE DEF q
    <2> QED  BY <1>2, <1>6, SmallMultiple
  <1> QED  BY <1>1, <1>3, <1>7

\* A volume holds at most ceil(n / w) of n consecutive blocks that are striped
\* over w volumes, wherever they start: so losing the volumes L costs at most
\* |L| * ceil(n / w) of them.
LEMMA BlocksOnVolumes ==
    ASSUME NEW f \in Nat, NEW n \in Nat, NEW w \in Nat \ {0},
           NEW L, L \subseteq 0 .. w - 1,
           NEW S, S \subseteq f .. f + n - 1, \A b \in S : b % w \in L
    PROVE  /\ IsFiniteSet(S)
           /\ Cardinality(S) \in Nat
           /\ Cardinality(S) <= Cardinality(L) * ceil_div(n, w)
  <1> DEFINE rows == 0 .. ceil_div(n, w) - 1
             g == [b \in S |-> <<b % w, (b - f) \div w>>]
  <1>1. ceil_div(n, w) \in Nat /\ n <= w * ceil_div(n, w)
    BY CeilDiv
  <1>2. IsFiniteSet(L)
    <2>1. IsFiniteSet(0 .. w - 1)
      BY FS_Interval
    <2> QED  BY <2>1, FS_Subset
  <1>3. IsFiniteSet(rows) /\ Cardinality(rows) = ceil_div(n, w)
    <2>1. 0 \in Int /\ ceil_div(n, w) - 1 \in Int
      BY <1>1
    <2>2. /\ IsFiniteSet(rows)
          /\ Cardinality(rows) = IF 0 > ceil_div(n, w) - 1 THEN 0 ELSE ceil_div(n, w) - 1 - 0 + 1
      BY <2>1, FS_Interval
    <2> QED  BY <1>1, <2>2
  <1>4. ASSUME NEW b \in S
        PROVE  b \in Int /\ b % w \in L /\ (b - f) \div w \in rows
    <2>1. b \in f .. f + n - 1 /\ b % w \in L
      OBVIOUS
    <2>2. b - f \in Nat /\ b - f < n
      BY <2>1
    <2>3. (b - f) \div w \in Nat
      BY <2>2
    <2>4. w * ((b - f) \div w) <= b - f
      BY <2>2, DivMod
    <2>5. w * ((b - f) \div w) < w * ceil_div(n, w)
      BY <1>1, <2>2, <2>3, <2>4
    <2>6. (b - f) \div w < ceil_div(n, w)
      BY <1>1, <2>3, <2>5
    <2> QED  BY <1>1, <2>1, <2>3, <2>6
  <1>5. g \in [S -> L \X rows]
    BY <1>4
  <1>6. ASSUME NEW b \in S, NEW c \in S, g[b] = g[c]
        PROVE  b = c
    <2>1. b \in Int /\ c \in Int /\ f \in Int
      BY <1>4
    <2>2. b % w = c % w /\ (b - f) \div w = (c - f) \div w
      BY <1>6
    <2> HIDE DEF g
    <2> QED  BY <2>1, <2>2, SameRowSameBlock, Zenon
  <1>7. g \in Injection(S, L \X rows)
    BY <1>5, <1>6 DEF Injection, IsInjective
  <1>8. /\ IsFiniteSet(L \X rows)
        /\ Cardinality(L \X rows) = Cardinality(L) * ceil_div(n, w)
    BY <1>2, <1>3, FS_Product
  <1>9. IsFiniteSet(S) /\ Cardinality(S) <= Cardinality(L \X rows)
    <2> HIDE DEF g
    <2> QED  BY <1>7, <1>8, FS_Injection
  <1>10. Cardinality(S) \in Nat
    BY <1>9, FS_CardinalityType
  <1> QED  BY <1>8, <1>9, <1>10

-----------------------------------------------------------------------------
(***************************************************************************)
(* Options                                                                 *)
(***************************************************************************)

\* plan_writer_options changes nothing but the parity class maximum.
LEMMA PlannedAreGood ==
    ASSUME InputAssumption, NEW o \in planned_options
    PROVE  GoodOptions(o)
  <1>1. PICK r \in OptionSets : o = plan_writer_options(r)
    BY DEF planned_options
  <1>2. r \in [OptionFields -> Nat] /\ r.block_size > 0 /\ r.stripe_width > 0
    BY DEF InputAssumption, ValidRequest
  <1>3. o = [r EXCEPT !.fec_parity_shards = compute_parity(r, r.fec_data_shards)]
    BY <1>1 DEF plan_writer_options
  <1>4. /\ r.block_size \in Nat /\ r.tag_len \in Nat /\ r.stripe_width \in Nat
        /\ r.volume_loss_tolerance \in Nat /\ r.bit_rot_buffer_pct \in Nat
        /\ r.word_max \in Nat
    BY <1>2 DEF OptionFields
  <1>5. /\ o.block_size = r.block_size /\ o.tag_len = r.tag_len
        /\ o.stripe_width = r.stripe_width
        /\ o.volume_loss_tolerance = r.volume_loss_tolerance
        /\ o.bit_rot_buffer_pct = r.bit_rot_buffer_pct
        /\ o.word_max = r.word_max
    BY <1>2, <1>3 DEF OptionFields
  <1> QED  BY <1>2, <1>4, <1>5 DEF GoodOptions

-----------------------------------------------------------------------------
(***************************************************************************)
(* The invariant                                                           *)
(***************************************************************************)

\* An object as plan_encrypted_object lays it out: its parity is the one its data
\* blocks ask for, and it is within the class maxima the reader checks.
WellPlanned(o, e) ==
    /\ e.first \in Nat /\ e.data \in Nat \ {0} /\ e.parity \in Nat
    /\ e.parity = compute_parity(o, e.data)
    /\ e.data <= o.fec_data_shards
    /\ e.parity <= o.fec_parity_shards
    /\ e.data + e.parity <= o.max_shards
    /\ e.data * o.block_size > o.tag_len

Objects == [first : Nat, data : Nat, parity : Nat]

\* What loading an object gives.
load_result(k) ==
    IF Cardinality(lost) > options.volume_loss_tolerance THEN "refused"
    ELSE IF ~validate_object_extent(extents[k]) THEN "invalid"
    ELSE repair_data(extents[k])

\* Every object of the archive is well planned, the lost volumes are volumes of
\* the archive, and what loading gave is what it gives now: whoever damages the
\* archive further forgets it.
ArchiveInv ==
    /\ options \in planned_options
    /\ extents \in Seq(Objects)
    /\ \A k \in 1 .. Len(extents) : WellPlanned(options, extents[k])
    /\ lost \subseteq 0 .. options.stripe_width - 1
    /\ loaded # NotLoaded => /\ loaded.object \in 1 .. Len(extents)
                             /\ loaded.result = load_result(loaded.object)

\* An object that fits is well planned.
LEMMA FittingObject ==
    ASSUME NEW o, GoodOptions(o), NEW first \in Nat, NEW len \in Nat,
           payload_object_can_fit(o, len)
    PROVE  /\ object_extent(o, first, len) \in Objects
           /\ WellPlanned(o, object_extent(o, first, len))
  <1> DEFINE d == data_block_count(o, len)
             n == len + o.tag_len
  <1>1. n \in Nat /\ n \in Int /\ o.block_size \in Nat \ {0} /\ o.tag_len \in Nat
    BY DEF GoodOptions
  <1>2. n \div o.block_size \in Nat
    BY <1>1
  <1>3. d = n \div o.block_size + 1 /\ d \in Nat \ {0}
    BY <1>2 DEF data_block_count
  <1>4. n = o.block_size * (n \div o.block_size) + (n % o.block_size)
        /\ n % o.block_size \in 0 .. o.block_size - 1
    <2> HIDE DEF n
    <2> QED  BY <1>1, DivMod
  <1>5. d * o.block_size = o.block_size * (n \div o.block_size) + o.block_size
    BY <1>1, <1>2, <1>3
  <1>6. d * o.block_size > n /\ d * o.block_size \in Nat
    BY <1>1, <1>2, <1>3, <1>4, <1>5
  <1>7. d * o.block_size > o.tag_len
    BY <1>1, <1>6
  <1>8. compute_parity(o, d) \in Nat
    BY ComputedParity DEF payload_object_can_fit
  <1>9. /\ d <= o.fec_data_shards
        /\ compute_parity(o, d) <= o.fec_parity_shards
        /\ d + compute_parity(o, d) <= o.max_shards
    BY DEF payload_object_can_fit
  <1>10. object_extent(o, first, len) = [first |-> first, data |-> d, parity |-> compute_parity(o, d)]
    BY DEF object_extent
  <1> HIDE DEF d
  <1> QED  BY <1>3, <1>7, <1>8, <1>9, <1>10 DEF Objects, WellPlanned

\* The number of blocks written so far.
LEMMA TotalBlocksType ==
    ASSUME extents \in Seq(Objects)
    PROVE  total_blocks \in Nat
  <1>1. CASE extents = <<>>
    BY <1>1 DEF total_blocks
  <1>2. CASE extents # <<>>
    <2>1. extents[Len(extents)] \in Objects
      BY <1>2
    <2> QED  BY <1>2, <2>1 DEF total_blocks, next_block_index, Objects
  <1> QED  BY <1>1, <1>2

\* The invariant holds of a new archive.
LEMMA InvInit == Init => ArchiveInv
  BY DEF Init, ArchiveInv, NotLoaded

\* Writing, damaging and loading keep it.
LEMMA InvStep ==
    ASSUME InputAssumption
    PROVE  ArchiveInv /\ [Next]_vars => ArchiveInv'
  <1> SUFFICES ASSUME ArchiveInv, [Next]_vars PROVE ArchiveInv'
    OBVIOUS
  <1>0. GoodOptions(options)
    BY PlannedAreGood DEF ArchiveInv
  <1>1. CASE WriteObject
    <2>1. PICK len \in Lens :
            /\ payload_object_can_fit(options, len)
            /\ extents' = Append(extents, object_extent(options, total_blocks, len))
      BY <1>1 DEF WriteObject
    <2> DEFINE e == object_extent(options, total_blocks, len)
    <2>2. e \in Objects /\ WellPlanned(options, e)
      <3>1. total_blocks \in Nat /\ len \in Nat
        BY TotalBlocksType DEF ArchiveInv, InputAssumption
      <3> QED  BY <1>0, <2>1, <3>1, FittingObject
    <2> HIDE DEF e
    <2>3. extents' = Append(extents, e)
      BY <2>1 DEF e
    <2>4. /\ extents' \in Seq(Objects)
          /\ Len(extents') = Len(extents) + 1
          /\ Len(extents) \in Nat
          /\ \A k \in 1 .. Len(extents) : extents'[k] = extents[k]
          /\ extents'[Len(extents) + 1] = e
      BY <2>2, <2>3, AppendProperties, LenProperties DEF ArchiveInv
    <2>5. UNCHANGED <<options, lost, erased, loaded>>
      BY <1>1 DEF WriteObject
    <2>6. \A k \in 1 .. Len(extents') : WellPlanned(options', extents'[k])
      BY <2>2, <2>4, <2>5 DEF ArchiveInv
    <2>7. (loaded # NotLoaded => /\ loaded.object \in 1 .. Len(extents)
                                 /\ loaded.result = load_result(loaded.object))'
      <3>1. 1 .. Len(extents) \subseteq 1 .. Len(extents')
        BY <2>4
      <3>2. CASE loaded = NotLoaded
        BY <2>5, <3>2
      <3>3. CASE loaded # NotLoaded
        <4> DEFINE k == loaded.object
        <4>1. k \in 1 .. Len(extents) /\ loaded.result = load_result(k)
          BY <3>3 DEF ArchiveInv
        <4>2. load_result(k)' = load_result(k)
          <5>1. k' = k
            BY <2>5
          <5> QED  BY <2>4, <2>5, <4>1, <5>1 DEF load_result, validate_object_extent,
                   required_object_parity, repair_data, readable, data_blocks, object_blocks
        <4> QED  BY <2>5, <3>1, <4>1, <4>2
      <3> QED  BY <3>2, <3>3
    <2> QED  BY <2>4, <2>5, <2>6, <2>7 DEF ArchiveInv
  <1>2. CASE LoseVolume
    BY <1>2 DEF LoseVolume, ArchiveInv
  <1>3. CASE BlockRots
    BY <1>3 DEF BlockRots, ArchiveInv
  <1>4. CASE LoadObject
    <2>1. PICK k \in DOMAIN extents : loaded' = [object |-> k, result |-> load_result(k)]
      BY <1>4 DEF LoadObject, load_result
    <2>2. k \in 1 .. Len(extents)
      BY DEF ArchiveInv
    <2>3. UNCHANGED <<options, extents, lost, erased>>
      BY <1>4 DEF LoadObject
    <2>4. load_result(k)' = load_result(k)
      BY <2>3 DEF load_result, validate_object_extent, required_object_parity,
           repair_data, readable, data_blocks, object_blocks
    <2> QED  BY <2>1, <2>2, <2>3, <2>4 DEF ArchiveInv
  <1>5. CASE RefuseObject \/ UNCHANGED vars
    <2>1. UNCHANGED <<options, extents, lost, erased, loaded>>
      BY <1>5 DEF RefuseObject, vars
    <2>2. \A k : load_result(k)' = load_result(k)
      BY <2>1 DEF load_result, validate_object_extent, required_object_parity,
           repair_data, readable, data_blocks, object_blocks
    <2> QED  BY <2>1, <2>2 DEF ArchiveInv
  <1> QED  BY <1>1, <1>2, <1>3, <1>4, <1>5 DEF Next

-----------------------------------------------------------------------------
(***************************************************************************)
(* Survival                                                                *)
(***************************************************************************)

\* Enough shards are left of a well planned object within its budget.
LEMMA EnoughShards ==
    ASSUME InputAssumption, ArchiveInv, NEW k \in 1 .. Len(extents),
           Cardinality(lost) <= options.volume_loss_tolerance,
           Cardinality(rotten(extents[k])) <= rot_budget(extents[k])
    PROVE  Cardinality(readable(extents[k])) >= extents[k].data
  <1> DEFINE e == extents[k]
             o == options
             n == e.data + e.parity
             B == object_blocks(e)
             L == {b \in B : b % o.stripe_width \in lost}
             R == rotten(e)
             c == ceil_div(n, o.stripe_width)
  <1>1. GoodOptions(o)
    BY PlannedAreGood DEF ArchiveInv
  <1>2. WellPlanned(o, e)
    BY DEF ArchiveInv
  <1>3. /\ e.first \in Nat /\ e.data \in Nat /\ e.parity \in Nat /\ n \in Nat
        /\ o.stripe_width \in Nat \ {0} /\ o.volume_loss_tolerance \in Nat
    BY <1>1, <1>2 DEF WellPlanned, GoodOptions
  <1>4. B = e.first .. e.first + n - 1
    BY <1>3, SMTT(40) DEF object_blocks, next_block_index
  <1>5. IsFiniteSet(B) /\ Cardinality(B) = n
    <2> HIDE DEF B, n, e
    <2> QED  BY <1>3, <1>4, IntervalSize
  <1>6. IsFiniteSet(lost) /\ Cardinality(lost) \in Nat
    <2>1. IsFiniteSet(0 .. o.stripe_width - 1)
      BY <1>3, IntervalSize
    <2>2. lost \in SUBSET (0 .. o.stripe_width - 1)
      BY DEF ArchiveInv
    <2>3. IsFiniteSet(lost)
      BY <2>1, <2>2, FS_Subset
    <2> QED  BY <2>3, FS_CardinalityType
  <1>7. /\ IsFiniteSet(L) /\ Cardinality(L) \in Nat
        /\ Cardinality(L) <= Cardinality(lost) * c
    <2>1. lost \subseteq 0 .. o.stripe_width - 1
      BY DEF ArchiveInv
    <2>2. L = {b \in e.first .. e.first + n - 1 : b % o.stripe_width \in lost}
      BY <1>4
    <2> DEFINE f == e.first
               w == o.stripe_width
    <2>3. /\ f \in Nat /\ w \in Nat \ {0} /\ lost \subseteq 0 .. w - 1
          /\ L \subseteq f .. f + n - 1 /\ \A b \in L : b % w \in lost
      BY <1>3, <2>1, <2>2
    <2>4. c = ceil_div(n, w)
      OBVIOUS
    <2> HIDE DEF L, n, f, w, c
    <2> QED  BY <1>3, <2>3, <2>4, BlocksOnVolumes
  <1>8. /\ c \in Nat /\ rot_budget(e) \in Nat
        /\ o.volume_loss_tolerance * c + rot_budget(e) <= e.parity
    <2>1. parity_step(o, e.data, e.parity) = e.parity
      <3>1. e.parity = compute_parity(o, e.data) /\ e.parity # NoPlan
        BY <1>2, <1>3 DEF WellPlanned, NoPlan
      <3> QED  BY <3>1, ComputedParity
    <2>2. budget(o, e.data, e.parity) <= e.parity
      BY <1>1, <1>3, <2>1, FixedPointCovers
    <2>3. c \in Nat /\ ceil_div((e.data + e.parity) * o.bit_rot_buffer_pct, 100) \in Nat
      BY <1>1, <1>3, BudgetType
    <2> QED  BY <2>2, <2>3 DEF budget, rot_budget
  <1>9. Cardinality(L) <= o.volume_loss_tolerance * c
    <2>1. Cardinality(lost) * c <= o.volume_loss_tolerance * c
      <3>1. Cardinality(lost) <= o.volume_loss_tolerance
        OBVIOUS
      <3> HIDE DEF c, o
      <3> QED  BY <1>3, <1>6, <1>8, <3>1, TimesMonotone
    <2>2. Cardinality(lost) * c \in Nat /\ o.volume_loss_tolerance * c \in Nat
      BY <1>3, <1>6, <1>8, SMTT(40)
    <2> HIDE DEF c, o, L
    <2> QED  BY <1>7, <2>1, <2>2
  <1>10. R \subseteq B /\ IsFiniteSet(R) /\ Cardinality(R) \in Nat
    <2>1. R \in SUBSET B
      BY DEF rotten
    <2>2. IsFiniteSet(R)
      BY <1>5, <2>1, FS_Subset
    <2> QED  BY <2>1, <2>2, FS_CardinalityType
  <1>11. Cardinality(L \cup R) <= e.parity /\ IsFiniteSet(L \cup R) /\ Cardinality(L \cup R) \in Nat
    <2>1. /\ IsFiniteSet(L \cup R)
          /\ Cardinality(L \cup R) = Cardinality(L) + Cardinality(R) - Cardinality(L \cap R)
      <3> HIDE DEF L, R
      <3> QED  BY <1>7, <1>10, FS_Union
    <2>2. Cardinality(L \cap R) \in Nat
      <3>1. IsFiniteSet(L \cap R)
        <4> HIDE DEF L, R
        <4> QED  BY <1>7, FS_Intersection
      <3> QED  BY <3>1, FS_CardinalityType
    <2>3. Cardinality(R) <= rot_budget(e)
      OBVIOUS
    <2>4. Cardinality(L \cup R) \in Nat
      BY <2>1, FS_CardinalityType
    <2>5. o.volume_loss_tolerance * c \in Nat
      BY <1>3, <1>8
    <2> HIDE DEF L, R, e, o, c
    <2> QED  BY <1>3, <1>7, <1>8, <1>9, <1>10, <2>1, <2>2, <2>3, <2>4, <2>5, SMTT(40)
  <1>12. readable(e) = B \ (L \cup R)
    BY DEF readable, volume_of, rotten
  <1>13. Cardinality(B \ (L \cup R)) = Cardinality(B) - Cardinality(B \cap (L \cup R))
    <2> HIDE DEF B, L, R
    <2> QED  BY <1>5, FS_Difference
  <1>14. B \cap (L \cup R) = L \cup R
    BY <1>10
  <1>15. Cardinality(readable(e)) = n - Cardinality(L \cup R)
    BY <1>5, <1>12, <1>13, <1>14
  <1>16. n - Cardinality(L \cup R) >= e.data
    <2> HIDE DEF L, R, e
    <2> QED  BY <1>3, <1>11
  <1> QED  BY <1>15, <1>16

\* The blocks of an object lie side by side.
LEMMA BlocksOfExtent ==
    ASSUME NEW e, e.first \in Nat, e.data \in Nat, e.parity \in Nat
    PROVE  /\ e.data + e.parity \in Nat
           /\ object_blocks(e) = e.first .. e.first + (e.data + e.parity) - 1
  BY DEF object_blocks, next_block_index

\* The reader accepts the extent of every object the writer planned.
LEMMA PlannedIsValid ==
    ASSUME ArchiveInv, NEW k \in 1 .. Len(extents)
    PROVE  validate_object_extent(extents[k])
  BY DEF ArchiveInv, WellPlanned, validate_object_extent, required_object_parity

\* For any options that plan_writer_options accepts, any objects, any loss of at
\* most volume_loss_tolerance volumes together with any rot within
\* bit_rot_buffer_pct, the object loads (up to the reader's matrix limit).
THEOREM ArchiveSurvives ==
    ASSUME InputAssumption
    PROVE  Spec => []SurvivesItsBudget
  <1>1. ArchiveInv => SurvivesItsBudget
    <2> SUFFICES ASSUME ArchiveInv, loaded # NotLoaded,
                        Cardinality(lost) <= options.volume_loss_tolerance,
                        Cardinality(rotten(extents[loaded.object]))
                          <= rot_budget(extents[loaded.object]),
                        extents[loaded.object].data <= RepairCap
                 PROVE  loaded.result = "ok"
      BY DEF SurvivesItsBudget
    <2> DEFINE k == loaded.object
    <2>1. k \in 1 .. Len(extents) /\ loaded.result = load_result(k)
      BY DEF ArchiveInv
    <2>2. validate_object_extent(extents[k])
      BY <2>1, PlannedIsValid
    <2>3. Cardinality(readable(extents[k])) >= extents[k].data
      BY <2>1, EnoughShards
    <2>4. /\ Cardinality(lost) \in Nat /\ options.volume_loss_tolerance \in Nat
          /\ Cardinality(readable(extents[k])) \in Nat /\ extents[k].data \in Nat
      <3>1. GoodOptions(options) /\ WellPlanned(options, extents[k])
        BY <2>1, PlannedAreGood DEF ArchiveInv
      <3>2. /\ options.stripe_width \in Nat \ {0} /\ options.volume_loss_tolerance \in Nat
            /\ extents[k].first \in Nat /\ extents[k].data \in Nat /\ extents[k].parity \in Nat
        BY <3>1 DEF GoodOptions, WellPlanned
      <3>3. IsFiniteSet(0 .. options.stripe_width - 1) /\ lost \in SUBSET (0 .. options.stripe_width - 1)
        BY <3>2, IntervalSize DEF ArchiveInv
      <3>4. IsFiniteSet(lost)
        BY <3>3, FS_Subset
      <3>5. /\ extents[k].data + extents[k].parity \in Nat
            /\ object_blocks(extents[k])
                 = extents[k].first .. extents[k].first + (extents[k].data + extents[k].parity) - 1
        BY <3>2, BlocksOfExtent
      <3>6. IsFiniteSet(object_blocks(extents[k]))
        BY <3>2, <3>5, IntervalSize, ZenonT(60)
      <3>7. readable(extents[k]) \in SUBSET object_blocks(extents[k])
        BY DEF readable
      <3>8. IsFiniteSet(readable(extents[k]))
        BY <3>6, <3>7, FS_Subset
      <3> QED  BY <3>2, <3>4, <3>8, FS_CardinalityType
    <2>5. RepairCap \in Nat
      BY DEF InputAssumption
    <2> QED  BY <2>1, <2>2, <2>3, <2>4, <2>5 DEF load_result, repair_data
  <1> QED  BY <1>1, InvInit, InvStep, PTL DEF Spec

-----------------------------------------------------------------------------
\* compute_parity's fixed-point iteration stops at the least parity that covers
\* what the object's own size asks for, for every object of every archive.
THEOREM ParityAlwaysLeast ==
    ASSUME InputAssumption
    PROVE  Spec => []ParityIsLeast
  <1>1. ArchiveInv => ParityIsLeast
    <2> SUFFICES ASSUME ArchiveInv, NEW k \in DOMAIN extents,
                        NEW p \in 0 .. extents[k].parity - 1
                 PROVE  parity_step(options, extents[k].data, p) > p
      BY DEF ParityIsLeast
    <2> DEFINE e == extents[k]
    <2>1. WellPlanned(options, e)
      BY DEF ArchiveInv
    <2>2. GoodOptions(options)
      BY PlannedAreGood DEF ArchiveInv
    <2>3. /\ e.data \in Nat /\ e.parity \in Nat
          /\ e.parity = compute_parity(options, e.data)
      BY <2>1 DEF WellPlanned
    <2>4. p \in Nat /\ p < e.parity /\ e.parity # NoPlan
      BY <2>3 DEF NoPlan
    <2> HIDE DEF e
    <2>5. parity_step(options, e.data, p) > p
      BY <2>2, <2>3, <2>4, ComputedIsLeast
    <2> QED  BY <2>5 DEF e
  <1> QED  BY <1>1, InvInit, InvStep, PTL DEF Spec
=============================================================================
