---------------------- MODULE NonSeekableReaderProofs ----------------------
(***************************************************************************)
(* Proofs about reading an archive from a pipe, for any archive, any       *)
(* number of faults in any order and any cap on the metadata kept: what is *)
(* decoded is the beginning of what was written, a success is complete,    *)
(* and a reader gives up exactly where the damage is not tolerable.        *)
(*                                                                         *)
(* Without the index the reader takes a run of erased blocks for the end   *)
(* of an envelope's data, however far it reaches.  So the envelope pending *)
(* is either as it was written, with a gap at its end, or it is doomed: it *)
(* has swallowed its own parity, and perhaps whole envelopes after it, and *)
(* has taken the parity of a later one for its own.  The heart of the      *)
(* proof is that no doomed envelope ever passes for a good one.  This      *)
(* needs how much parity compute_parity asks for: a doomed envelope has    *)
(* either less than its size asks for or, being at least two blocks longer *)
(* than the envelope whose parity it took, more gaps than that repairs.    *)
(***************************************************************************)
EXTENDS NonSeekableReader, PayloadFramesProofs

-----------------------------------------------------------------------------
(***************************************************************************)
(* Parity on one volume                                                    *)
(***************************************************************************)

\* The options of a single-volume archive.
OneVolume(o) ==
    /\ GoodOptions(o)
    /\ o.stripe_width = 1 /\ o.volume_loss_tolerance = 0
    /\ o.fec_data_shards \in Nat \ {0} /\ o.fec_parity_shards \in Nat
    /\ compute_parity(o, o.fec_data_shards) = o.fec_parity_shards

LEMMA RequestedOptions ==
    ASSUME NEW o, ValidOptions(o), o.stripe_width = 1
    PROVE  OneVolume(o)
  <1>1. o \in [OptionFields -> Nat] /\ o.block_size > 0 /\ o.stripe_width > 0
        /\ o.volume_loss_tolerance < o.stripe_width /\ o.fec_data_shards > 0
    BY DEF ValidOptions, ValidRequest
  <1>2. /\ o.block_size \in Nat /\ o.tag_len \in Nat /\ o.stripe_width \in Nat
        /\ o.volume_loss_tolerance \in Nat /\ o.bit_rot_buffer_pct \in Nat
        /\ o.word_max \in Nat /\ o.fec_data_shards \in Nat /\ o.fec_parity_shards \in Nat
    BY <1>1 DEF OptionFields
  <1>3. o = [o EXCEPT !.fec_parity_shards = compute_parity(o, o.fec_data_shards)]
    BY DEF ValidOptions, plan_writer_options
  <1>4. "fec_parity_shards" \in DOMAIN o
    BY <1>1 DEF OptionFields
  <1>5. compute_parity(o, o.fec_data_shards) = o.fec_parity_shards
    BY <1>3, <1>4
  <1> QED  BY <1>1, <1>2, <1>5 DEF OneVolume, GoodOptions

\* On one volume the parity that a guess asks for depends on the blocks in all.
LEMMA StepByTotal ==
    ASSUME NEW o, NEW d \in Nat, NEW p \in Nat, NEW c \in Nat, NEW q \in Nat, d + p = c + q
    PROVE  parity_step(o, d, p) = parity_step(o, c, q)
  BY DEF parity_step

\* A larger object asks for no less parity.
LEMMA ParityMonotone ==
    ASSUME NEW o, GoodOptions(o), NEW c \in Nat, NEW d \in Nat, c <= d,
           compute_parity(o, c) # NoPlan, compute_parity(o, d) # NoPlan
    PROVE  compute_parity(o, c) <= compute_parity(o, d)
  <1> DEFINE p == compute_parity(o, c)
             q == compute_parity(o, d)
  <1>1. p \in Nat /\ q \in Nat /\ parity_step(o, d, q) = q
    BY ComputedParity
  <1>2. SUFFICES ASSUME q < p PROVE FALSE
    BY <1>1
  <1>3. parity_step(o, c, q) > q
    BY <1>1, <1>2, ComputedIsLeast
  <1>4. parity_step(o, d, q) = parity_step(o, 0, d + q)
    <2>1. d + q = 0 + (d + q) /\ d + q \in Nat /\ 0 \in Nat /\ q \in Nat
      BY <1>1
    <2> HIDE DEF p, q
    <2> QED  BY <2>1, StepByTotal
  <1>5. parity_step(o, c, q) = parity_step(o, 0, c + q)
    <2>1. c + q = 0 + (c + q) /\ c + q \in Nat /\ 0 \in Nat /\ q \in Nat
      BY <1>1
    <2> HIDE DEF p, q
    <2> QED  BY <2>1, StepByTotal
  <1>6. /\ parity_step(o, 0, c + q) <= parity_step(o, 0, d + q)
        /\ parity_step(o, 0, c + q) \in Nat
    <2>1. c + q \in Nat /\ d + q \in Nat /\ c + q <= d + q /\ 0 \in Nat
      BY <1>1
    <2>2. parity_step(o, 0, d + q) # NoPlan
      BY <1>1, <1>4 DEF NoPlan
    <2> HIDE DEF p, q
    <2> QED  BY <2>1, <2>2, StepMonotone
  <1> HIDE DEF p, q
  <1> QED  BY <1>1, <1>3, <1>4, <1>5, <1>6

\* Rounding up to a quotient p > 0: p - 1 would not have been enough.
LEMMA CeilDivTight ==
    ASSUME NEW n \in Nat, NEW d \in Nat \ {0}
    PROVE  d * ceil_div(n, d) <= n + d - 1
  <1>1. n + d - 1 \in Nat
    OBVIOUS
  <1>2. (n + d - 1) \div d \in Nat
    BY <1>1
  <1>3. n + d - 1 = d * ((n + d - 1) \div d) + ((n + d - 1) % d)
        /\ (n + d - 1) % d \in 0 .. d - 1
    BY <1>1, DivMod
  <1> QED  BY <1>2, <1>3 DEF ceil_div

\* The parity of an object on one volume: none without a bit-rot buffer, and
\* otherwise the buffer's share of the blocks, rounded up, and at least one.
LEMMA ParityShare ==
    ASSUME NEW o, OneVolume(o), NEW d \in Nat, NEW p \in Nat, p = compute_parity(o, d)
    PROVE  /\ o.bit_rot_buffer_pct = 0 => p = 0
           /\ o.bit_rot_buffer_pct > 0 =>
                 /\ p > 0
                 /\ (d + p) * o.bit_rot_buffer_pct <= 100 * p
                 /\ p = 1 \/ 100 * p <= (d + p) * o.bit_rot_buffer_pct + 99
  <1> DEFINE pct == o.bit_rot_buffer_pct
             n   == (d + p) * pct
             c   == ceil_div(n, 100)
             v   == ceil_div(d + p, o.stripe_width)
  <1>1. pct \in Nat /\ n \in Nat /\ v \in Nat /\ o.volume_loss_tolerance * v = 0
    <2>1. pct \in Nat /\ v \in Nat
      BY BudgetType DEF OneVolume, GoodOptions
    <2>2. o.volume_loss_tolerance * v = 0
      <3> HIDE DEF v
      <3> QED  BY <2>1 DEF OneVolume
    <2>3. n \in Nat
      <3> HIDE DEF pct
      <3> QED  BY <2>1
    <2> QED  BY <2>1, <2>2, <2>3
  <1>2. parity_step(o, d, p) = p /\ p # NoPlan
    BY ComputedParity DEF NoPlan
  <1>3. p = IF o.volume_loss_tolerance * v + c > IF o.volume_loss_tolerance > 0 \/ pct > 0 THEN 1 ELSE 0
            THEN o.volume_loss_tolerance * v + c
            ELSE IF o.volume_loss_tolerance > 0 \/ pct > 0 THEN 1 ELSE 0
    BY <1>2 DEF parity_step
  <1>4. c \in Nat /\ n <= 100 * c /\ 100 * c <= n + 99
    <2>1. 100 \in Nat \ {0}
      OBVIOUS
    <2> HIDE DEF n
    <2>2. ceil_div(n, 100) \in Nat /\ n <= 100 * ceil_div(n, 100)
      BY <1>1, <2>1, CeilDiv
    <2>3. 100 * ceil_div(n, 100) <= n + 100 - 1
      BY <1>1, <2>1, CeilDivTight
    <2> QED  BY <1>1, <2>2, <2>3
  <1>5. o.volume_loss_tolerance = 0
    BY DEF OneVolume
  <1>6. p = IF c > IF pct > 0 THEN 1 ELSE 0 THEN c ELSE IF pct > 0 THEN 1 ELSE 0
    <2> HIDE DEF c, v, pct
    <2> QED  BY <1>1, <1>3, <1>4, <1>5
  <1>7. pct = 0 => n = 0
    <2> HIDE DEF pct
    <2> QED  BY <1>1
  <1> HIDE DEF c, v, pct, n
  <1>8. /\ pct = 0 => p = 0
        /\ pct > 0 => p > 0 /\ n <= 100 * p /\ (p = 1 \/ 100 * p <= n + 99)
    BY <1>1, <1>4, <1>6, <1>7
  <1> QED  BY <1>8 DEF n, pct

\* An object two blocks longer than another with the same parity p: the shorter
\* one has more than p - 2 data blocks.  For p parity blocks are a share below
\* one half, or else two blocks more would ask for one more.
LEMMA SameParity ==
    ASSUME NEW o, OneVolume(o), o.bit_rot_buffer_pct > 0,
           NEW c \in Nat, NEW d \in Nat, c + 2 <= d,
           NEW p \in Nat, p = compute_parity(o, c), p = compute_parity(o, d)
    PROVE  p < c + 2
  <1> DEFINE pct == o.bit_rot_buffer_pct
  <1>1. pct \in Nat /\ pct > 0
    BY DEF OneVolume, GoodOptions
  <1>2. p = 1 \/ 100 * p <= (c + p) * pct + 99
    BY ParityShare
  <1>3. (d + p) * pct <= 100 * p
    BY ParityShare
  <1> HIDE DEF pct
  <1>4. (c + p + 2) * pct <= (d + p) * pct
    <2>1. c + p + 2 \in Nat /\ d + p \in Nat /\ c + p + 2 <= d + p
      OBVIOUS
    <2> QED  BY <1>1, <2>1, TimesMonotone
  <1>5. (c + p + 2) * pct = (c + p) * pct + 2 * pct
    BY <1>1
  <1>6. SUFFICES ASSUME p >= c + 2 PROVE FALSE
    OBVIOUS
  <1> DEFINE x == (c + p) * pct
             y == (d + p) * pct
  <1>7. x \in Nat /\ y \in Nat
    BY <1>1
  <1>8. pct <= 49
    <2>1. x + 2 * pct <= y /\ y <= 100 * p /\ 100 * p <= x + 99
      BY <1>2, <1>3, <1>4, <1>5, <1>6
    <2> HIDE DEF x, y
    <2> QED  BY <1>1, <1>7, <2>1
  <1>9. x <= (c + p) * 49
    <2>1. c + p \in Nat /\ 49 \in Nat
      OBVIOUS
    <2>2. pct * (c + p) <= 49 * (c + p)
      BY <1>1, <1>8, <2>1, TimesMonotone
    <2>3. pct * (c + p) = (c + p) * pct /\ 49 * (c + p) = (c + p) * 49
      BY <1>1
    <2> QED  BY <2>2, <2>3
  <1>10. 100 * p <= x + 99
    BY <1>2, <1>6
  <1> HIDE DEF x
  <1> QED  BY <1>6, <1>7, <1>9, <1>10

-----------------------------------------------------------------------------
(***************************************************************************)
(* The archive                                                             *)
(***************************************************************************)

payloads(a) == Len(a.envelopes)
count(a) == Len(a.envelopes) + Len(a.metadata)
obj(a, k) == (a.envelopes \o a.metadata)[k]
end_of(a, k) == next_block_index(obj(a, k))

guaranteed(a) ==
    /\ a.options.fec_parity_shards > 0
    /\ a.options.volume_loss_tolerance > 0 \/ a.options.bit_rot_buffer_pct > 0

\* The objects of an archive follow one another from block 0, each of them within
\* the class maxima and with the parity its size asks for.
LaidOut(a) ==
    /\ a.envelopes \in Seq(Extents) /\ a.metadata \in Seq(Extents) /\ a.metadata # <<>>
    /\ obj(a, 1).first = 0
    /\ \A k \in 1 .. count(a) :
          /\ obj(a, k).data \in 1 .. a.options.fec_data_shards
          /\ obj(a, k).parity = a.required_parity[obj(a, k).data]
          /\ obj(a, k).parity <= a.options.fec_parity_shards
          /\ IF guaranteed(a) THEN obj(a, k).parity > 0 ELSE obj(a, k).parity = 0
    /\ \A k \in 1 .. count(a) - 1 : obj(a, k + 1).first = end_of(a, k)
    /\ \A i, j \in 1 .. count(a) : i < j => end_of(a, i) <= obj(a, j).first

\* What the reader knows of the parity of an envelope of a given size.
RequiredParity(a) ==
    LET full == a.options.fec_data_shards
        required(d) == a.required_parity[d]
    IN  /\ full \in Nat /\ a.options.fec_parity_shards \in Nat
        /\ \A d \in 0 .. full : required(d) \in Nat \cup {NoPlan}
        /\ \A c, d \in 0 .. full :
              c <= d /\ required(c) # NoPlan /\ required(d) # NoPlan => required(c) <= required(d)
        /\ \A c, d \in 0 .. full :
              c + 2 <= d /\ required(c) = required(d) /\ required(d) # NoPlan /\ guaranteed(a)
                => required(d) < c + 2

\* Running totals, given the totals g before place k.
total_next(s, g, k) == IF k = 0 THEN 0 ELSE g[k - 1] + s[k]
totals_to(s, g, n) == g = [k \in 0 .. n |-> total_next(s, g, k)]

\* Totals can be run up to any place.
LEMMA TotalsExist ==
    ASSUME NEW s, NEW n \in Nat
    PROVE  \E g : totals_to(s, g, n)
  <1> DEFINE T == {k \in Nat : ~ \E g : totals_to(s, g, k)}
  <1>1. SUFFICES ASSUME T # {} PROVE FALSE
    OBVIOUS
  <1>2. PICK m \in T : \A k \in T : m <= k
    <2>1. T \subseteq Nat
      OBVIOUS
    <2> HIDE DEF T
    <2> QED  BY <1>1, <2>1, LeastNumber
  <1>3. m \in Nat /\ ~ \E g : totals_to(s, g, m)
    OBVIOUS
  <1>4. CASE m = 0
    <2> DEFINE h == [i \in 0 .. 0 |-> 0]
    <2>1. h = [i \in 0 .. 0 |-> total_next(s, h, i)]
      BY DEF total_next
    <2> QED  BY <1>3, <1>4, <2>1 DEF totals_to
  <1>5. CASE m # 0
    <2>1. m - 1 \in Nat /\ m - 1 \notin T
      BY <1>2, <1>3, <1>5
    <2>2. PICK g : totals_to(s, g, m - 1)
      BY <2>1
    <2>3. \A i \in 0 .. m - 1 : g[i] = total_next(s, g, i)
      BY <2>2 DEF totals_to
    <2> DEFINE h == [i \in 0 .. m |-> IF i = m THEN total_next(s, g, m) ELSE g[i]]
    <2>4. \A i \in 0 .. m : h[i] = total_next(s, h, i)
      <3> TAKE i \in 0 .. m
      <3>1. i = 0 \/ (i - 1 \in 0 .. m - 1 /\ h[i - 1] = g[i - 1])
        BY <1>3
      <3>2. total_next(s, h, i) = total_next(s, g, i)
        BY <3>1 DEF total_next
      <3> QED  BY <1>3, <2>3, <3>2
    <2>5. h = [i \in 0 .. m |-> h[i]]
      OBVIOUS
    <2>6. h = [i \in 0 .. m |-> total_next(s, h, i)]
      <3> HIDE DEF h
      <3> QED  BY <2>4, <2>5
    <2>7. totals_to(s, h, m)
      <3> HIDE DEF h
      <3> QED  BY <2>6 DEF totals_to
    <2> QED  BY <1>3, <2>7
  <1> QED  BY <1>4, <1>5

\* The running totals of numbers.
LEMMA RunningTotals ==
    ASSUME NEW s \in Seq(Nat)
    PROVE  /\ running_totals(s)[0] = 0
           /\ \A k \in 1 .. Len(s) : running_totals(s)[k] = running_totals(s)[k - 1] + s[k]
           /\ \A k \in 0 .. Len(s) : running_totals(s)[k] \in Nat
  <1> DEFINE g == running_totals(s)
             T == {k \in 0 .. Len(s) : g[k] \notin Nat}
  <1>1. g = CHOOSE f : totals_to(s, f, Len(s))
    BY DEF running_totals, total_next, totals_to
  <1>2. totals_to(s, g, Len(s))
    <2>1. Len(s) \in Nat
      OBVIOUS
    <2>2. \E f : totals_to(s, f, Len(s))
      BY <2>1, TotalsExist
    <2> QED  BY <1>1, <2>2
  <1> HIDE DEF g
  <1>3. \A k \in 0 .. Len(s) : g[k] = total_next(s, g, k)
    BY <1>2 DEF totals_to
  <1>4. g[0] = 0 /\ \A k \in 1 .. Len(s) : g[k] = g[k - 1] + s[k]
    BY <1>3 DEF total_next
  <1>5. T = {}
    <2> SUFFICES ASSUME T # {} PROVE FALSE
      OBVIOUS
    <2>1. T \subseteq Nat
      OBVIOUS
    <2>2. PICK m \in T : \A k \in T : m <= k
      <3> HIDE DEF T
      <3> QED  BY <2>1, LeastNumber
    <2>3. m \in 0 .. Len(s) /\ g[m] \notin Nat
      OBVIOUS
    <2>4. m # 0
      BY <1>4, <2>3
    <2>5. m - 1 \in 0 .. Len(s) /\ m - 1 \notin T
      BY <2>2, <2>3, <2>4
    <2>6. g[m - 1] \in Nat /\ s[m] \in Nat
      BY <2>3, <2>4, <2>5
    <2> QED  BY <1>4, <2>3, <2>4, <2>6
  <1> QED  BY <1>4, <1>5 DEF g

\* The objects of a request, one after the other.
LEMMA LayOut ==
    ASSUME NEW r \in Requests
    PROVE  LET L == lay_out(r)
           IN  /\ L \in Seq(Extents)
               /\ Len(L) = Len(r.payload) + Len(r.metadata)
               /\ Len(r.payload) \in Nat /\ Len(r.metadata) \in Nat \ {0}
               /\ L[1].first = 0
               /\ \A k \in 1 .. Len(L) :
                     /\ L[k].data \in 1 .. r.options.fec_data_shards
                     /\ L[k].parity = compute_parity(r.options, L[k].data)
               /\ \A k \in 1 .. Len(L) - 1 : L[k + 1].first = next_block_index(L[k])
  <1> DEFINE P == r.payload
             M == r.metadata
             sizes == P \o M
             parity(k) == compute_parity(r.options, sizes[k])
             n == Len(sizes)
             lengths == [k \in 1 .. n |-> sizes[k] + parity(k)]
             g == running_totals(lengths)
             L == lay_out(r)
  <1>1. /\ r.payload \in Seq(Nat) /\ r.metadata \in Seq(Nat) /\ r.metadata # <<>>
        /\ \A d \in {r.payload[k] : k \in DOMAIN r.payload}
                    \cup {r.metadata[k] : k \in DOMAIN r.metadata} :
              d \in 1 .. r.options.fec_data_shards /\ compute_parity(r.options, d) # NoPlan
        /\ OneVolume(r.options)
    BY RequestAssumption, RequestedOptions
  <1>2. P \in Seq(Nat) /\ M \in Seq(Nat) /\ M # <<>>
    BY <1>1
  <1>21. /\ sizes \in Seq(Nat) /\ n = Len(P) + Len(M)
         /\ \A i \in 1 .. Len(P) : sizes[i] = P[i]
         /\ \A i \in 1 .. Len(M) : sizes[Len(P) + i] = M[i]
    <2> HIDE DEF P, M
    <2> QED  BY <1>2, ConcatProperties
  <1>22. Len(P) \in Nat /\ Len(M) \in Nat \ {0} /\ DOMAIN P = 1 .. Len(P) /\ DOMAIN M = 1 .. Len(M)
    <2> HIDE DEF P, M
    <2> QED  BY <1>2, LenProperties, EmptySeq
  <1>23. n \in Nat \ {0}
    <2> HIDE DEF P, M, n
    <2> QED  BY <1>21, <1>22
  <1>3. \A k \in 1 .. n : /\ sizes[k] \in 1 .. r.options.fec_data_shards
                          /\ compute_parity(r.options, sizes[k]) # NoPlan
    <2> TAKE k \in 1 .. n
    <2>1. CASE k <= Len(P)
      <3>1. sizes[k] = P[k] /\ k \in DOMAIN P
        <4> HIDE DEF P, M, sizes, n
        <4> QED  BY <1>21, <1>22, <1>23, <2>1
      <3> QED  BY <1>1, <3>1
    <2>2. CASE k > Len(P)
      <3>1. PICK i \in DOMAIN M : k = Len(P) + i
        <4>1. k - Len(P) \in 1 .. Len(M) /\ k = Len(P) + (k - Len(P))
          <5>1. n = Len(P) + Len(M)
            BY <1>21
          <5> HIDE DEF P, M, sizes, n
          <5> QED  BY <1>22, <1>23, <2>2, <5>1
        <4> HIDE DEF P, M
        <4> QED  BY <1>22, <4>1
      <3>2. sizes[k] = M[i]
        <4> HIDE DEF P, M, sizes, n
        <4> QED  BY <1>21, <1>22, <3>1
      <3> QED  BY <1>1, <3>1, <3>2
    <2>3. k \in Nat /\ Len(P) \in Nat
      <3> HIDE DEF P, n
      <3> QED  BY <1>22, <1>23
    <2> QED  BY <2>1, <2>2, <2>3
  <1>4. \A k \in 1 .. n : sizes[k] \in Nat /\ parity(k) \in Nat
    <2> TAKE k \in 1 .. n
    <2>1. compute_parity(r.options, sizes[k]) # NoPlan
      BY <1>3
    <2>2. parity(k) \in Nat
      <3> HIDE DEF sizes
      <3> QED  BY <2>1, ComputedParity
    <2>3. sizes[k] \in Nat
      <3> HIDE DEF sizes
      <3> QED  BY <1>3
    <2> QED  BY <2>2, <2>3
  <1>5. L = [k \in 1 .. n |-> [first |-> g[k - 1], data |-> sizes[k], parity |-> parity(k)]]
    BY DEF lay_out
  <1> HIDE DEF P, M, sizes, parity, n, L
  <1>6. lengths \in Seq(Nat) /\ Len(lengths) = n
    <2>1. \A k \in 1 .. n : sizes[k] + parity(k) \in Nat
      BY <1>4
    <2> QED  BY <1>23, <2>1
  <1>7. /\ g[0] = 0
        /\ \A k \in 1 .. n : g[k] = g[k - 1] + lengths[k]
        /\ \A k \in 0 .. n : g[k] \in Nat
    <2> HIDE DEF lengths
    <2> QED  BY <1>6, RunningTotals
  <1>8. \A k \in 1 .. n : g[k] = g[k - 1] + (sizes[k] + parity(k))
    BY <1>7
  <1> HIDE DEF lengths, g
  <1>9. L \in Seq(Extents) /\ Len(L) = n
    <2>1. \A k \in 1 .. n : [first |-> g[k - 1], data |-> sizes[k], parity |-> parity(k)] \in Extents
      <3> TAKE k \in 1 .. n
      <3>1. k - 1 \in 0 .. n
        BY <1>23
      <3> QED  BY <1>4, <1>7, <3>1 DEF Extents
    <2> QED  BY <1>23, <1>5, <2>1
  <1>10. \A k \in 1 .. n : L[k].first = g[k - 1] /\ L[k].data = sizes[k] /\ L[k].parity = parity(k)
    <2> TAKE k \in 1 .. n
    <2>1. L[k] = [first |-> g[k - 1], data |-> sizes[k], parity |-> parity(k)]
      BY <1>5
    <2> QED  BY <2>1
  <1>11. 1 \in 1 .. n
    BY <1>23
  <1>12. L[1].first = 0
    <2>1. L[1].first = g[1 - 1]
      BY <1>10, <1>11
    <2> QED  BY <1>7, <2>1
  <1>13. \A k \in 1 .. n : /\ L[k].data \in 1 .. r.options.fec_data_shards
                           /\ L[k].parity = compute_parity(r.options, L[k].data)
    BY <1>3, <1>10 DEF parity
  <1>14. \A k \in 1 .. n - 1 : L[k + 1].first = next_block_index(L[k])
    <2> TAKE k \in 1 .. n - 1
    <2>1. k \in 1 .. n /\ k + 1 \in 1 .. n /\ k + 1 - 1 = k /\ k - 1 \in 0 .. n
      BY <1>23
    <2>2. L[k + 1].first = g[k]
      BY <1>10, <2>1
    <2>3. next_block_index(L[k]) = g[k - 1] + sizes[k] + parity(k)
      BY <1>10, <2>1 DEF next_block_index
    <2> QED  BY <1>4, <1>7, <1>8, <2>1, <2>2, <2>3
  <1> QED  BY <1>21, <1>22, <1>9, <1>12, <1>13, <1>14 DEF L, P, M

\* A sequence cut in two.
LEMMA CutInTwo ==
    ASSUME NEW S, NEW L \in Seq(S), NEW m \in 0 .. Len(L)
    PROVE  /\ SubSeq(L, 1, m) \in Seq(S) /\ Len(SubSeq(L, 1, m)) = m
           /\ SubSeq(L, m + 1, Len(L)) \in Seq(S) /\ Len(SubSeq(L, m + 1, Len(L))) = Len(L) - m
           /\ \A k \in 1 .. Len(L) : (SubSeq(L, 1, m) \o SubSeq(L, m + 1, Len(L)))[k] = L[k]
  <1> DEFINE A == SubSeq(L, 1, m)
             B == SubSeq(L, m + 1, Len(L))
  <1>1. Len(L) \in Nat /\ m \in Nat /\ m <= Len(L)
    BY LenProperties
  <1>2. A \in Seq(S) /\ Len(A) = m /\ \A i \in 1 .. m : A[i] = L[i]
    <2>1. \A i \in 1 .. m : L[i] \in S
      BY <1>1, LenProperties
    <2> QED  BY <1>1, <2>1
  <1>3. B \in Seq(S) /\ Len(B) = Len(L) - m /\ \A i \in 1 .. Len(L) - m : B[i] = L[m + i]
    <2>1. \A i \in m + 1 .. Len(L) : L[i] \in S
      BY <1>1, LenProperties
    <2> QED  BY <1>1, <2>1
  <1> HIDE DEF A, B
  <1>4. \A k \in 1 .. Len(A) + Len(B) : (A \o B)[k] = IF k <= Len(A) THEN A[k] ELSE B[k - Len(A)]
    BY <1>2, <1>3, ConcatProperties
  <1>5. \A k \in 1 .. Len(L) : (A \o B)[k] = L[k]
    <2> TAKE k \in 1 .. Len(L)
    <2>1. k \in 1 .. Len(A) + Len(B)
      BY <1>1, <1>2, <1>3
    <2>2. (A \o B)[k] = IF k <= Len(A) THEN A[k] ELSE B[k - Len(A)]
      BY <1>4, <2>1
    <2>3. CASE k <= m
      BY <1>1, <1>2, <2>2, <2>3
    <2>4. CASE k > m
      <3>1. k - m \in 1 .. Len(L) - m /\ m + (k - m) = k
        BY <1>1, <2>4
      <3>2. B[k - m] = L[m + (k - m)]
        BY <1>3, <3>1
      <3>3. ~(k <= Len(A)) /\ Len(A) = m
        BY <1>1, <1>2, <2>4
      <3> QED  BY <2>2, <3>1, <3>2, <3>3
    <2>5. k <= m \/ k > m
      BY <1>1
    <2> QED  BY <2>3, <2>4, <2>5
  <1> QED  BY <1>2, <1>3, <1>5 DEF A, B

\* The parity that a full object asks for bounds the parity of every object, and
\* a parity is guaranteed exactly when there is a bit-rot buffer.
LEMMA ParityOfArchive ==
    ASSUME NEW o, OneVolume(o), NEW d \in 1 .. o.fec_data_shards,
           compute_parity(o, d) # NoPlan
    PROVE  /\ compute_parity(o, d) \in Nat
           /\ compute_parity(o, d) <= o.fec_parity_shards
           /\ o.fec_parity_shards > 0 <=> o.bit_rot_buffer_pct > 0
           /\ IF o.bit_rot_buffer_pct > 0 THEN compute_parity(o, d) > 0
                                          ELSE compute_parity(o, d) = 0
  <1> DEFINE full == o.fec_data_shards
             p    == compute_parity(o, d)
  <1>1. /\ GoodOptions(o) /\ full \in Nat \ {0} /\ o.fec_parity_shards \in Nat
        /\ compute_parity(o, full) = o.fec_parity_shards
        /\ o.bit_rot_buffer_pct \in Nat
    BY DEF OneVolume, GoodOptions
  <1>2. compute_parity(o, full) # NoPlan
    BY <1>1 DEF NoPlan
  <1>3. p \in Nat
    BY ComputedParity
  <1>4. d \in Nat /\ d <= full
    BY <1>1
  <1>5. p <= o.fec_parity_shards
    BY <1>1, <1>2, <1>4, ParityMonotone
  <1>6. /\ o.bit_rot_buffer_pct = 0 => p = 0
        /\ o.bit_rot_buffer_pct > 0 => p > 0
    BY <1>3, <1>4, ParityShare
  <1>7. /\ o.bit_rot_buffer_pct = 0 => o.fec_parity_shards = 0
        /\ o.bit_rot_buffer_pct > 0 => o.fec_parity_shards > 0
    <2>1. full \in Nat
      BY <1>1
    <2> HIDE DEF full
    <2> QED  BY <1>1, <2>1, ParityShare
  <1> QED  BY <1>1, <1>3, <1>5, <1>6, <1>7

\* What is written before an object ends before it starts.
LEMMA InOrder ==
    ASSUME NEW n \in Nat, NEW f, NEW g,
           \A k \in 1 .. n : f[k] \in Nat /\ g[k] \in Nat /\ f[k] <= g[k],
           \A k \in 1 .. n - 1 : f[k + 1] = g[k]
    PROVE  \A i, j \in 1 .. n : i < j => g[i] <= f[j]
  <1> SUFFICES ASSUME NEW i \in 1 .. n PROVE \A j \in 1 .. n : i < j => g[i] <= f[j]
    OBVIOUS
  <1> DEFINE T == {j \in 1 .. n : i < j /\ ~(g[i] <= f[j])}
  <1>1. SUFFICES ASSUME T # {} PROVE FALSE
    OBVIOUS
  <1>2. T \subseteq Nat
    OBVIOUS
  <1>3. PICK m \in T : \A j \in T : m <= j
    <2> HIDE DEF T
    <2> QED  BY <1>1, <1>2, LeastNumber
  <1>4. m \in 1 .. n /\ i < m /\ ~(g[i] <= f[m])
    OBVIOUS
  <1>5. m - 1 \in 1 .. n - 1 /\ m - 1 \in 1 .. n /\ m - 1 \notin T /\ (m - 1) + 1 = m
    BY <1>3, <1>4
  <1>6. f[m] = g[m - 1]
    BY <1>5
  <1>7. CASE m - 1 = i
    BY <1>4, <1>6, <1>7
  <1>8. CASE m - 1 # i
    <2>1. g[i] <= f[m - 1]
      BY <1>4, <1>5, <1>8
    <2>2. f[m - 1] <= g[m - 1] /\ f[m - 1] \in Nat /\ g[m - 1] \in Nat /\ g[i] \in Nat
      BY <1>5
    <2> QED  BY <1>4, <1>6, <2>1, <2>2
  <1> QED  BY <1>7, <1>8

\* Every archive that was written is laid out well.
LEMMA WrittenIsLaidOut ==
    ASSUME NEW r \in Requests
    PROVE  LaidOut(written(r)) /\ RequiredParity(written(r))
  <1> DEFINE a == written(r)
             o == r.options
             L == lay_out(r)
             m == Len(r.payload)
             n == Len(L)
  <1>1. /\ L \in Seq(Extents) /\ n = m + Len(r.metadata)
        /\ m \in Nat /\ Len(r.metadata) \in Nat \ {0}
        /\ L[1].first = 0
        /\ \A k \in 1 .. n : /\ L[k].data \in 1 .. o.fec_data_shards
                             /\ L[k].parity = compute_parity(o, L[k].data)
        /\ \A k \in 1 .. n - 1 : L[k + 1].first = next_block_index(L[k])
    BY LayOut
  <1>2. OneVolume(o)
    BY RequestAssumption, RequestedOptions
  <1>3. /\ a.envelopes = SubSeq(L, 1, m) /\ a.metadata = SubSeq(L, m + 1, n)
        /\ a.options = o
        /\ a.required_parity = [d \in 0 .. o.fec_data_shards |-> compute_parity(o, d)]
    BY DEF written
  <1> HIDE DEF a, o, L, m, n
  <1>4. n \in Nat \ {0} /\ m \in 0 .. n /\ n - m \in Nat \ {0} /\ n = Len(L)
    BY <1>1 DEF n
  <1>5. /\ a.envelopes \in Seq(Extents) /\ Len(a.envelopes) = m
        /\ a.metadata \in Seq(Extents) /\ Len(a.metadata) = n - m
        /\ \A k \in 1 .. n : obj(a, k) = L[k]
    <2>1. a.metadata = SubSeq(L, m + 1, Len(L)) /\ m \in 0 .. Len(L) /\ L \in Seq(Extents)
      BY <1>1, <1>3, <1>4
    <2>2. /\ SubSeq(L, 1, m) \in Seq(Extents) /\ Len(SubSeq(L, 1, m)) = m
          /\ SubSeq(L, m + 1, Len(L)) \in Seq(Extents)
          /\ Len(SubSeq(L, m + 1, Len(L))) = Len(L) - m
          /\ \A k \in 1 .. Len(L) : (SubSeq(L, 1, m) \o SubSeq(L, m + 1, Len(L)))[k] = L[k]
      BY <2>1, CutInTwo, ZenonT(60)
    <2>3. \A k \in 1 .. n : obj(a, k) = L[k]
      BY <1>3, <1>4, <2>1, <2>2 DEF obj
    <2> QED  BY <1>3, <1>4, <2>1, <2>2, <2>3
  <1>6. count(a) = n
    BY <1>4, <1>5 DEF count
  <1>7. a.metadata # <<>>
    BY <1>4, <1>5
  <1>8. \A k \in 1 .. n : /\ L[k] \in Extents /\ L[k].first \in Nat /\ L[k].data \in Nat /\ L[k].parity \in Nat
    <2> TAKE k \in 1 .. n
    <2>1. L[k] \in Extents
      BY <1>1, <1>4
    <2> QED  BY <2>1 DEF Extents
  <1>9. o.fec_data_shards \in Nat /\ o.fec_parity_shards \in Nat /\ o.bit_rot_buffer_pct \in Nat
        /\ o.volume_loss_tolerance = 0 /\ GoodOptions(o)
    BY <1>2 DEF OneVolume, GoodOptions
  <1>10. ASSUME NEW k \in 1 .. n
         PROVE  /\ L[k].parity <= o.fec_parity_shards
                /\ o.fec_parity_shards > 0 <=> o.bit_rot_buffer_pct > 0
                /\ IF o.bit_rot_buffer_pct > 0 THEN L[k].parity > 0 ELSE L[k].parity = 0
                /\ L[k].parity = a.required_parity[L[k].data]
    <2>1. L[k].data \in 1 .. o.fec_data_shards /\ L[k].parity = compute_parity(o, L[k].data)
      BY <1>1
    <2>2. compute_parity(o, L[k].data) # NoPlan
      BY <1>8, <2>1 DEF NoPlan
    <2>3. L[k].data \in 0 .. o.fec_data_shards
      BY <1>9, <2>1
    <2>4. a.required_parity[L[k].data] = compute_parity(o, L[k].data)
      BY <1>3, <2>3
    <2> QED  BY <1>2, <2>1, <2>2, <2>4, ParityOfArchive
  <1>11. guaranteed(a) <=> o.bit_rot_buffer_pct > 0
    <2>1. 1 \in 1 .. n
      BY <1>4
    <2>2. o.fec_parity_shards > 0 <=> o.bit_rot_buffer_pct > 0
      BY <1>10, <2>1
    <2> QED  BY <1>3, <1>9, <2>2 DEF guaranteed
  <1>12. \A i, j \in 1 .. n : i < j => end_of(a, i) <= obj(a, j).first
    <2> DEFINE f == [k \in 1 .. n |-> L[k].first]
               g == [k \in 1 .. n |-> next_block_index(L[k])]
    <2>1. \A k \in 1 .. n : f[k] \in Nat /\ g[k] \in Nat /\ f[k] <= g[k]
      BY <1>8 DEF next_block_index
    <2>2. \A k \in 1 .. n - 1 : f[k + 1] = g[k]
      <3> TAKE k \in 1 .. n - 1
      <3>1. k \in 1 .. n /\ k + 1 \in 1 .. n
        BY <1>4
      <3> QED  BY <1>1, <3>1
    <2>3. \A k \in 1 .. n : f[k] = obj(a, k).first /\ g[k] = end_of(a, k)
      BY <1>5 DEF end_of
    <2> HIDE DEF f, g
    <2>4. \A i, j \in 1 .. n : i < j => g[i] <= f[j]
      BY <1>4, <2>1, <2>2, InOrder
    <2> QED  BY <2>3, <2>4
  <1>13. LaidOut(a)
    <2>1. obj(a, 1).first = 0
      BY <1>1, <1>4, <1>5
    <2>2. \A k \in 1 .. n - 1 : obj(a, k + 1).first = end_of(a, k)
      <3> TAKE k \in 1 .. n - 1
      <3>1. k \in 1 .. n /\ k + 1 \in 1 .. n
        BY <1>4
      <3> QED  BY <1>1, <1>5, <3>1 DEF end_of
    <2>3. \A k \in 1 .. n :
             /\ obj(a, k).data \in 1 .. a.options.fec_data_shards
             /\ obj(a, k).parity = a.required_parity[obj(a, k).data]
             /\ obj(a, k).parity <= a.options.fec_parity_shards
             /\ IF guaranteed(a) THEN obj(a, k).parity > 0 ELSE obj(a, k).parity = 0
      BY <1>1, <1>3, <1>5, <1>10, <1>11, ZenonT(60)
    <2> QED  BY <1>5, <1>6, <1>7, <1>12, <2>1, <2>2, <2>3 DEF LaidOut
  <1>14. RequiredParity(a)
    <2> DEFINE full == o.fec_data_shards
               required(d) == a.required_parity[d]
    <2>1. \A d \in 0 .. full : required(d) = compute_parity(o, d) /\ d \in Nat
      BY <1>3, <1>9
    <2>2. \A d \in 0 .. full : required(d) \in Nat \cup {NoPlan}
      BY <2>1, ComputedParity
    <2>3. \A c, d \in 0 .. full :
              c <= d /\ required(c) # NoPlan /\ required(d) # NoPlan => required(c) <= required(d)
      <3> HIDE DEF required
      <3> QED  BY <1>9, <2>1, ParityMonotone
    <2>4. ASSUME NEW c \in 0 .. full, NEW d \in 0 .. full, c + 2 <= d,
                 required(c) = required(d), required(d) # NoPlan, guaranteed(a)
          PROVE  required(d) < c + 2
      <3> DEFINE p == required(d)
      <3> HIDE DEF required
      <3>1. p \in Nat /\ p = compute_parity(o, c) /\ p = compute_parity(o, d) /\ c \in Nat /\ d \in Nat
        BY <2>1, <2>2, <2>4
      <3>2. o.bit_rot_buffer_pct > 0
        BY <1>11, <2>4
      <3> HIDE DEF p
      <3>3. p < c + 2
        BY <1>2, <2>4, <3>1, <3>2, SameParity
      <3> QED  BY <3>3 DEF p
    <2> QED  BY <1>3, <1>9, <2>2, <2>3, <2>4 DEF RequiredParity
  <1> QED  BY <1>13, <1>14 DEF a

\* What an object is made of.
LEMMA Extent ==
    ASSUME NEW a, LaidOut(a)
    PROVE  /\ payloads(a) \in Nat /\ count(a) \in Nat /\ payloads(a) < count(a)
           /\ \A k \in 1 .. count(a) :
                 /\ obj(a, k).first \in Nat /\ obj(a, k).data \in Nat \ {0}
                 /\ obj(a, k).parity \in Nat
                 /\ end_of(a, k) = obj(a, k).first + obj(a, k).data + obj(a, k).parity
  <1>1. a.envelopes \in Seq(Extents) /\ a.metadata \in Seq(Extents) /\ a.metadata # <<>>
    BY DEF LaidOut
  <1>2. /\ Len(a.envelopes) \in Nat /\ Len(a.envelopes) + Len(a.metadata) \in Nat
        /\ Len(a.envelopes) < Len(a.envelopes) + Len(a.metadata)
    <2> DEFINE P == a.envelopes
               M == a.metadata
    <2>1. P \in Seq(Extents) /\ M \in Seq(Extents) /\ M # <<>>
      BY <1>1
    <2> HIDE DEF P, M
    <2>2. Len(P) \in Nat /\ Len(M) \in Nat \ {0}
      BY <2>1, LenProperties, EmptySeq
    <2>3. Len(P) \in Nat /\ Len(P) + Len(M) \in Nat /\ Len(P) < Len(P) + Len(M)
      BY <2>2
    <2> QED  BY <2>3 DEF P, M
  <1>3. payloads(a) \in Nat /\ count(a) \in Nat /\ payloads(a) < count(a)
    BY <1>2, Zenon DEF payloads, count
  <1>4. \A k \in 1 .. count(a) : obj(a, k) \in Extents
    <2> TAKE k \in 1 .. count(a)
    <2> DEFINE P == a.envelopes
               M == a.metadata
    <2>1. P \o M \in Seq(Extents) /\ Len(P \o M) = Len(P) + Len(M)
      BY <1>1, ConcatProperties
    <2>2. k \in 1 .. Len(P \o M)
      BY <2>1 DEF count
    <2>3. (P \o M)[k] \in Extents
      <3> DEFINE Q == P \o M
      <3>1. Q \in Seq(Extents) /\ k \in 1 .. Len(Q)
        BY <2>1, <2>2
      <3> HIDE DEF Q
      <3>2. Q[k] \in Extents
        BY <3>1
      <3> QED  BY <3>2 DEF Q
    <2> QED  BY <2>3 DEF obj
  <1>5. \A k \in 1 .. count(a) :
           /\ obj(a, k).first \in Nat /\ obj(a, k).data \in Nat /\ obj(a, k).parity \in Nat
    BY <1>4 DEF Extents
  <1>6. \A k \in 1 .. count(a) : obj(a, k).data \in Nat \ {0}
    BY <1>5 DEF LaidOut
  <1> QED  BY <1>3, <1>5, <1>6 DEF end_of, next_block_index

\* The archive's objects by their names in the model.
LEMMA Named ==
    ASSUME LaidOut(archive)
    PROVE  /\ DOMAIN objects = 1 .. count(archive)
           /\ \A k \in 1 .. count(archive) : objects[k] = obj(archive, k)
           /\ block_count = end_of(archive, count(archive))
           /\ DOMAIN archive.envelopes = 1 .. payloads(archive)
           /\ \A k \in 1 .. payloads(archive) : archive.envelopes[k] = obj(archive, k)
           /\ DOMAIN archive.metadata = 1 .. count(archive) - payloads(archive)
           /\ \A k \in DOMAIN archive.metadata :
                 archive.metadata[k] = obj(archive, payloads(archive) + k)
           /\ archive.envelopes = <<>> <=> payloads(archive) = 0
  <1> DEFINE P == archive.envelopes
             M == archive.metadata
  <1>1. P \in Seq(Extents) /\ M \in Seq(Extents)
    BY DEF LaidOut
  <1>2. objects = P \o M /\ payloads(archive) = Len(P) /\ count(archive) = Len(P) + Len(M)
        /\ \A k : obj(archive, k) = (P \o M)[k]
    BY DEF objects, payloads, count, obj
  <1> HIDE DEF P, M
  <1>3. /\ DOMAIN P = 1 .. Len(P) /\ DOMAIN M = 1 .. Len(M) /\ Len(P) \in Nat /\ Len(M) \in Nat
        /\ P = <<>> <=> Len(P) = 0
    BY <1>1, LenProperties, EmptySeq
  <1>4. /\ P \o M \in Seq(Extents) /\ Len(P \o M) = Len(P) + Len(M)
        /\ \A i \in 1 .. Len(P) + Len(M) : (P \o M)[i] = IF i <= Len(P) THEN P[i] ELSE M[i - Len(P)]
    BY <1>1, ConcatProperties
  <1>5. DOMAIN (P \o M) = 1 .. Len(P) + Len(M)
    BY <1>4, LenProperties
  <1>6. \A k \in 1 .. Len(P) : P[k] = (P \o M)[k]
    BY <1>3, <1>4
  <1>7. \A k \in 1 .. Len(M) : M[k] = (P \o M)[Len(P) + k]
    <2> TAKE k \in 1 .. Len(M)
    <2>1. Len(P) + k \in 1 .. Len(P) + Len(M) /\ ~(Len(P) + k <= Len(P)) /\ (Len(P) + k) - Len(P) = k
      BY <1>3
    <2> QED  BY <1>4, <2>1
  <1>8. block_count = end_of(archive, count(archive))
    <2>1. Len(objects) = count(archive) /\ objects[count(archive)] = obj(archive, count(archive))
      BY <1>2, <1>4
    <2> QED  BY <2>1 DEF block_count, end_of
  <1>9. 1 .. Len(M) = 1 .. count(archive) - payloads(archive)
    BY <1>2, <1>3
  <1> QED  BY <1>2, <1>3, <1>5, <1>6, <1>7, <1>8, <1>9 DEF P, M

InObject(a, k, b) == obj(a, k).first <= b /\ b < end_of(a, k)

\* A block belongs to one object at most,
LEMMA OneObject ==
    ASSUME NEW a, LaidOut(a), NEW i \in 1 .. count(a), NEW j \in 1 .. count(a),
           NEW b \in Int, InObject(a, i, b), InObject(a, j, b)
    PROVE  i = j
  <1>1. /\ obj(a, i).first \in Nat /\ obj(a, j).first \in Nat
        /\ end_of(a, i) \in Nat /\ end_of(a, j) \in Nat
    BY Extent
  <1>2. /\ i < j => end_of(a, i) <= obj(a, j).first
        /\ j < i => end_of(a, j) <= obj(a, i).first
    BY DEF LaidOut
  <1>3. i \in Nat /\ j \in Nat
    BY Extent
  <1> QED  BY <1>1, <1>2, <1>3 DEF InObject

\* and a block of the archive belongs to one.
LEMMA SomeObject ==
    ASSUME NEW a, LaidOut(a), NEW b \in Nat, b < end_of(a, count(a))
    PROVE  \E k \in 1 .. count(a) : InObject(a, k, b)
  <1> DEFINE T == {k \in 1 .. count(a) : b < end_of(a, k)}
  <1>1. T \subseteq Nat /\ count(a) \in T
    BY Extent
  <1>2. PICK k \in T : \A j \in T : k <= j
    <2> HIDE DEF T
    <2> QED  BY <1>1, LeastNumber
  <1>3. k \in 1 .. count(a) /\ b < end_of(a, k)
    OBVIOUS
  <1>4. CASE k = 1
    <2>1. obj(a, k).first = 0
      BY <1>4 DEF LaidOut
    <2> QED  BY <1>3, <2>1 DEF InObject
  <1>5. CASE k # 1
    <2>1. k - 1 \in 1 .. count(a) - 1 /\ k - 1 \in 1 .. count(a) /\ (k - 1) + 1 = k /\ k - 1 < k
      BY <1>3, <1>5, Extent
    <2>2. k - 1 \notin T
      BY <1>2, <2>1
    <2>3. ~(b < end_of(a, k - 1))
      BY <2>1, <2>2
    <2>4. obj(a, (k - 1) + 1).first = end_of(a, k - 1)
      BY <2>1 DEF LaidOut
    <2>5. obj(a, k).first = end_of(a, k - 1) /\ obj(a, k).first \in Nat
      BY <1>3, <2>1, <2>4, Extent
    <2> QED  BY <1>3, <2>3, <2>5 DEF InObject
  <1> QED  BY <1>4, <1>5

\* The record at a block, by the object it belongs to.
LEMMA RecordAt ==
    ASSUME LaidOut(archive), NEW k \in 1 .. count(archive), NEW b \in Nat, InObject(archive, k, b)
    PROVE  record(b) = [block_index |-> b,
                        kind |-> IF k > payloads(archive) THEN "Metadata"
                                 ELSE IF b < obj(archive, k).first + obj(archive, k).data
                                      THEN "PayloadData" ELSE "PayloadParity",
                        last_data |-> b = obj(archive, k).first + obj(archive, k).data - 1]
  <1> DEFINE j == CHOOSE i \in DOMAIN objects :
                      objects[i].first <= b /\ b < next_block_index(objects[i])
  <1>1. DOMAIN objects = 1 .. count(archive)
        /\ \A i \in 1 .. count(archive) : objects[i] = obj(archive, i)
    BY Named
  <1>2. j \in DOMAIN objects /\ objects[j].first <= b /\ b < next_block_index(objects[j])
    BY <1>1 DEF InObject, end_of
  <1>3. j = k
    <2> HIDE DEF j
    <2>1. j \in 1 .. count(archive) /\ InObject(archive, j, b) /\ b \in Int
      BY <1>1, <1>2 DEF InObject, end_of
    <2> QED  BY <2>1, OneObject
  <1>4. record(b) = [block_index |-> b,
                     kind |-> IF j > Len(archive.envelopes) THEN "Metadata"
                              ELSE IF b < objects[j].first + objects[j].data
                                   THEN "PayloadData" ELSE "PayloadParity",
                     last_data |-> b = objects[j].first + objects[j].data - 1]
    BY DEF record
  <1>5. objects[j] = obj(archive, k)
    BY <1>1, <1>3
  <1> HIDE DEF j
  <1> QED  BY <1>3, <1>4, <1>5 DEF payloads

-----------------------------------------------------------------------------
(***************************************************************************)
(* Damage                                                                  *)
(***************************************************************************)

Missing(a, E, k) == E \cap (obj(a, k).first .. end_of(a, k) - 1)

\* EnvelopeTolerable and MetadataTolerable for a set E of erased blocks, with the
\* objects of both kinds numbered through.
Harmless(a, E, k) ==
    \/ Missing(a, E, k) = {}
    \/ \E b \in obj(a, k).first .. obj(a, k).first + obj(a, k).data - 1 :
          /\ Missing(a, E, k) = b .. obj(a, k).first + obj(a, k).data - 1
          /\ Cardinality(Missing(a, E, k)) <= obj(a, k).parity
          /\ k = 1 \/ b > obj(a, k).first

Loadable(a, live, E, k) ==
    \/ Missing(a, E, k) = {}
    \/ /\ live
       /\ payloads(a) > 0 \/ 0 \notin E
       /\ Cardinality(Missing(a, E, k)) <= obj(a, k).parity

Received(a, E) == {b \in obj(a, payloads(a) + 1).first .. end_of(a, count(a)) - 1 : b \notin E}

\* The damage that is tolerable.
LEMMA TolerableIs ==
    ASSUME LaidOut(archive)
    PROVE  Tolerable <=>
             /\ intact /\ pos = observed_block_count
             /\ \A k \in 1 .. payloads(archive) : Harmless(archive, erased, k)
             /\ \A k \in payloads(archive) + 1 .. count(archive) :
                   Loadable(archive, reader = "live", erased, k)
             /\ reader = "live" => Cardinality(Received(archive, erased)) <= RetainedCap
  <1> DEFINE m == payloads(archive)
             n == count(archive)
  <1>1. /\ DOMAIN archive.envelopes = 1 .. m
        /\ \A k \in 1 .. m : archive.envelopes[k] = obj(archive, k)
        /\ DOMAIN archive.metadata = 1 .. n - m
        /\ \A k \in 1 .. n - m : archive.metadata[k] = obj(archive, m + k)
        /\ block_count = end_of(archive, n)
        /\ archive.envelopes = <<>> <=> m = 0
    BY Named
  <1>2. m \in Nat /\ n \in Nat /\ m < n
    BY Extent
  <1> HIDE DEF m, n
  <1>3. \A k \in 1 .. m : EnvelopeTolerable(k) <=> Harmless(archive, erased, k)
    <2> TAKE k \in 1 .. m
    <2>1. archive.envelopes[k] = obj(archive, k)
      BY <1>1
    <2> QED  BY <2>1, Zenon DEF EnvelopeTolerable, Harmless, Missing, erased_in, end_of
  <1>4. \A k \in 1 .. n - m : MetadataTolerable(k)
                                <=> Loadable(archive, reader = "live", erased, m + k)
    <2> TAKE k \in 1 .. n - m
    <2>1. archive.metadata[k] = obj(archive, m + k)
      BY <1>1
    <2>2. archive.envelopes # <<>> <=> m > 0
      BY <1>1, <1>2
    <2>3. archive.envelopes # <<>> <=> payloads(archive) > 0
      BY <2>2 DEF m
    <2> QED  BY <2>1, <2>3, Zenon DEF MetadataTolerable, Loadable, Missing, erased_in, end_of
  <1>5. (\A k \in 1 .. n - m : MetadataTolerable(k))
          <=> \A k \in m + 1 .. n : Loadable(archive, reader = "live", erased, k)
    <2>1. ASSUME \A k \in 1 .. n - m : MetadataTolerable(k), NEW k \in m + 1 .. n
          PROVE  Loadable(archive, reader = "live", erased, k)
      <3>1. k - m \in 1 .. n - m /\ m + (k - m) = k
        BY <1>2
      <3>2. Loadable(archive, reader = "live", erased, m + (k - m))
        BY <1>4, <2>1, <3>1
      <3> QED  BY <3>1, <3>2
    <2>2. ASSUME \A k \in m + 1 .. n : Loadable(archive, reader = "live", erased, k), NEW k \in 1 .. n - m
          PROVE  MetadataTolerable(k)
      <3>1. m + k \in m + 1 .. n
        BY <1>2
      <3> QED  BY <1>4, <2>2, <3>1
    <2> QED  BY <2>1, <2>2
  <1>6. metadata_received = Received(archive, erased)
    <2>1. 1 \in 1 .. n - m
      BY <1>2
    <2>2. archive.metadata[1] = obj(archive, m + 1)
      BY <1>1, <2>1
    <2> QED  BY <1>1, <2>2 DEF metadata_received, Received, m, n
  <1> QED  BY <1>1, <1>3, <1>5, <1>6, Zenon DEF Tolerable, m, n

\* The same of the next state.
LEMMA TolerableNext ==
    ASSUME LaidOut(archive), archive' = archive, reader' = reader, Tolerable'
    PROVE  /\ intact' /\ pos' = observed_block_count'
           /\ \A k \in 1 .. payloads(archive) : Harmless(archive, erased', k)
           /\ \A k \in payloads(archive) + 1 .. count(archive) :
                 Loadable(archive, reader = "live", erased', k)
           /\ reader = "live" => Cardinality(Received(archive, erased')) <= RetainedCap
  <1> DEFINE m == payloads(archive)
             n == count(archive)
  <1>1. /\ DOMAIN archive.envelopes = 1 .. m
        /\ \A k \in 1 .. m : archive.envelopes[k] = obj(archive, k)
        /\ DOMAIN archive.metadata = 1 .. n - m
        /\ \A k \in 1 .. n - m : archive.metadata[k] = obj(archive, m + k)
        /\ block_count = end_of(archive, n)
        /\ archive.envelopes = <<>> <=> m = 0
    BY Named
  <1>2. m \in Nat /\ n \in Nat /\ m < n
    BY Extent
  <1>0. block_count' = block_count
    BY DEF block_count, objects
  <1>7. /\ intact' /\ pos' = observed_block_count'
        /\ \A k \in DOMAIN archive.envelopes : EnvelopeTolerable(k)'
        /\ \A k \in DOMAIN archive.metadata : MetadataTolerable(k)'
        /\ reader = "live" => Cardinality(metadata_received') <= RetainedCap
    BY DEF Tolerable
  <1> HIDE DEF m, n
  <1>3. ASSUME NEW k \in 1 .. m PROVE Harmless(archive, erased', k)
    <2>1. archive.envelopes[k] = obj(archive, k)
      BY <1>1
    <2>2. EnvelopeTolerable(k)'
      BY <1>1, <1>7
    <2> QED  BY <2>1, <2>2, Zenon DEF EnvelopeTolerable, Harmless, Missing, erased_in, end_of
  <1>4. ASSUME NEW k \in 1 .. n - m PROVE Loadable(archive, reader = "live", erased', m + k)
    <2>1. archive.metadata[k] = obj(archive, m + k)
      BY <1>1
    <2>2. archive.envelopes # <<>> <=> m > 0
      BY <1>1, <1>2
    <2>3. archive.envelopes # <<>> <=> payloads(archive) > 0
      BY <2>2 DEF m
    <2>4. MetadataTolerable(k)'
      BY <1>1, <1>7
    <2> QED  BY <2>1, <2>3, <2>4, Zenon DEF MetadataTolerable, Loadable, Missing, erased_in, end_of
  <1>5. ASSUME NEW k \in m + 1 .. n PROVE Loadable(archive, reader = "live", erased', k)
    <2>1. k - m \in 1 .. n - m /\ m + (k - m) = k
      BY <1>2
    <2>2. Loadable(archive, reader = "live", erased', m + (k - m))
      BY <1>4, <2>1
    <2> QED  BY <2>1, <2>2
  <1>6. metadata_received' = Received(archive, erased')
    <2>1. 1 \in 1 .. n - m
      BY <1>2
    <2>2. archive.metadata[1] = obj(archive, m + 1)
      BY <1>1, <2>1
    <2> QED  BY <1>0, <1>1, <2>2 DEF metadata_received, Received, m, n
  <1> QED  BY <1>3, <1>5, <1>6, <1>7, Zenon DEF m, n

\* The numbers from x to y.
LEMMA GapSize ==
    ASSUME NEW x \in Nat, NEW y \in Nat, x <= y
    PROVE  IsFiniteSet(x .. y - 1) /\ Cardinality(x .. y - 1) = y - x
  <1>1. y - x \in Nat /\ x + (y - x) - 1 = y - 1
    OBVIOUS
  <1>2. IsFiniteSet(x .. x + (y - x) - 1) /\ Cardinality(x .. x + (y - x) - 1) = y - x
    <2> DEFINE n == y - x
    <2>1. n \in Nat
      OBVIOUS
    <2> HIDE DEF n
    <2>2. IsFiniteSet(x .. x + n - 1) /\ Cardinality(x .. x + n - 1) = n
      BY <2>1, IntervalSize
    <2> QED  BY <2>2 DEF n
  <1> QED  BY <1>1, <1>2

\* What no envelope survives: the loss of a parity block,
LEMMA ParityLost ==
    ASSUME NEW a, LaidOut(a), NEW E, NEW k \in 1 .. count(a), NEW b \in E, b \in Int,
           obj(a, k).first + obj(a, k).data <= b, b < end_of(a, k)
    PROVE  ~Harmless(a, E, k)
  <1> DEFINE f == obj(a, k).first
             d == obj(a, k).data
             e == end_of(a, k)
  <1>1. f \in Nat /\ d \in Nat /\ e \in Nat
    BY Extent
  <1>2. f + d <= b /\ b < e
    OBVIOUS
  <1>3. Harmless(a, E, k) => \/ E \cap (f .. e - 1) = {}
                             \/ \E c \in f .. f + d - 1 : E \cap (f .. e - 1) = c .. f + d - 1
    BY DEF Harmless, Missing
  <1> HIDE DEF f, d, e
  <1>4. b \in E \cap (f .. e - 1)
    BY <1>1, <1>2
  <1>5. \A c \in f .. f + d - 1 : b \notin c .. f + d - 1
    BY <1>1, <1>2
  <1> QED  BY <1>3, <1>4, <1>5

\* of the first block, unless it is the stream's,
LEMMA FirstLost ==
    ASSUME NEW a, LaidOut(a), NEW E, NEW k \in 1 .. count(a), k # 1, obj(a, k).first \in E
    PROVE  ~Harmless(a, E, k)
  <1> DEFINE f == obj(a, k).first
             d == obj(a, k).data
             e == end_of(a, k)
  <1>1. f \in Nat /\ d \in Nat \ {0} /\ e \in Nat /\ f < e /\ f \in E
    BY Extent
  <1>3. Harmless(a, E, k) => \/ E \cap (f .. e - 1) = {}
                             \/ \E c \in f .. f + d - 1 : E \cap (f .. e - 1) = c .. f + d - 1 /\ c > f
    BY DEF Harmless, Missing
  <1> HIDE DEF f, d, e
  <1>4. f \in E \cap (f .. e - 1)
    BY <1>1
  <1>5. \A c \in f .. f + d - 1 : c > f => f \notin c .. f + d - 1
    BY <1>1
  <1> QED  BY <1>3, <1>4, <1>5

\* of a data block before one that arrived,
LEMMA GapInside ==
    ASSUME NEW a, LaidOut(a), NEW E, NEW k \in 1 .. count(a), NEW b \in E, NEW c \in Int,
           b \in Int, obj(a, k).first <= b, b < c, c < obj(a, k).first + obj(a, k).data, c \notin E
    PROVE  ~Harmless(a, E, k)
  <1> DEFINE f == obj(a, k).first
             d == obj(a, k).data
             e == end_of(a, k)
  <1>1. f \in Nat /\ d \in Nat /\ e \in Nat /\ f + d <= e /\ f <= b /\ c < f + d
    BY Extent
  <1>3. Harmless(a, E, k) => \/ E \cap (f .. e - 1) = {}
                             \/ \E x \in f .. f + d - 1 : E \cap (f .. e - 1) = x .. f + d - 1
    BY DEF Harmless, Missing
  <1> HIDE DEF f, d, e
  <1>4. b \in E \cap (f .. e - 1)
    BY <1>1
  <1>5. \A x \in f .. f + d - 1 : b \in x .. f + d - 1 => c \in x .. f + d - 1
    BY <1>1
  <1>6. c \notin E \cap (f .. e - 1)
    OBVIOUS
  <1> QED  BY <1>3, <1>4, <1>5, <1>6

\* of any block without parity,
LEMMA NoParity ==
    ASSUME NEW a, LaidOut(a), NEW E, NEW k \in 1 .. count(a), obj(a, k).parity = 0,
           NEW b \in E, b \in Int, InObject(a, k, b)
    PROVE  ~Harmless(a, E, k)
  <1> DEFINE f == obj(a, k).first
             d == obj(a, k).data
             e == end_of(a, k)
  <1>1. f \in Nat /\ d \in Nat /\ e \in Nat /\ f <= b /\ b < e
    BY Extent DEF InObject
  <1>3. Harmless(a, E, k) => \/ E \cap (f .. e - 1) = {}
                             \/ \E x \in f .. f + d - 1 : Cardinality(x .. f + d - 1) <= 0
    BY DEF Harmless, Missing
  <1> HIDE DEF f, d, e
  <1>4. b \in E \cap (f .. e - 1)
    BY <1>1
  <1>5. \A x \in f .. f + d - 1 : ~(Cardinality(x .. f + d - 1) <= 0)
    <2> TAKE x \in f .. f + d - 1
    <2>1. x \in Nat /\ f + d \in Nat /\ x < f + d
      BY <1>1
    <2>2. Cardinality(x .. f + d - 1) = f + d - x
      <3> DEFINE y == f + d
      <3>1. y \in Nat /\ x <= y
        BY <2>1
      <3> HIDE DEF y
      <3>2. Cardinality(x .. y - 1) = y - x
        BY <2>1, <3>1, GapSize
      <3> QED  BY <1>1, <2>1, <3>2 DEF y
    <2> QED  BY <1>1, <2>1, <2>2
  <1> QED  BY <1>3, <1>4, <1>5

\* and a gap longer than its parity.
LEMMA GapTooLong ==
    ASSUME NEW a, LaidOut(a), NEW E, NEW k \in 1 .. count(a), NEW n \in Nat,
           n < obj(a, k).data, obj(a, k).data - n > obj(a, k).parity,
           Missing(a, E, k) = obj(a, k).first + n .. obj(a, k).first + obj(a, k).data - 1
    PROVE  ~Harmless(a, E, k)
  <1> DEFINE f == obj(a, k).first
             d == obj(a, k).data
             p == obj(a, k).parity
             x == f + n
             y == f + d
  <1>1. f \in Nat /\ d \in Nat /\ p \in Nat /\ n < d /\ d - n > p
    BY Extent
  <1>2. Missing(a, E, k) = x .. y - 1
    <2>1. Missing(a, E, k) = f + n .. f + d - 1
      OBVIOUS
    <2> HIDE DEF f, d
    <2> QED  BY <1>1, <2>1
  <1>3. Harmless(a, E, k) => Missing(a, E, k) = {} \/ Cardinality(Missing(a, E, k)) <= p
    BY DEF Harmless
  <1> HIDE DEF f, d, p
  <1>4. x \in Nat /\ y \in Nat /\ x < y /\ y - x = d - n
    BY <1>1
  <1> HIDE DEF x, y
  <1>5. Cardinality(x .. y - 1) = y - x /\ x \in x .. y - 1
    BY <1>4, GapSize
  <1>6. Cardinality(Missing(a, E, k)) = d - n /\ Missing(a, E, k) # {}
    BY <1>2, <1>4, <1>5
  <1> QED  BY <1>1, <1>3, <1>6

\* A gap at the end of the data, no longer than the parity, is harmless.
LEMMA GapAtTheEnd ==
    ASSUME NEW a, LaidOut(a), NEW E, NEW k \in 1 .. count(a), NEW n \in Nat,
           n <= obj(a, k).data, obj(a, k).data - n <= obj(a, k).parity, n = 0 => k = 1,
           Missing(a, E, k) = obj(a, k).first + n .. obj(a, k).first + obj(a, k).data - 1
    PROVE  Harmless(a, E, k)
  <1> DEFINE f == obj(a, k).first
             d == obj(a, k).data
             p == obj(a, k).parity
             x == f + n
             y == f + d
  <1>1. f \in Nat /\ d \in Nat /\ p \in Nat /\ n <= d /\ d - n <= p
    BY Extent
  <1>2. Missing(a, E, k) = x .. y - 1
    <2>1. Missing(a, E, k) = f + n .. f + d - 1
      OBVIOUS
    <2> HIDE DEF f, d
    <2> QED  BY <1>1, <2>1
  <1>3. x \in Nat /\ y \in Nat /\ x <= y /\ y - x = d - n
    BY <1>1, SMTT(40)
  <1>4. CASE n = d
    <2>1. x .. y - 1 = {}
      <3> HIDE DEF f, d
      <3> QED  BY <1>1, <1>4
    <2> QED  BY <1>2, <2>1 DEF Harmless
  <1>5. CASE n # d
    <2>1. x \in f .. y - 1 /\ (k = 1 \/ x > f)
      <3> HIDE DEF f, d
      <3> QED  BY <1>1, <1>5
    <2>2. Cardinality(x .. y - 1) = y - x
      <3> HIDE DEF x, y
      <3> QED  BY <1>3, GapSize
    <2>3. Cardinality(Missing(a, E, k)) <= p
      BY <1>1, <1>2, <1>3, <2>2
    <2>4. x .. y - 1 = x .. f + d - 1 /\ f .. y - 1 = f .. f + d - 1
      <3> HIDE DEF f, d
      <3> QED  BY <1>1
    <2>5. x \in f .. f + d - 1 /\ Missing(a, E, k) = x .. f + d - 1
      BY <1>2, <2>1, <2>4
    <2> HIDE DEF x
    <2> QED  BY <2>1, <2>3, <2>5, Zenon DEF Harmless
  <1> QED  BY <1>4, <1>5

\* The damage to one object says nothing of another.
LEMMA HarmlessKept ==
    ASSUME NEW a, NEW E, NEW F, NEW k, Missing(a, E, k) = Missing(a, F, k), Harmless(a, E, k)
    PROVE  Harmless(a, F, k)
  BY Zenon DEF Harmless

\* An archive without payload cannot do without its first block.
LEMMA FirstBlockLost ==
    ASSUME NEW a, LaidOut(a), NEW E, NEW live, payloads(a) = 0, 0 \in E
    PROVE  ~Loadable(a, live, E, 1) /\ 1 \in payloads(a) + 1 .. count(a)
  <1>1. 1 \in 1 .. count(a) /\ 1 \in payloads(a) + 1 .. count(a) /\ obj(a, 1).first = 0
    BY Extent DEF LaidOut
  <1>2. end_of(a, 1) \in Nat \ {0}
    BY <1>1, Extent
  <1>3. 0 \in Missing(a, E, 1)
    BY <1>1, <1>2 DEF Missing
  <1>4. ~(payloads(a) > 0)
    OBVIOUS
  <1> QED  BY <1>1, <1>3, <1>4 DEF Loadable

-----------------------------------------------------------------------------
(***************************************************************************)
(* The envelope pending                                                    *)
(***************************************************************************)

Pendings == [data_shards : Seq(Int), parity_shards : Seq(Int), saw_last_data : BOOLEAN,
             awaiting_tentative_parity : BOOLEAN, first_block_index : Int]

shards(p) == Len(p.data_shards)
parities(p) == Len(p.parity_shards)

\* Envelope t is pending: its first n blocks arrived, and all that came after them
\* was erased.
Gathered(a, p, t, E, n) ==
    LET first == obj(a, t).first
    IN  /\ p \in Pendings /\ p.first_block_index = first
        /\ t \in 1 .. payloads(a) + 1
        /\ shards(p) \in 1 .. a.options.fec_data_shards
        /\ n \in 0 .. shards(p)
        /\ \A i \in 1 .. n : p.data_shards[i] = first + (i - 1)
        /\ \A i \in n + 1 .. shards(p) : p.data_shards[i] = Erased
        /\ {b \in E : b >= first} = (first + n) .. (first + shards(p)) - 1
        /\ n < shards(p) => guaranteed(a)
        /\ IF n = 0 THEN t = 1 ELSE t <= payloads(a)

Nothing(p, t, E, o) == p = NoEnvelope /\ t = 1 /\ E = {} /\ o = 0

\* Its last data block has not been seen: what is erased may end its data.
Reading(a, p, t, E, o, n) ==
    /\ Gathered(a, p, t, E, n) /\ n < obj(a, t).data
    /\ parities(p) = 0 /\ ~p.saw_last_data
    /\ p.awaiting_tentative_parity <=> n < shards(p)
    /\ o = obj(a, t).first + shards(p)

\* All of its data and a part of its parity are there.
Closed(a, p, t, E, o, n) ==
    LET e == obj(a, t)
    IN  /\ Gathered(a, p, t, E, n)
        /\ t <= payloads(a)
        /\ p.saw_last_data /\ ~p.awaiting_tentative_parity
        /\ shards(p) = e.data /\ parities(p) <= e.parity
        /\ \A i \in 1 .. parities(p) : p.parity_shards[i] = e.first + e.data + (i - 1)
        /\ o = e.first + e.data + parities(p)

\* What was erased went beyond its data, and the parity that came next, its own or
\* that of a later envelope k, was taken for its own.
Doomed(a, p, t, E, o, n) ==
    LET e == obj(a, t)
    IN  /\ Gathered(a, p, t, E, n) /\ n < e.data
        /\ t <= payloads(a)
        /\ p.saw_last_data /\ ~p.awaiting_tentative_parity
        /\ e.data < shards(p) /\ 0 < parities(p)
        /\ o = e.first + shards(p) + parities(p)
        /\ \E k \in t .. payloads(a) :
              /\ obj(a, k).first + obj(a, k).data <= e.first + shards(p)
              /\ o <= end_of(a, k)

Gathering(a, p, t, E, o) ==
    \/ Nothing(p, t, E, o)
    \/ \E n \in 0 .. shards(p) :
          Reading(a, p, t, E, o, n) \/ Closed(a, p, t, E, o, n) \/ Doomed(a, p, t, E, o, n)

push_gap(p, b) ==
    [push_data(p, b, Erased, FALSE) EXCEPT !.awaiting_tentative_parity = TRUE]

push_parity(p, b) ==
    [note_block(p, b) EXCEPT !.awaiting_tentative_parity = FALSE,
                             !.saw_last_data = TRUE,
                             !.parity_shards = Append(@, b)]

within_caps(a, p) ==
    shards(p) <= a.options.fec_data_shards /\ parities(p) <= a.options.fec_parity_shards

\* The sizes of what is pending.
LEMMA PendingType ==
    ASSUME NEW p \in Pendings
    PROVE  /\ shards(p) \in Nat /\ parities(p) \in Nat
           /\ p.saw_last_data \in BOOLEAN /\ p.awaiting_tentative_parity \in BOOLEAN
           /\ p.data_shards \in Seq(Int) /\ p.parity_shards \in Seq(Int)
           /\ p.first_block_index \in Int
           /\ DOMAIN p.data_shards = 1 .. shards(p) /\ DOMAIN p.parity_shards = 1 .. parities(p)
  <1>1. /\ p.data_shards \in Seq(Int) /\ p.parity_shards \in Seq(Int)
        /\ p.saw_last_data \in BOOLEAN /\ p.awaiting_tentative_parity \in BOOLEAN
        /\ p.first_block_index \in Int
    BY DEF Pendings
  <1>2. /\ shards(p) \in Nat /\ parities(p) \in Nat
        /\ DOMAIN p.data_shards = 1 .. shards(p) /\ DOMAIN p.parity_shards = 1 .. parities(p)
    BY <1>1, LenProperties DEF shards, parities
  <1> QED  BY <1>1, <1>2

\* Nothing is pending.
LEMMA EmptyPending ==
    /\ NoEnvelope \in Pendings /\ shards(NoEnvelope) = 0 /\ parities(NoEnvelope) = 0
    /\ ~NoEnvelope.saw_last_data /\ ~NoEnvelope.awaiting_tentative_parity
    /\ NoEnvelope.first_block_index = Erased
    /\ NoEnvelope.data_shards = <<>> /\ NoEnvelope.parity_shards = <<>>
  BY DEF NoEnvelope, Pendings, shards, parities, Erased

\* A data shard is added,
LEMMA PushedData ==
    ASSUME NEW p \in Pendings, NEW b \in Int, NEW s \in Int, NEW last \in BOOLEAN,
           NEW q, q = push_data(p, b, s, last)
    PROVE  /\ q \in Pendings
           /\ shards(q) = shards(p) + 1 /\ parities(q) = parities(p)
           /\ \A i \in 1 .. shards(p) : q.data_shards[i] = p.data_shards[i]
           /\ q.data_shards[shards(p) + 1] = s
           /\ q.parity_shards = p.parity_shards
           /\ q.saw_last_data = last
           /\ q.awaiting_tentative_parity = p.awaiting_tentative_parity
           /\ q.first_block_index = IF p.first_block_index = Erased THEN b ELSE p.first_block_index
  <1> DEFINE d == p.data_shards
             f == IF p.first_block_index = Erased THEN b ELSE p.first_block_index
  <1>1. /\ p.data_shards \in Seq(Int) /\ p.parity_shards \in Seq(Int)
        /\ p.saw_last_data \in BOOLEAN /\ p.awaiting_tentative_parity \in BOOLEAN
        /\ p.first_block_index \in Int
    BY PendingType
  <1>2. f \in Int
    BY <1>1
  <1>3. q = [p EXCEPT !.first_block_index = f, !.data_shards = Append(p.data_shards, s), !.saw_last_data = last]
    BY DEF push_data, note_block, Pendings
  <1> HIDE DEF f
  <1>4. /\ q.data_shards = Append(p.data_shards, s) /\ q.parity_shards = p.parity_shards
        /\ q.saw_last_data = last /\ q.awaiting_tentative_parity = p.awaiting_tentative_parity
        /\ q.first_block_index = f
    BY <1>3 DEF Pendings
  <1>5. /\ Append(d, s) \in Seq(Int) /\ Len(Append(d, s)) = Len(d) + 1
        /\ \A i \in 1 .. Len(d) : Append(d, s)[i] = d[i]
        /\ Append(d, s)[Len(d) + 1] = s
    <2> HIDE DEF d
    <2>1. d \in Seq(Int)
      BY <1>1 DEF d
    <2> QED  BY <2>1, AppendProperties, LenProperties
  <1>6. q \in Pendings
    <2>1. Append(p.data_shards, s) \in Seq(Int)
      BY <1>5
    <2> QED  BY <1>1, <1>2, <1>3, <2>1 DEF Pendings
  <1> QED  BY <1>4, <1>5, <1>6 DEF shards, parities, f

\* a gap is added,
LEMMA PushedGap ==
    ASSUME NEW p \in Pendings, NEW b \in Int, NEW q, q = push_gap(p, b)
    PROVE  /\ q \in Pendings
           /\ shards(q) = shards(p) + 1 /\ parities(q) = parities(p)
           /\ \A i \in 1 .. shards(p) : q.data_shards[i] = p.data_shards[i]
           /\ q.data_shards[shards(p) + 1] = Erased
           /\ q.parity_shards = p.parity_shards
           /\ ~q.saw_last_data /\ q.awaiting_tentative_parity
           /\ q.first_block_index = IF p.first_block_index = Erased THEN b ELSE p.first_block_index
  <1> DEFINE d == p.data_shards
             f == IF p.first_block_index = Erased THEN b ELSE p.first_block_index
  <1>1. /\ p.data_shards \in Seq(Int) /\ p.parity_shards \in Seq(Int)
        /\ p.saw_last_data \in BOOLEAN /\ p.awaiting_tentative_parity \in BOOLEAN
        /\ p.first_block_index \in Int
    BY PendingType
  <1>2. f \in Int /\ Erased \in Int
    BY <1>1 DEF Erased
  <1>3. q = [p EXCEPT !.first_block_index = f, !.data_shards = Append(p.data_shards, Erased),
                      !.saw_last_data = FALSE, !.awaiting_tentative_parity = TRUE]
    BY DEF push_gap, push_data, note_block, Pendings
  <1> HIDE DEF f
  <1>4. /\ q.data_shards = Append(p.data_shards, Erased) /\ q.parity_shards = p.parity_shards
        /\ ~q.saw_last_data /\ q.awaiting_tentative_parity
        /\ q.first_block_index = f
    BY <1>3 DEF Pendings
  <1>5. /\ Append(d, Erased) \in Seq(Int) /\ Len(Append(d, Erased)) = Len(d) + 1
        /\ \A i \in 1 .. Len(d) : Append(d, Erased)[i] = d[i]
        /\ Append(d, Erased)[Len(d) + 1] = Erased
    <2> HIDE DEF d
    <2>1. d \in Seq(Int)
      BY <1>1 DEF d
    <2> QED  BY <1>2, <2>1, AppendProperties, LenProperties
  <1>6. q \in Pendings
    <2>1. Append(p.data_shards, Erased) \in Seq(Int)
      BY <1>5
    <2> QED  BY <1>1, <1>2, <1>3, <2>1 DEF Pendings
  <1> QED  BY <1>4, <1>5, <1>6 DEF shards, parities, f

\* a parity shard is added.
LEMMA PushedParity ==
    ASSUME NEW p \in Pendings, NEW b \in Int, NEW q, q = push_parity(p, b)
    PROVE  /\ q \in Pendings
           /\ shards(q) = shards(p) /\ parities(q) = parities(p) + 1
           /\ q.data_shards = p.data_shards
           /\ \A i \in 1 .. parities(p) : q.parity_shards[i] = p.parity_shards[i]
           /\ q.parity_shards[parities(p) + 1] = b
           /\ q.saw_last_data /\ ~q.awaiting_tentative_parity
           /\ q.first_block_index = IF p.first_block_index = Erased THEN b ELSE p.first_block_index
  <1> DEFINE d == p.parity_shards
             f == IF p.first_block_index = Erased THEN b ELSE p.first_block_index
  <1>1. /\ p.data_shards \in Seq(Int) /\ p.parity_shards \in Seq(Int)
        /\ p.saw_last_data \in BOOLEAN /\ p.awaiting_tentative_parity \in BOOLEAN
        /\ p.first_block_index \in Int
    BY PendingType
  <1>2. f \in Int
    BY <1>1
  <1>3. q = [p EXCEPT !.first_block_index = f, !.awaiting_tentative_parity = FALSE,
                      !.saw_last_data = TRUE, !.parity_shards = Append(p.parity_shards, b)]
    BY DEF push_parity, note_block, Pendings
  <1> HIDE DEF f
  <1>4. /\ q.data_shards = p.data_shards /\ q.parity_shards = Append(p.parity_shards, b)
        /\ q.saw_last_data /\ ~q.awaiting_tentative_parity
        /\ q.first_block_index = f
    BY <1>3 DEF Pendings
  <1>5. /\ Append(d, b) \in Seq(Int) /\ Len(Append(d, b)) = Len(d) + 1
        /\ \A i \in 1 .. Len(d) : Append(d, b)[i] = d[i]
        /\ Append(d, b)[Len(d) + 1] = b
    <2> HIDE DEF d
    <2>1. d \in Seq(Int)
      BY <1>1 DEF d
    <2> QED  BY <2>1, AppendProperties, LenProperties
  <1>6. q \in Pendings
    <2>1. Append(p.parity_shards, b) \in Seq(Int)
      BY <1>5
    <2> QED  BY <1>1, <1>2, <1>3, <2>1 DEF Pendings
  <1> QED  BY <1>4, <1>5, <1>6 DEF shards, parities, f

Sound(a) == LaidOut(a) /\ RequiredParity(a)

\* The numbers that describe what is pending.
LEMMA GatheredType ==
    ASSUME NEW a, Sound(a), NEW p, NEW t, NEW E, NEW n, Gathered(a, p, t, E, n)
    PROVE  /\ p \in Pendings /\ p.first_block_index = obj(a, t).first
           /\ t \in 1 .. count(a) /\ t \in Nat \ {0} /\ t <= payloads(a) + 1
           /\ payloads(a) \in Nat /\ count(a) \in Nat /\ payloads(a) < count(a)
           /\ obj(a, t).first \in Nat /\ obj(a, t).data \in Nat \ {0} /\ obj(a, t).parity \in Nat
           /\ end_of(a, t) = obj(a, t).first + obj(a, t).data + obj(a, t).parity
           /\ shards(p) \in Nat \ {0} /\ parities(p) \in Nat
           /\ shards(p) <= a.options.fec_data_shards
           /\ n \in Nat /\ n <= shards(p)
           /\ a.options.fec_data_shards \in Nat /\ a.options.fec_parity_shards \in Nat
  <1>1. payloads(a) \in Nat /\ count(a) \in Nat /\ payloads(a) < count(a)
    BY Extent DEF Sound
  <1>2. t \in 1 .. payloads(a) + 1 /\ p \in Pendings /\ p.first_block_index = obj(a, t).first
        /\ shards(p) \in 1 .. a.options.fec_data_shards /\ n \in 0 .. shards(p)
    BY DEF Gathered
  <1>3. t \in 1 .. count(a) /\ t \in Nat \ {0} /\ t <= payloads(a) + 1
    BY <1>1, <1>2
  <1>4. /\ obj(a, t).first \in Nat /\ obj(a, t).data \in Nat \ {0} /\ obj(a, t).parity \in Nat
        /\ end_of(a, t) = obj(a, t).first + obj(a, t).data + obj(a, t).parity
    BY <1>3, Extent DEF Sound
  <1>5. shards(p) \in Nat /\ parities(p) \in Nat
    BY <1>2, PendingType
  <1>6. a.options.fec_data_shards \in Nat /\ a.options.fec_parity_shards \in Nat
    BY DEF Sound, RequiredParity
  <1> QED  BY <1>1, <1>2, <1>3, <1>4, <1>5, <1>6

\* The first data block of an envelope.
LEMMA StartEnvelope ==
    ASSUME NEW a, Sound(a), NEW t \in 1 .. payloads(a), NEW E,
           \A b \in E : ~(b >= obj(a, t).first),
           NEW q, q = push_data(NoEnvelope, obj(a, t).first, obj(a, t).first,
                                obj(a, t).first = obj(a, t).first + obj(a, t).data - 1)
    PROVE  Gathering(a, q, t, E, obj(a, t).first + 1) /\ within_caps(a, q)
  <1> DEFINE f == obj(a, t).first
             d == obj(a, t).data
             last == f = f + d - 1
  <1>1. payloads(a) \in Nat /\ count(a) \in Nat /\ payloads(a) < count(a)
    BY Extent DEF Sound
  <1>2. t \in 1 .. count(a) /\ t \in 1 .. payloads(a) + 1 /\ t <= payloads(a)
    BY <1>1
  <1>3. f \in Nat /\ d \in Nat \ {0} /\ obj(a, t).parity \in Nat
    BY <1>2, Extent DEF Sound
  <1>4. last \in BOOLEAN /\ (last <=> d = 1)
    <2> HIDE DEF f, d
    <2> QED  BY <1>3
  <1>5. q = push_data(NoEnvelope, f, f, last)
    OBVIOUS
  <1> HIDE DEF last
  <1>6. /\ q \in Pendings /\ shards(q) = 1 /\ parities(q) = 0
        /\ q.data_shards[1] = f /\ q.saw_last_data = last /\ ~q.awaiting_tentative_parity
        /\ q.first_block_index = f
    <2>1. f \in Int
      BY <1>3
    <2> DEFINE p == NoEnvelope
    <2>2. /\ p \in Pendings /\ shards(p) = 0 /\ parities(p) = 0
          /\ p.first_block_index = Erased /\ ~p.awaiting_tentative_parity
      BY EmptyPending
    <2>3. q = push_data(p, f, f, last)
      BY <1>5
    <2> HIDE DEF p, f
    <2>4. /\ q \in Pendings
          /\ shards(q) = shards(p) + 1 /\ parities(q) = parities(p)
          /\ q.data_shards[shards(p) + 1] = f
          /\ q.saw_last_data = last
          /\ q.awaiting_tentative_parity = p.awaiting_tentative_parity
          /\ q.first_block_index = IF p.first_block_index = Erased THEN f ELSE p.first_block_index
      BY <1>4, <2>1, <2>2, <2>3, PushedData
    <2> QED  BY <2>2, <2>4
  <1>7. a.options.fec_data_shards \in Nat /\ a.options.fec_parity_shards \in Nat
        /\ d <= a.options.fec_data_shards
    BY <1>2 DEF Sound, LaidOut, RequiredParity
  <1>8. Gathered(a, q, t, E, 1)
    <2>1. {b \in E : b >= f} = (f + 1) .. (f + shards(q)) - 1
      <3> HIDE DEF f
      <3>1. (f + 1) .. (f + shards(q)) - 1 = {}
        BY <1>3, <1>6
      <3>2. \A b \in E : ~(b >= f)
        BY DEF f
      <3> QED  BY <3>1, <3>2
    <2>2. \A i \in 1 .. 1 : q.data_shards[i] = f + (i - 1)
      <3> HIDE DEF f
      <3> QED  BY <1>3, <1>6
    <2>3. 1 + 1 .. shards(q) = {} /\ shards(q) \in 1 .. a.options.fec_data_shards /\ 1 \in 0 .. shards(q)
          /\ ~(1 < shards(q))
      <3> HIDE DEF d
      <3> QED  BY <1>3, <1>6, <1>7
    <2> QED  BY <1>2, <1>6, <2>1, <2>2, <2>3 DEF Gathered
  <1>9. within_caps(a, q)
    <2> HIDE DEF d
    <2> QED  BY <1>3, <1>6, <1>7 DEF within_caps
  <1>10. 1 \in 0 .. shards(q)
    BY <1>6
  <1>11. CASE d = 1
    <2>1. Closed(a, q, t, E, f + 1, 1)
      <3>1. q.saw_last_data
        BY <1>4, <1>6, <1>11
      <3>2. f + 1 = f + d + parities(q) /\ parities(q) <= obj(a, t).parity
            /\ 1 .. parities(q) = {} /\ shards(q) = d
        <4> HIDE DEF f, d
        <4> QED  BY <1>3, <1>6, <1>11
      <3> QED  BY <1>2, <1>6, <1>8, <3>1, <3>2 DEF Closed
    <2> QED  BY <1>9, <1>10, <2>1 DEF Gathering
  <1>12. CASE d # 1
    <2>1. Reading(a, q, t, E, f + 1, 1)
      <3>1. ~q.saw_last_data
        BY <1>4, <1>6, <1>12
      <3>2. 1 < d /\ ~(1 < shards(q)) /\ f + 1 = f + shards(q)
        <4> HIDE DEF f, d
        <4> QED  BY <1>3, <1>6, <1>12
      <3> QED  BY <1>6, <1>8, <3>1, <3>2 DEF Reading
    <2> QED  BY <1>9, <1>10, <2>1 DEF Gathering
  <1> QED  BY <1>11, <1>12

\* The next data block of an envelope without a gap.
LEMMA NextData ==
    ASSUME NEW a, Sound(a), NEW p, NEW t, NEW E, NEW o, NEW n,
           Reading(a, p, t, E, o, n), n = shards(p),
           NEW q, q = push_data(p, o, o, o = obj(a, t).first + obj(a, t).data - 1)
    PROVE  Gathering(a, q, t, E, o + 1) /\ within_caps(a, q)
  <1> DEFINE f == obj(a, t).first
             d == obj(a, t).data
             last == o = f + d - 1
  <1>1. /\ p \in Pendings /\ p.first_block_index = f /\ t \in 1 .. count(a) /\ t \in Nat \ {0}
        /\ t <= payloads(a) + 1 /\ payloads(a) \in Nat
        /\ f \in Nat /\ d \in Nat \ {0} /\ obj(a, t).parity \in Nat
        /\ n \in Nat \ {0} /\ shards(p) = n /\ parities(p) \in Nat
        /\ a.options.fec_data_shards \in Nat /\ a.options.fec_parity_shards \in Nat
    BY GatheredType DEF Reading
  <1>2. /\ Gathered(a, p, t, E, n) /\ n < d /\ parities(p) = 0
        /\ ~p.awaiting_tentative_parity /\ o = f + n
    BY <1>1 DEF Reading
  <1>3. /\ \A i \in 1 .. n : p.data_shards[i] = f + (i - 1)
        /\ {b \in E : b >= f} = (f + n) .. (f + n) - 1
        /\ t <= payloads(a)
    BY <1>1, <1>2 DEF Gathered
  <1>4. last \in BOOLEAN /\ (last <=> n + 1 = d)
    <2> HIDE DEF f, d
    <2> QED  BY <1>1, <1>2
  <1>5. q = push_data(p, o, o, last)
    OBVIOUS
  <1> HIDE DEF last
  <1>6. /\ q \in Pendings /\ shards(q) = n + 1 /\ parities(q) = 0
        /\ \A i \in 1 .. n : q.data_shards[i] = p.data_shards[i]
        /\ q.data_shards[n + 1] = o /\ q.saw_last_data = last /\ ~q.awaiting_tentative_parity
        /\ q.first_block_index = f
    <2>1. o \in Int /\ f # Erased
      BY <1>1, <1>2 DEF Erased
    <2>2. /\ q \in Pendings
          /\ shards(q) = shards(p) + 1 /\ parities(q) = parities(p)
          /\ \A i \in 1 .. shards(p) : q.data_shards[i] = p.data_shards[i]
          /\ q.data_shards[shards(p) + 1] = o
          /\ q.saw_last_data = last
          /\ q.awaiting_tentative_parity = p.awaiting_tentative_parity
          /\ q.first_block_index = IF p.first_block_index = Erased THEN o ELSE p.first_block_index
      BY <1>1, <1>4, <1>5, <2>1, PushedData
    <2> QED  BY <1>1, <1>2, <2>1, <2>2
  <1>7. d <= a.options.fec_data_shards
    BY <1>1 DEF Sound, LaidOut
  <1> HIDE DEF f, d
  <1>8. Gathered(a, q, t, E, n + 1)
    <2>1. {b \in E : b >= f} = (f + (n + 1)) .. (f + shards(q)) - 1
      <3>1. (f + n) .. (f + n) - 1 = {} /\ (f + (n + 1)) .. (f + shards(q)) - 1 = {}
        BY <1>1, <1>6
      <3> QED  BY <1>3, <3>1
    <2>2. \A i \in 1 .. n + 1 : q.data_shards[i] = f + (i - 1)
      BY <1>1, <1>2, <1>3, <1>6
    <2>3. /\ (n + 1) + 1 .. shards(q) = {} /\ shards(q) \in 1 .. a.options.fec_data_shards
          /\ n + 1 \in 0 .. shards(q) /\ ~(n + 1 < shards(q)) /\ n + 1 # 0
      BY <1>1, <1>2, <1>6, <1>7
    <2>4. t \in 1 .. payloads(a) + 1
      BY <1>1
    <2> QED  BY <1>3, <1>6, <2>1, <2>2, <2>3, <2>4 DEF Gathered, f
  <1>9. within_caps(a, q)
    BY <1>1, <1>2, <1>6, <1>7 DEF within_caps
  <1>10. n + 1 \in 0 .. shards(q)
    BY <1>1, <1>6
  <1>11. CASE n + 1 = d
    <2>1. Closed(a, q, t, E, o + 1, n + 1)
      <3>1. q.saw_last_data
        BY <1>4, <1>6, <1>11
      <3>2. o + 1 = f + d + parities(q) /\ parities(q) <= obj(a, t).parity
            /\ 1 .. parities(q) = {} /\ shards(q) = d
        BY <1>1, <1>2, <1>6, <1>11
      <3> QED  BY <1>3, <1>6, <1>8, <3>1, <3>2 DEF Closed, f, d
    <2> QED  BY <1>9, <1>10, <2>1 DEF Gathering
  <1>12. CASE n + 1 # d
    <2>1. Reading(a, q, t, E, o + 1, n + 1)
      <3>1. ~q.saw_last_data
        BY <1>4, <1>6, <1>12
      <3>2. n + 1 < d /\ ~(n + 1 < shards(q)) /\ o + 1 = f + shards(q)
        BY <1>1, <1>2, <1>6, <1>12
      <3> QED  BY <1>6, <1>8, <3>1, <3>2 DEF Reading, f, d
    <2> QED  BY <1>9, <1>10, <2>1 DEF Gathering
  <1> QED  BY <1>11, <1>12

\* A gap at the very start of the stream.
LEMMA FirstGap ==
    ASSUME NEW a, Sound(a), guaranteed(a), NEW q, q = push_gap(NoEnvelope, 0)
    PROVE  Gathering(a, q, 1, {0}, 1) /\ within_caps(a, q)
  <1> DEFINE f == obj(a, 1).first
             d == obj(a, 1).data
  <1>1. payloads(a) \in Nat /\ count(a) \in Nat /\ payloads(a) < count(a)
    BY Extent DEF Sound
  <1>2. 1 \in 1 .. count(a) /\ 1 \in 1 .. payloads(a) + 1
    BY <1>1
  <1>3. f = 0 /\ d \in Nat \ {0} /\ d <= a.options.fec_data_shards
        /\ a.options.fec_data_shards \in Nat /\ a.options.fec_parity_shards \in Nat
    BY <1>2, Extent DEF Sound, LaidOut, RequiredParity
  <1>4. /\ q \in Pendings /\ shards(q) = 1 /\ parities(q) = 0
        /\ q.data_shards[1] = Erased /\ ~q.saw_last_data /\ q.awaiting_tentative_parity
        /\ q.first_block_index = 0
    <2> DEFINE p == NoEnvelope
    <2>1. /\ p \in Pendings /\ shards(p) = 0 /\ parities(p) = 0 /\ p.first_block_index = Erased
      BY EmptyPending
    <2>2. q = push_gap(p, 0) /\ 0 \in Int
      OBVIOUS
    <2> HIDE DEF p
    <2>3. /\ q \in Pendings
          /\ shards(q) = shards(p) + 1 /\ parities(q) = parities(p)
          /\ q.data_shards[shards(p) + 1] = Erased
          /\ ~q.saw_last_data /\ q.awaiting_tentative_parity
          /\ q.first_block_index = IF p.first_block_index = Erased THEN 0 ELSE p.first_block_index
      BY <2>1, <2>2, PushedGap, SMTT(40)
    <2> QED  BY <2>1, <2>3
  <1>5. Gathered(a, q, 1, {0}, 0)
    <2>1. {b \in {0} : b >= f} = (f + 0) .. (f + shards(q)) - 1
      <3> HIDE DEF f
      <3> QED  BY <1>3, <1>4
    <2>2. \A i \in 0 + 1 .. shards(q) : q.data_shards[i] = Erased
      BY <1>4
    <2>3. 1 .. 0 = {} /\ shards(q) \in 1 .. a.options.fec_data_shards /\ 0 \in 0 .. shards(q)
      <3> HIDE DEF d
      <3> QED  BY <1>3, <1>4
    <2> QED  BY <1>2, <1>3, <1>4, <2>1, <2>2, <2>3 DEF Gathered
  <1>6. Reading(a, q, 1, {0}, 1, 0)
    <2>1. 0 < d /\ 0 < shards(q) /\ 1 = f + shards(q)
      <3> HIDE DEF f, d
      <3> QED  BY <1>3, <1>4
    <2> QED  BY <1>4, <1>5, <2>1 DEF Reading
  <1>7. within_caps(a, q) /\ 0 \in 0 .. shards(q)
    <2> HIDE DEF d
    <2> QED  BY <1>3, <1>4 DEF within_caps
  <1> QED  BY <1>6, <1>7 DEF Gathering

\* A gap after what was read of an envelope, or the gap growing.
LEMMA NextGap ==
    ASSUME NEW a, Sound(a), guaranteed(a), NEW p, NEW t, NEW E, NEW o, NEW n,
           Reading(a, p, t, E, o, n), NEW q, q = push_gap(p, o), within_caps(a, q)
    PROVE  Gathering(a, q, t, E \cup {o}, o + 1)
  <1> DEFINE f == obj(a, t).first
             d == obj(a, t).data
             s == shards(p)
  <1>1. /\ p \in Pendings /\ p.first_block_index = f /\ t \in 1 .. count(a)
        /\ f \in Nat /\ d \in Nat \ {0}
        /\ n \in Nat /\ s \in Nat \ {0} /\ n <= s
        /\ a.options.fec_data_shards \in Nat
    BY GatheredType DEF Reading
  <1>2. /\ Gathered(a, p, t, E, n) /\ n < d /\ parities(p) = 0 /\ o = f + s
    BY DEF Reading
  <1>3. /\ \A i \in 1 .. n : p.data_shards[i] = f + (i - 1)
        /\ \A i \in n + 1 .. s : p.data_shards[i] = Erased
        /\ {b \in E : b >= f} = (f + n) .. (f + s) - 1
        /\ t \in 1 .. payloads(a) + 1
        /\ IF n = 0 THEN t = 1 ELSE t <= payloads(a)
    BY <1>2 DEF Gathered
  <1>4. /\ q \in Pendings /\ shards(q) = s + 1 /\ parities(q) = 0
        /\ \A i \in 1 .. s : q.data_shards[i] = p.data_shards[i]
        /\ q.data_shards[s + 1] = Erased /\ ~q.saw_last_data /\ q.awaiting_tentative_parity
        /\ q.first_block_index = f
    <2>1. o \in Int /\ f # Erased /\ p \in Pendings
      BY <1>1, <1>2 DEF Erased
    <2>2. /\ q \in Pendings
          /\ shards(q) = shards(p) + 1 /\ parities(q) = parities(p)
          /\ \A i \in 1 .. shards(p) : q.data_shards[i] = p.data_shards[i]
          /\ q.data_shards[shards(p) + 1] = Erased
          /\ ~q.saw_last_data /\ q.awaiting_tentative_parity
          /\ q.first_block_index = IF p.first_block_index = Erased THEN o ELSE p.first_block_index
      BY <2>1, PushedGap, ZenonT(60)
    <2> QED  BY <1>1, <1>2, <2>1, <2>2
  <1>5. s + 1 <= a.options.fec_data_shards
    BY <1>4 DEF within_caps
  <1> HIDE DEF f, d, s
  <1>6. Gathered(a, q, t, E \cup {o}, n)
    <2>1. {b \in E \cup {o} : b >= f} = (f + n) .. (f + shards(q)) - 1
      <3>1. (f + n) .. (f + (s + 1)) - 1 = ((f + n) .. (f + s) - 1) \cup {o}
        BY <1>1, <1>2
      <3>2. {b \in E \cup {o} : b >= f} = {b \in E : b >= f} \cup {o}
        <4>1. o >= f
          BY <1>1, <1>2
        <4> QED  BY <4>1
      <3> QED  BY <1>3, <1>4, <3>1, <3>2
    <2>2. \A i \in 1 .. n : q.data_shards[i] = f + (i - 1)
      BY <1>1, <1>3, <1>4
    <2>3. \A i \in n + 1 .. shards(q) : q.data_shards[i] = Erased
      BY <1>1, <1>3, <1>4
    <2>4. shards(q) \in 1 .. a.options.fec_data_shards /\ n \in 0 .. shards(q)
      BY <1>1, <1>4, <1>5
    <2> QED  BY <1>3, <1>4, <2>1, <2>2, <2>3, <2>4 DEF Gathered, f
  <1>7. Reading(a, q, t, E \cup {o}, o + 1, n)
    <2>1. n < d /\ n < shards(q) /\ o + 1 = f + shards(q)
      BY <1>1, <1>2, <1>4
    <2> QED  BY <1>4, <1>6, <2>1 DEF Reading, f, d
  <1>8. n \in 0 .. shards(q)
    BY <1>1, <1>4
  <1> QED  BY <1>7, <1>8 DEF Gathering

\* A parity shard does not change the data.
LEMMA StillGathered ==
    ASSUME NEW a, Sound(a), NEW p, NEW t, NEW E, NEW n, Gathered(a, p, t, E, n),
           NEW b \in Int
    PROVE  LET q == push_parity(p, b)
           IN  /\ Gathered(a, q, t, E, n)
               /\ shards(q) = shards(p) /\ parities(q) = parities(p) + 1
               /\ \A i \in 1 .. parities(p) : q.parity_shards[i] = p.parity_shards[i]
               /\ q.parity_shards[parities(p) + 1] = b
               /\ q.saw_last_data /\ ~q.awaiting_tentative_parity
  <1> DEFINE q == push_parity(p, b)
  <1>0. q = push_parity(p, b)
    OBVIOUS
  <1> HIDE DEF q
  <1>1. p \in Pendings /\ p.first_block_index = obj(a, t).first /\ obj(a, t).first \in Nat
    BY GatheredType
  <1>2. /\ q \in Pendings
        /\ shards(q) = shards(p) /\ parities(q) = parities(p) + 1
        /\ q.data_shards = p.data_shards
        /\ \A i \in 1 .. parities(p) : q.parity_shards[i] = p.parity_shards[i]
        /\ q.parity_shards[parities(p) + 1] = b
        /\ q.saw_last_data /\ ~q.awaiting_tentative_parity
        /\ q.first_block_index = IF p.first_block_index = Erased THEN b ELSE p.first_block_index
    BY <1>0, <1>1, PushedParity, SMTT(40)
  <1>3. q.first_block_index = obj(a, t).first
    BY <1>1, <1>2 DEF Erased
  <1>4. Gathered(a, q, t, E, n)
    BY <1>2, <1>3 DEF Gathered
  <1> QED  BY <1>2, <1>4 DEF q

\* The block at o is a parity block of envelope k.
IsParity(a, k, o) == obj(a, k).first + obj(a, k).data <= o /\ o < end_of(a, k)

\* The parity block after a gap: its own first one if the gap ended with its data.
LEMMA GapEnds ==
    ASSUME NEW a, Sound(a), NEW p, NEW t, NEW E, NEW o, NEW n,
           Reading(a, p, t, E, o, n), n < shards(p),
           NEW k \in t .. payloads(a), IsParity(a, k, o),
           NEW q, q = push_parity(p, o)
    PROVE  Gathering(a, q, t, E, o + 1) /\ within_caps(a, q)
  <1> DEFINE f == obj(a, t).first
             d == obj(a, t).data
             r == obj(a, t).parity
             s == shards(p)
  <1>1. /\ p \in Pendings /\ t \in 1 .. count(a) /\ t \in Nat \ {0}
        /\ payloads(a) \in Nat /\ count(a) \in Nat /\ payloads(a) < count(a)
        /\ f \in Nat /\ d \in Nat \ {0} /\ r \in Nat /\ end_of(a, t) = f + d + r
        /\ n \in Nat /\ s \in Nat \ {0} /\ n <= s /\ s <= a.options.fec_data_shards
        /\ a.options.fec_data_shards \in Nat /\ a.options.fec_parity_shards \in Nat
    BY GatheredType DEF Reading
  <1>2. Gathered(a, p, t, E, n) /\ n < d /\ parities(p) = 0 /\ o = f + s
    BY DEF Reading
  <1>3. guaranteed(a)
    BY <1>2 DEF Gathered
  <1>4. /\ Gathered(a, q, t, E, n)
        /\ shards(q) = s /\ parities(q) = 1
        /\ q.parity_shards[1] = o
        /\ q.saw_last_data /\ ~q.awaiting_tentative_parity
    <2>1. o \in Int
      BY <1>1, <1>2
    <2>0. Gathered(a, p, t, E, n)
      BY <1>2
    <2>2. /\ Gathered(a, q, t, E, n)
          /\ shards(q) = shards(p) /\ parities(q) = parities(p) + 1
          /\ q.parity_shards[parities(p) + 1] = o
          /\ q.saw_last_data /\ ~q.awaiting_tentative_parity
      BY <2>0, <2>1, StillGathered
    <2> QED  BY <1>2, <2>2
  <1>5. t <= payloads(a) /\ t <= k /\ k \in 1 .. count(a) /\ k \in Nat
    BY <1>1
  <1>6. /\ obj(a, k).first \in Nat /\ obj(a, k).data \in Nat \ {0} /\ obj(a, k).parity \in Nat
        /\ end_of(a, k) = obj(a, k).first + obj(a, k).data + obj(a, k).parity
    BY <1>5, Extent DEF Sound
  <1>7. obj(a, k).first + obj(a, k).data <= o /\ o < end_of(a, k)
    BY DEF IsParity
  <1>8. within_caps(a, q)
    <2>1. 0 < r /\ r <= a.options.fec_parity_shards
      BY <1>1, <1>3 DEF Sound, LaidOut
    <2> HIDE DEF s, r
    <2> QED  BY <1>1, <1>4, <2>1 DEF within_caps
  <1>9. n \in 0 .. shards(q)
    BY <1>1, <1>4
  <1>10. t < k => f + d < obj(a, k).first
    <2>1. t < k => end_of(a, t) <= obj(a, k).first
      BY <1>1, <1>5 DEF Sound, LaidOut
    <2>2. 0 < r
      BY <1>1, <1>3 DEF Sound, LaidOut
    <2> HIDE DEF f, d, r
    <2> QED  BY <1>1, <1>6, <2>1, <2>2
  <1>11. d <= s /\ (t < k => d < s)
    <2>1. CASE t = k
      BY <1>1, <1>2, <1>7, <2>1
    <2>2. CASE t # k
      <3> HIDE DEF f, d, s
      <3> QED  BY <1>1, <1>2, <1>5, <1>6, <1>7, <1>10, <2>2
    <2> QED  BY <2>1, <2>2
  <1>12. CASE s = d
    <2>1. t = k
      <3> HIDE DEF s, d
      <3> QED  BY <1>1, <1>5, <1>11, <1>12
    <2>2. parities(q) <= r /\ o + 1 = f + d + parities(q) /\ 1 .. parities(q) = {1} /\ o = f + d + (1 - 1)
      BY <1>1, <1>2, <1>4, <1>7, <1>12, <2>1
    <2>3. Closed(a, q, t, E, o + 1, n)
      BY <1>4, <1>5, <1>12, <2>2 DEF Closed
    <2> QED  BY <1>8, <1>9, <2>3 DEF Gathering
  <1>13. CASE s # d
    <2>1. d < s /\ 0 < parities(q) /\ o + 1 = f + s + parities(q)
      <3> HIDE DEF s, d, f
      <3> QED  BY <1>1, <1>2, <1>4, <1>11, <1>13
    <2>2. obj(a, k).first + obj(a, k).data <= f + s /\ o + 1 <= end_of(a, k)
      BY <1>1, <1>2, <1>6, <1>7
    <2>3. Doomed(a, q, t, E, o + 1, n)
      BY <1>2, <1>4, <1>5, <2>1, <2>2 DEF Doomed
    <2> QED  BY <1>8, <1>9, <2>3 DEF Gathering
  <1> QED  BY <1>12, <1>13

\* The next parity block of a closed envelope.
LEMMA NextParity ==
    ASSUME NEW a, Sound(a), NEW p, NEW t, NEW E, NEW o, NEW n,
           Closed(a, p, t, E, o, n), o < end_of(a, t),
           NEW q, q = push_parity(p, o)
    PROVE  Gathering(a, q, t, E, o + 1) /\ within_caps(a, q)
  <1> DEFINE f == obj(a, t).first
             d == obj(a, t).data
             r == obj(a, t).parity
             s == parities(p)
  <1>1. /\ p \in Pendings /\ t \in 1 .. count(a) /\ t \in Nat \ {0}
        /\ f \in Nat /\ d \in Nat \ {0} /\ r \in Nat /\ end_of(a, t) = f + d + r
        /\ n \in Nat /\ n <= shards(p) /\ s \in Nat /\ shards(p) \in Nat
        /\ shards(p) <= a.options.fec_data_shards
        /\ a.options.fec_data_shards \in Nat /\ a.options.fec_parity_shards \in Nat
    BY GatheredType DEF Closed
  <1>2. /\ Gathered(a, p, t, E, n) /\ t <= payloads(a) /\ shards(p) = d /\ s <= r
        /\ o = f + d + s
        /\ \A i \in 1 .. s : p.parity_shards[i] = f + d + (i - 1)
    BY DEF Closed
  <1>3. /\ Gathered(a, q, t, E, n)
        /\ shards(q) = d /\ parities(q) = s + 1
        /\ \A i \in 1 .. s : q.parity_shards[i] = p.parity_shards[i]
        /\ q.parity_shards[s + 1] = o
        /\ q.saw_last_data /\ ~q.awaiting_tentative_parity
    <2>1. o \in Int
      BY <1>1, <1>2
    <2>0. Gathered(a, p, t, E, n)
      BY <1>2
    <2>2. /\ Gathered(a, q, t, E, n)
          /\ shards(q) = shards(p) /\ parities(q) = parities(p) + 1
          /\ \A i \in 1 .. parities(p) : q.parity_shards[i] = p.parity_shards[i]
          /\ q.parity_shards[parities(p) + 1] = o
          /\ q.saw_last_data /\ ~q.awaiting_tentative_parity
      BY <2>0, <2>1, StillGathered, SMTT(40)
    <2> QED  BY <1>2, <2>2
  <1>4. r <= a.options.fec_parity_shards
    BY <1>1 DEF Sound, LaidOut
  <1>5. o < f + d + r
    BY <1>1
  <1> HIDE DEF f, d, r, s
  <1>6. s + 1 <= r /\ o + 1 = f + d + (s + 1)
    BY <1>1, <1>2, <1>5
  <1>7. \A i \in 1 .. s + 1 : q.parity_shards[i] = f + d + (i - 1)
    BY <1>1, <1>2, <1>3
  <1>8. Closed(a, q, t, E, o + 1, n)
    BY <1>2, <1>3, <1>6, <1>7 DEF Closed, f, d, r
  <1>9. within_caps(a, q) /\ n \in 0 .. shards(q)
    BY <1>1, <1>2, <1>3, <1>4, <1>6 DEF within_caps
  <1> QED  BY <1>8, <1>9 DEF Gathering

\* A doomed envelope takes another parity block for its own.
LEMMA DoomedParity ==
    ASSUME NEW a, Sound(a), NEW p, NEW t, NEW E, NEW o, NEW n,
           Doomed(a, p, t, E, o, n), NEW k \in 1 .. payloads(a), IsParity(a, k, o),
           NEW q, q = push_parity(p, o)
    PROVE  Gathering(a, q, t, E, o + 1)
  <1> DEFINE f == obj(a, t).first
             d == obj(a, t).data
             s == shards(p)
             r == parities(p)
  <1>1. /\ p \in Pendings /\ t \in 1 .. count(a) /\ t \in Nat \ {0}
        /\ payloads(a) \in Nat /\ count(a) \in Nat /\ payloads(a) < count(a)
        /\ f \in Nat /\ d \in Nat \ {0}
        /\ n \in Nat /\ n <= s /\ s \in Nat /\ r \in Nat
    BY GatheredType DEF Doomed
  <1>2. /\ Gathered(a, p, t, E, n) /\ n < d /\ t <= payloads(a) /\ d < s /\ 0 < r
        /\ o = f + s + r
    BY DEF Doomed
  <1>4. /\ Gathered(a, q, t, E, n)
        /\ shards(q) = s /\ parities(q) = r + 1
        /\ q.saw_last_data /\ ~q.awaiting_tentative_parity
    <2>1. o \in Int
      BY <1>1, <1>2
    <2>0. Gathered(a, p, t, E, n)
      BY <1>2
    <2>3. LET w == push_parity(p, o)
          IN  /\ Gathered(a, w, t, E, n)
              /\ shards(w) = shards(p) /\ parities(w) = parities(p) + 1
              /\ \A i \in 1 .. parities(p) : w.parity_shards[i] = p.parity_shards[i]
              /\ w.parity_shards[parities(p) + 1] = o
              /\ w.saw_last_data /\ ~w.awaiting_tentative_parity
      BY <2>0, <2>1, StillGathered, Zenon
    <2>2. /\ Gathered(a, q, t, E, n)
          /\ shards(q) = shards(p) /\ parities(q) = parities(p) + 1
          /\ q.saw_last_data /\ ~q.awaiting_tentative_parity
      BY <2>3
    <2> QED  BY <2>2
  <1>3. PICK j \in t .. payloads(a) :
            obj(a, j).first + obj(a, j).data <= f + s /\ o <= end_of(a, j)
    BY DEF Doomed
  <1>5. j \in 1 .. count(a) /\ j + 1 \in 1 .. count(a) /\ j \in 1 .. count(a) - 1 /\ k \in 1 .. count(a)
    BY <1>1, <1>3
  <1>6. o # end_of(a, j)
    <2> SUFFICES ASSUME o = end_of(a, j) PROVE FALSE
      OBVIOUS
    <2>1. obj(a, j + 1).first = o
      BY <1>5 DEF Sound, LaidOut
    <2>2. /\ obj(a, j + 1).data \in Nat \ {0} /\ obj(a, j + 1).parity \in Nat /\ obj(a, j + 1).first \in Nat
          /\ end_of(a, j + 1) = obj(a, j + 1).first + obj(a, j + 1).data + obj(a, j + 1).parity
          /\ obj(a, k).data \in Nat \ {0} /\ obj(a, k).first \in Nat
      BY <1>5, Extent DEF Sound
    <2>3. InObject(a, j + 1, o) /\ InObject(a, k, o) /\ o \in Int
      BY <2>1, <2>2 DEF InObject, IsParity
    <2>4. k = j + 1
      BY <1>5, <2>3, OneObject DEF Sound
    <2> QED  BY <2>1, <2>2, <2>4 DEF IsParity
  <1>7. end_of(a, j) \in Nat /\ o \in Nat
    BY <1>1, <1>2, <1>5, Extent DEF Sound
  <1>8. o + 1 <= end_of(a, j) /\ 0 < parities(q) /\ o + 1 = f + s + parities(q)
    <2> HIDE DEF f, s, r
    <2> QED  BY <1>1, <1>2, <1>3, <1>4, <1>6, <1>7
  <1>9. Doomed(a, q, t, E, o + 1, n)
    BY <1>2, <1>3, <1>4, <1>8 DEF Doomed
  <1>10. n \in 0 .. shards(q)
    BY <1>1, <1>4
  <1> QED  BY <1>9, <1>10 DEF Gathering

\* The erased shards of what is pending.
LEMMA GapsPending ==
    ASSUME NEW a, Sound(a), NEW p, NEW t, NEW E, NEW n, Gathered(a, p, t, E, n)
    PROVE  Cardinality({i \in DOMAIN p.data_shards : p.data_shards[i] = Erased}) = shards(p) - n
  <1> DEFINE f == obj(a, t).first
             s == shards(p)
             G == {i \in DOMAIN p.data_shards : p.data_shards[i] = Erased}
  <1>1. p \in Pendings /\ f \in Nat /\ s \in Nat /\ n \in Nat /\ n <= s
    BY GatheredType
  <1>2. DOMAIN p.data_shards = 1 .. s
    BY <1>1, PendingType
  <1>3. /\ \A i \in 1 .. n : p.data_shards[i] = f + (i - 1)
        /\ \A i \in n + 1 .. s : p.data_shards[i] = Erased
    BY DEF Gathered
  <1> HIDE DEF f, s
  <1>4. G = (n + 1) .. (s + 1) - 1
    <2>1. \A i \in 1 .. n : p.data_shards[i] # Erased
      BY <1>1, <1>3 DEF Erased
    <2>2. \A i \in 1 .. s : i \in G <=> i \in n + 1 .. s
      BY <1>1, <1>2, <1>3, <2>1
    <2>3. (n + 1) .. (s + 1) - 1 = n + 1 .. s /\ n + 1 .. s \subseteq 1 .. s
      BY <1>1
    <2>4. G \subseteq 1 .. s
      BY <1>2
    <2> HIDE DEF G
    <2> QED  BY <2>2, <2>3, <2>4
  <1>5. n + 1 \in Nat /\ s + 1 \in Nat /\ n + 1 <= s + 1 /\ (s + 1) - (n + 1) = s - n
    BY <1>1
  <1>6. Cardinality((n + 1) .. (s + 1) - 1) = (s + 1) - (n + 1)
    <2> DEFINE x == n + 1
               y == s + 1
    <2>1. x \in Nat /\ y \in Nat /\ x <= y
      BY <1>5
    <2> HIDE DEF x, y
    <2>2. Cardinality(x .. y - 1) = y - x
      BY <2>1, GapSize
    <2> QED  BY <2>2 DEF x, y
  <1> QED  BY <1>4, <1>5, <1>6 DEF s

\* No doomed envelope passes for a good one.
LEMMA DoomedIsNoticed ==
    ASSUME Sound(archive), NEW p, NEW t, NEW E, NEW o, NEW n, Doomed(archive, p, t, E, o, n)
    PROVE  ~finalizable(p)
  <1> DEFINE a == archive
             f == obj(a, t).first
             d == obj(a, t).data
             r == obj(a, t).parity
             s == shards(p)
             x == parities(p)
             full == a.options.fec_data_shards
             need == a.required_parity[s]
  <1>1. /\ p \in Pendings /\ t \in 1 .. count(a) /\ t \in Nat \ {0}
        /\ payloads(a) \in Nat /\ count(a) \in Nat /\ payloads(a) < count(a)
        /\ f \in Nat /\ d \in Nat \ {0} /\ r \in Nat /\ end_of(a, t) = f + d + r
        /\ n \in Nat /\ n <= s /\ s \in Nat \ {0} /\ s <= full /\ x \in Nat /\ full \in Nat
    BY GatheredType DEF Doomed
  <1>2. /\ Gathered(a, p, t, E, n) /\ n < d /\ t <= payloads(a) /\ d < s /\ 0 < x
        /\ o = f + s + x
    BY DEF Doomed
  <1>3. PICK k \in t .. payloads(a) :
            obj(a, k).first + obj(a, k).data <= f + s /\ o <= end_of(a, k)
    BY DEF Doomed
  <1> DEFINE g == obj(a, k).first
             c == obj(a, k).data
             y == obj(a, k).parity
  <1>4. guaranteed(a)
    <2> HIDE DEF s
    <2>1. n < s
      BY <1>1, <1>2
    <2> QED  BY <1>2, <2>1 DEF Gathered, s
  <1>5. k \in 1 .. count(a) /\ k \in Nat
    BY <1>1, <1>3
  <1>6. /\ g \in Nat /\ c \in Nat \ {0} /\ y \in Nat /\ end_of(a, k) = g + c + y
        /\ c <= full /\ y = a.required_parity[c]
    BY <1>5, Extent DEF Sound, LaidOut
  <1>7. 0 < r
    BY <1>1, <1>4 DEF Sound, LaidOut
  <1>8. SUFFICES ASSUME finalizable(p) PROVE FALSE
    OBVIOUS
  <1>9. need # NoPlan /\ x >= need /\ s - n <= x
    <2>1. /\ required_object_parity(p) # NoPlan
          /\ Len(p.parity_shards) >= required_object_parity(p)
          /\ Cardinality({i \in DOMAIN p.data_shards : p.data_shards[i] = Erased}) <= Len(p.parity_shards)
      BY <1>8 DEF finalizable
    <2>2. Cardinality({i \in DOMAIN p.data_shards : p.data_shards[i] = Erased}) = s - n
      BY <1>2, GapsPending
    <2> QED  BY <2>1, <2>2 DEF required_object_parity, parities, shards
  <1>10. y # NoPlan /\ need \in Nat
    <2>1. s \in 0 .. full
      BY <1>1
    <2>2. need \in Nat \cup {NoPlan}
      <3> HIDE DEF s
      <3> QED  BY <2>1 DEF Sound, RequiredParity
    <2> QED  BY <1>6, <1>9, <2>2 DEF NoPlan
  <1>11. c <= s => y <= need
    <2>1. s \in 0 .. full /\ c \in 0 .. full
      BY <1>1, <1>6
    <2>2. y = a.required_parity[c] /\ need = a.required_parity[s] /\ a.required_parity[c] # NoPlan
          /\ a.required_parity[s] # NoPlan
      BY <1>6, <1>9, <1>10
    <2> HIDE DEF s, c, y, need, full
    <2>3. c <= s /\ a.required_parity[c] # NoPlan /\ a.required_parity[s] # NoPlan
            => a.required_parity[c] <= a.required_parity[s]
      BY <2>1 DEF Sound, RequiredParity, full
    <2> QED  BY <2>2, <2>3
  <1>12. CASE k = t
    <2>1. g = f /\ c = d /\ y = r
      BY <1>12
    <2> HIDE DEF f, d, r, s, x, g, c, y, need, full
    <2> QED  BY <1>1, <1>2, <1>3, <1>6, <1>9, <1>10, <1>11, <2>1
  <1>13. CASE k # t
    <2>1. end_of(a, t) <= g
      BY <1>1, <1>3, <1>5, <1>13, SMTT(40) DEF Sound, LaidOut
    <2>2. c + 2 <= s /\ c + 2 <= s - n /\ x <= y
      <3>1. f + d + r <= g /\ g + c <= f + s /\ f + s + x <= g + c + y
        BY <1>1, <1>2, <1>3, <1>6, <2>1
      <3> HIDE DEF f, d, r, s, x, g, c, y, need, full
      <3> QED  BY <1>1, <1>2, <1>6, <1>7, <3>1
    <2>3. y = need
      <3> HIDE DEF f, d, r, s, x, g, c, y, need, full
      <3> QED  BY <1>1, <1>6, <1>9, <1>10, <1>11, <2>2
    <2>4. need < c + 2
      <3>1. s \in 0 .. full /\ c \in 0 .. full
        BY <1>1, <1>6
      <3>2. a.required_parity[c] = a.required_parity[s] /\ a.required_parity[s] # NoPlan
        BY <1>6, <1>9, <2>3
      <3>3. need = a.required_parity[s]
        OBVIOUS
      <3> HIDE DEF s, c, need, full
      <3>4. a.required_parity[s] < c + 2
        BY <1>4, <2>2, <3>1, <3>2 DEF Sound, RequiredParity, full
      <3> QED  BY <3>3, <3>4
    <2> HIDE DEF f, d, r, s, x, g, c, y, need, full
    <2> QED  BY <1>1, <1>6, <1>9, <1>10, <2>2, <2>3, <2>4
  <1> QED  BY <1>12, <1>13

\* What is missing of a closed envelope.
LEMMA ClosedMissing ==
    ASSUME NEW a, Sound(a), NEW p, NEW t, NEW E, NEW o, NEW n, Closed(a, p, t, E, o, n)
    PROVE  Missing(a, E, t) = obj(a, t).first + n .. obj(a, t).first + obj(a, t).data - 1
  <1> DEFINE f == obj(a, t).first
             d == obj(a, t).data
             r == obj(a, t).parity
             e == end_of(a, t)
  <1>1. f \in Nat /\ d \in Nat \ {0} /\ r \in Nat /\ e = f + d + r /\ n \in Nat
    BY GatheredType DEF Closed
  <1>2. {b \in E : b >= f} = (f + n) .. (f + d) - 1
    BY DEF Closed, Gathered
  <1>3. Missing(a, E, t) = E \cap (f .. e - 1)
    BY DEF Missing
  <1> HIDE DEF f, d, r, e
  <1>4. (f + n) .. (f + d) - 1 = f + n .. f + d - 1
    BY <1>1
  <1>5. E \cap (f .. e - 1) = (f + n) .. (f + d) - 1
    <2>1. \A b \in (f + n) .. (f + d) - 1 : b \in E /\ b \in f .. e - 1
      BY <1>1, <1>2
    <2>2. \A b \in E \cap (f .. e - 1) : b \in (f + n) .. (f + d) - 1
      BY <1>1, <1>2
    <2> QED  BY <2>1, <2>2
  <1> QED  BY <1>3, <1>4, <1>5 DEF f, d

\* The shards of a closed envelope that has enough of them are its own, and no
\* other's.
LEMMA ClosedContent ==
    ASSUME Sound(archive), NEW p, NEW t, NEW E, NEW o, NEW n, Closed(archive, p, t, E, o, n),
           shards(p) - n <= parities(p)
    PROVE  content(p) = t
  <1> DEFINE a == archive
             f(k) == obj(a, k).first
             d(k) == obj(a, k).data
  <1>1. /\ p \in Pendings /\ t \in 1 .. count(a) /\ t \in Nat \ {0}
        /\ payloads(a) \in Nat /\ count(a) \in Nat /\ payloads(a) < count(a)
        /\ f(t) \in Nat /\ d(t) \in Nat \ {0}
        /\ n \in Nat /\ n <= shards(p) /\ shards(p) \in Nat \ {0} /\ parities(p) \in Nat
    BY GatheredType DEF Closed
  <1>2. /\ Gathered(a, p, t, E, n) /\ t <= payloads(a) /\ shards(p) = d(t)
        /\ \A i \in 1 .. parities(p) : p.parity_shards[i] = f(t) + d(t) + (i - 1)
    BY DEF Closed
  <1>3. /\ \A i \in 1 .. n : p.data_shards[i] = f(t) + (i - 1)
        /\ \A i \in n + 1 .. shards(p) : p.data_shards[i] = Erased
    BY <1>2 DEF Gathered
  <1>4. /\ DOMAIN archive.envelopes = 1 .. payloads(a)
        /\ \A k \in 1 .. payloads(a) : archive.envelopes[k] = obj(a, k)
    BY Named DEF Sound
  <1>5. DOMAIN p.parity_shards = 1 .. parities(p)
    BY <1>1, PendingType
  <1>6. \A k \in 1 .. payloads(a) :
           are_shards_of(p, k) <=>
              /\ shards(p) = d(k)
              /\ \A i \in 1 .. d(k) : p.data_shards[i] \in {Erased, f(k) + i - 1}
              /\ \/ \A i \in 1 .. d(k) : p.data_shards[i] # Erased
                 \/ \A i \in 1 .. parities(p) : p.parity_shards[i] = f(k) + d(k) + i - 1
    BY <1>4, <1>5, Zenon DEF are_shards_of, shards
  <1>7. \A k \in 1 .. payloads(a) : f(k) \in Nat /\ d(k) \in Nat \ {0} /\ k \in 1 .. count(a)
    BY <1>1, Extent DEF Sound
  <1>8. t \in 1 .. payloads(a)
    BY <1>1, <1>2
  <1> HIDE DEF f, d, a
  <1>9. are_shards_of(p, t)
    <2>1. \A i \in 1 .. d(t) : p.data_shards[i] \in {Erased, f(t) + i - 1}
      <3> TAKE i \in 1 .. d(t)
      <3>1. i \in 1 .. n \/ i \in n + 1 .. shards(p)
        BY <1>1, <1>2
      <3> QED  BY <1>1, <1>3, <3>1
    <2>2. \A i \in 1 .. parities(p) : p.parity_shards[i] = f(t) + d(t) + i - 1
      BY <1>1, <1>2
    <2> QED  BY <1>2, <1>6, <1>8, <2>1, <2>2
  <1>10. ASSUME NEW k \in 1 .. payloads(a), are_shards_of(p, k) PROVE k = t
    <2>1. f(k) \in Nat /\ d(k) \in Nat \ {0} /\ k \in 1 .. count(a) /\ shards(p) = d(k)
      BY <1>6, <1>7, <1>10
    <2>2. f(k) = f(t)
      <3>1. CASE n > 0
        <4>1. 1 \in 1 .. n /\ 1 \in 1 .. d(k)
          BY <1>1, <2>1, <3>1
        <4>2. p.data_shards[1] = f(t) + (1 - 1) /\ p.data_shards[1] \in {Erased, f(k) + 1 - 1}
          BY <1>3, <1>6, <1>10, <4>1
        <4> QED  BY <1>1, <2>1, <4>2 DEF Erased
      <3>2. CASE ~(n > 0)
        <4>1. 1 \in n + 1 .. shards(p) /\ 1 \in 1 .. d(k) /\ 1 \in 1 .. parities(p)
          BY <1>1, <2>1, <3>2
        <4>2. p.data_shards[1] = Erased
          BY <1>3, <4>1
        <4>3. p.parity_shards[1] = f(k) + d(k) + 1 - 1
          BY <1>6, <1>10, <4>1, <4>2
        <4>4. p.parity_shards[1] = f(t) + d(t) + (1 - 1)
          BY <1>2, <4>1
        <4> QED  BY <1>1, <1>2, <2>1, <4>3, <4>4
      <3> QED  BY <3>1, <3>2
    <2>3. InObject(a, k, f(k)) /\ InObject(a, t, f(k)) /\ f(k) \in Int
      <3>1. f(k) < end_of(a, k) /\ f(t) < end_of(a, t)
        BY <1>1, <2>1, Extent DEF Sound, a, f, d
      <3> QED  BY <2>1, <2>2, <3>1 DEF InObject, f
    <2>4. LaidOut(a)
      BY DEF Sound, a
    <2> QED  BY <1>1, <2>1, <2>3, <2>4, OneObject
  <1>11. (CHOOSE k \in DOMAIN archive.envelopes : are_shards_of(p, k)) = t
    BY <1>4, <1>8, <1>9, <1>10 DEF a
  <1> QED  BY <1>4, <1>8, <1>9, <1>11 DEF content, a

\* A closed envelope that is finalizable is complete and decoded well.
LEMMA ClosedIsGood ==
    ASSUME Sound(archive), NEW p, NEW t, NEW E, NEW o, NEW n, Closed(archive, p, t, E, o, n),
           finalizable(p)
    PROVE  /\ content(p) = t /\ o = end_of(archive, t)
           /\ Harmless(archive, E, t)
           /\ summary(p) = [first |-> obj(archive, t).first, data |-> obj(archive, t).data,
                            parity |-> obj(archive, t).parity, content |-> t]
  <1> DEFINE a == archive
             f == obj(a, t).first
             d == obj(a, t).data
             r == obj(a, t).parity
             x == parities(p)
  <1>1. /\ p \in Pendings /\ t \in 1 .. count(a) /\ p.first_block_index = f
        /\ f \in Nat /\ d \in Nat \ {0} /\ r \in Nat /\ end_of(a, t) = f + d + r
        /\ n \in Nat /\ n <= shards(p) /\ shards(p) \in Nat \ {0} /\ x \in Nat
    BY GatheredType DEF Closed
  <1>2. /\ Gathered(a, p, t, E, n) /\ shards(p) = d /\ x <= r /\ o = f + d + x
    BY DEF Closed
  <1>3. r = a.required_parity[d]
    BY <1>1 DEF Sound, LaidOut
  <1>4. x >= r /\ shards(p) - n <= x
    <2>1. /\ Len(p.parity_shards) >= required_object_parity(p)
          /\ Cardinality({i \in DOMAIN p.data_shards : p.data_shards[i] = Erased}) <= Len(p.parity_shards)
      BY DEF finalizable
    <2>2. Cardinality({i \in DOMAIN p.data_shards : p.data_shards[i] = Erased}) = shards(p) - n
      BY <1>2, GapsPending
    <2>3. required_object_parity(p) = r
      BY <1>2, <1>3 DEF required_object_parity, shards
    <2> QED  BY <2>1, <2>2, <2>3 DEF parities
  <1>5. x = r
    <2> HIDE DEF x, r
    <2> QED  BY <1>1, <1>2, <1>4
  <1>6. content(p) = t
    BY <1>4, ClosedContent
  <1>7. o = end_of(a, t)
    BY <1>1, <1>2, <1>5
  <1>8. Harmless(a, E, t)
    <2>1. Missing(a, E, t) = f + n .. f + d - 1
      BY ClosedMissing
    <2>2. n <= d /\ d - n <= r
      BY <1>1, <1>2, <1>4, <1>5
    <2>3. n = 0 => t = 1
      BY <1>2 DEF Gathered
    <2>4. LaidOut(a)
      BY DEF Sound
    <2> QED  BY <1>1, <2>1, <2>2, <2>3, <2>4, GapAtTheEnd
  <1>9. summary(p) = [first |-> f, data |-> d, parity |-> r, content |-> t]
    BY <1>1, <1>2, <1>5, <1>6 DEF summary, shards, parities
  <1> QED  BY <1>6, <1>7, <1>8, <1>9

\* A complete envelope that is not finalizable has lost too much.
LEMMA ClosedIsBad ==
    ASSUME Sound(archive), NEW p, NEW t, NEW E, NEW o, NEW n, Closed(archive, p, t, E, o, n),
           ~finalizable(p), o = end_of(archive, t),
           NEW F, Missing(archive, F, t) = Missing(archive, E, t)
    PROVE  ~Harmless(archive, F, t)
  <1> DEFINE a == archive
             f == obj(a, t).first
             d == obj(a, t).data
             r == obj(a, t).parity
             x == parities(p)
  <1>1. /\ p \in Pendings /\ t \in 1 .. count(a)
        /\ f \in Nat /\ d \in Nat \ {0} /\ r \in Nat /\ end_of(a, t) = f + d + r
        /\ n \in Nat /\ n <= shards(p) /\ shards(p) \in Nat \ {0} /\ x \in Nat
    BY GatheredType DEF Closed
  <1>2. /\ Gathered(a, p, t, E, n) /\ shards(p) = d /\ x <= r /\ o = f + d + x /\ p.saw_last_data
    BY DEF Closed
  <1>3. /\ r = a.required_parity[d] /\ d <= a.options.fec_data_shards
        /\ r <= a.options.fec_parity_shards /\ r # NoPlan
    BY <1>1 DEF Sound, LaidOut, NoPlan
  <1>4. x = r
    BY <1>1, <1>2
  <1>5. ~(shards(p) - n <= x)
    <2>1. Cardinality({i \in DOMAIN p.data_shards : p.data_shards[i] = Erased}) = shards(p) - n
      BY <1>2, GapsPending
    <2>2. required_object_parity(p) = r
      BY <1>2, <1>3 DEF required_object_parity, shards
    <2>3. r >= r
      BY <1>1
    <2> QED  BY <1>2, <1>3, <1>4, <2>1, <2>2, <2>3 DEF finalizable, shards, parities
  <1>6. n < d /\ d - n > r
    BY <1>1, <1>2, <1>4, <1>5
  <1>7. Missing(a, F, t) = f + n .. f + d - 1
    BY ClosedMissing
  <1>8. LaidOut(a)
    BY DEF Sound
  <1> QED  BY <1>1, <1>6, <1>7, <1>8, GapTooLong

\* What a gap that went too far destroyed.
LEMMA GapTooFar ==
    ASSUME NEW a, Sound(a), NEW p, NEW t, NEW E, NEW n, NEW F, Gathered(a, p, t, E, n),
           n < obj(a, t).data, guaranteed(a), E \subseteq F,
           \/ obj(a, t).data < shards(p)
           \/ obj(a, t).data = shards(p) /\ obj(a, t).first + obj(a, t).data \in F
    PROVE  IF t <= payloads(a) THEN ~Harmless(a, F, t)
           ELSE payloads(a) = 0 /\ 0 \in F
  <1> DEFINE f == obj(a, t).first
             d == obj(a, t).data
             r == obj(a, t).parity
             s == shards(p)
  <1>1. /\ t \in 1 .. count(a) /\ t \in Nat \ {0} /\ payloads(a) \in Nat /\ t <= payloads(a) + 1
        /\ f \in Nat /\ d \in Nat \ {0} /\ r \in Nat /\ end_of(a, t) = f + d + r
        /\ n \in Nat /\ n <= s /\ s \in Nat \ {0}
    BY GatheredType
  <1>2. {b \in E : b >= f} = (f + n) .. (f + s) - 1
    BY DEF Gathered
  <1>3. 0 < r
    BY <1>1 DEF Sound, LaidOut
  <1>4. n < d /\ (d < s \/ f + d \in F)
    OBVIOUS
  <1>5. f + d \in F
    <2> HIDE DEF f, d, s
    <2>1. d < s => f + d \in (f + n) .. (f + s) - 1
      BY <1>1, <1>4
    <2> QED  BY <1>2, <1>4, <2>1
  <1>6. CASE t <= payloads(a)
    <2>1. LaidOut(a) /\ f + d \in Int /\ f + d <= f + d /\ f + d < end_of(a, t)
      BY <1>1, <1>3 DEF Sound
    <2>2. ~Harmless(a, F, t)
      BY <1>1, <1>5, <2>1, ParityLost
    <2> QED  BY <1>6, <2>2
  <1>7. CASE ~(t <= payloads(a))
    <2>1. n = 0 /\ t = 1
      BY <1>7 DEF Gathered
    <2>2. payloads(a) = 0
      BY <1>1, <1>7, <2>1
    <2>3. f = 0
      BY <2>1 DEF Sound, LaidOut
    <2>4. 0 \in (f + n) .. (f + s) - 1
      <3> HIDE DEF f, s
      <3> QED  BY <1>1, <2>1, <2>3
    <2> QED  BY <1>2, <1>7, <2>2, <2>4
  <1> QED  BY <1>6, <1>7
-----------------------------------------------------------------------------
(***************************************************************************)
(* The reader's state                                                      *)
(***************************************************************************)

Decodeds == [first : Nat, data : Nat, parity : Nat, content : Nat]

\* What is decoded is the beginning of what was written, and the damage to it was
\* repaired.
DecodedWell(a, s, E) ==
    /\ s \in Seq(Decodeds) /\ Len(s) <= payloads(a)
    /\ \A k \in 1 .. Len(s) :
          /\ s[k] = [first |-> obj(a, k).first, data |-> obj(a, k).data,
                     parity |-> obj(a, k).parity, content |-> k]
          /\ Harmless(a, E, k)

\* The metadata that arrived is kept, within the cap.
Kept(a, live, t, E, o, M) ==
    LET first == obj(a, t).first
    IN  /\ t = payloads(a) + 1 /\ first <= o
        /\ IF live THEN M = {b \in first .. o - 1 : b \notin E} /\ Cardinality(M) <= RetainedCap
           ELSE M = {} /\ \A b \in E : b < first
        /\ payloads(a) = 0 => 0 \notin E

\* The lost first block of an envelope was taken for metadata.
Misled(a, live, t, E) ==
    live /\ t \in 2 .. payloads(a) /\ obj(a, t).first \in E

InMetadata(a, live, p, t, E, o, M) ==
    /\ p = NoEnvelope /\ obj(a, t).first < o
    /\ Kept(a, live, t, E, o, M) \/ Misled(a, live, t, E)

Progress(a, live, p, t, E, o, seen, M) ==
    IF seen THEN InMetadata(a, live, p, t, E, o, M)
    ELSE M = {} /\ Gathering(a, p, t, E, o)

\* No reader can go on with what is lost.
Hopeless(a, live, E) ==
    \/ \E k \in 1 .. payloads(a) : ~Harmless(a, E, k)
    \/ \E k \in payloads(a) + 1 .. count(a) : ~Loadable(a, live, E, k)
    \/ live /\ ~(Cardinality(Received(a, E)) <= RetainedCap)

\* Then the damage is not tolerable.
LEMMA HopelessNext ==
    ASSUME LaidOut(archive), archive' = archive, reader' = reader,
           Hopeless(archive, reader = "live", erased')
    PROVE  ~Tolerable'
  <1> SUFFICES ASSUME Tolerable' PROVE FALSE
    OBVIOUS
  <1>1. /\ \A k \in 1 .. payloads(archive) : Harmless(archive, erased', k)
        /\ \A k \in payloads(archive) + 1 .. count(archive) :
                 Loadable(archive, reader = "live", erased', k)
        /\ reader = "live" => Cardinality(Received(archive, erased')) <= RetainedCap
    BY TolerableNext
  <1> QED  BY <1>1, Zenon DEF Hopeless

\* The type of what is decoded.
LEMMA DecodedType ==
    ASSUME NEW a, LaidOut(a), NEW s, NEW E, DecodedWell(a, s, E)
    PROVE  /\ s \in Seq(Decodeds) /\ Len(s) \in Nat /\ DOMAIN s = 1 .. Len(s)
           /\ Len(s) + 1 \in 1 .. count(a) /\ Len(s) <= payloads(a)
           /\ payloads(a) \in Nat /\ count(a) \in Nat /\ payloads(a) < count(a)
  <1>1. s \in Seq(Decodeds) /\ Len(s) <= payloads(a)
    BY DEF DecodedWell
  <1>2. Len(s) \in Nat /\ DOMAIN s = 1 .. Len(s)
    BY <1>1, LenProperties
  <1>3. payloads(a) \in Nat /\ count(a) \in Nat /\ payloads(a) < count(a)
    BY Extent
  <1> QED  BY <1>1, <1>2, <1>3

\* A block lost at or after the start of the envelope pending damages none of the
\* envelopes decoded.
LEMMA DecodedKept ==
    ASSUME NEW a, LaidOut(a), NEW s, NEW E, DecodedWell(a, s, E),
           NEW o \in Int, obj(a, Len(s) + 1).first <= o
    PROVE  DecodedWell(a, s, E \cup {o})
  <1> DEFINE l == Len(s)
  <1>1. l \in Nat /\ l + 1 \in 1 .. count(a) /\ count(a) \in Nat
    BY DecodedType
  <1>2. ASSUME NEW k \in 1 .. l PROVE Harmless(a, E \cup {o}, k)
    <2>1. k \in 1 .. count(a) /\ k < l + 1
      BY <1>1
    <2>2. end_of(a, k) <= obj(a, l + 1).first
      BY <1>1, <2>1 DEF LaidOut
    <2>3. end_of(a, k) \in Int /\ obj(a, l + 1).first \in Int
      BY <1>1, <2>1, Extent, SMTT(40)
    <2>4. o \notin obj(a, k).first .. end_of(a, k) - 1
      BY <2>2, <2>3
    <2>5. Missing(a, E, k) = Missing(a, E \cup {o}, k)
      BY <2>4 DEF Missing
    <2>6. Harmless(a, E, k)
      BY DEF DecodedWell
    <2> QED  BY <2>5, <2>6, HarmlessKept
  <1> QED  BY <1>2 DEF DecodedWell

\* One more envelope is decoded.
LEMMA OneMoreDecoded ==
    ASSUME NEW a, LaidOut(a), NEW s, NEW E, DecodedWell(a, s, E),
           NEW t, t = Len(s) + 1, t <= payloads(a), Harmless(a, E, t),
           NEW e, e = [first |-> obj(a, t).first, data |-> obj(a, t).data,
                       parity |-> obj(a, t).parity, content |-> t]
    PROVE  /\ DecodedWell(a, Append(s, e), E) /\ Len(Append(s, e)) + 1 = t + 1
           /\ t + 1 \in 1 .. count(a) /\ obj(a, t + 1).first = end_of(a, t)
  <1>1. /\ s \in Seq(Decodeds) /\ Len(s) \in Nat /\ t \in 1 .. count(a) /\ t \in Nat
        /\ payloads(a) \in Nat /\ count(a) \in Nat /\ payloads(a) < count(a)
    BY DecodedType
  <1>2. e \in Decodeds
    <2>1. obj(a, t).first \in Nat /\ obj(a, t).data \in Nat /\ obj(a, t).parity \in Nat
      BY <1>1, Extent
    <2> QED  BY <1>1, <2>1 DEF Decodeds
  <1>3. /\ Append(s, e) \in Seq(Decodeds) /\ Len(Append(s, e)) = t
        /\ \A k \in 1 .. Len(s) : Append(s, e)[k] = s[k]
        /\ Append(s, e)[t] = e
    BY <1>1, <1>2, AppendProperties
  <1>4. ASSUME NEW k \in 1 .. t
        PROVE  /\ Append(s, e)[k] = [first |-> obj(a, k).first, data |-> obj(a, k).data,
                                     parity |-> obj(a, k).parity, content |-> k]
               /\ Harmless(a, E, k)
    <2>1. CASE k = t
      BY <1>3, <2>1
    <2>2. CASE k # t
      <3>1. k \in 1 .. Len(s)
        BY <1>1, <2>2
      <3> QED  BY <1>3, <3>1, Zenon DEF DecodedWell
    <2> QED  BY <2>1, <2>2
  <1>5. DecodedWell(a, Append(s, e), E)
    BY <1>3, <1>4, Zenon DEF DecodedWell
  <1>6. t + 1 \in 1 .. count(a) /\ t \in 1 .. count(a) - 1
    BY <1>1
  <1>7. obj(a, t + 1).first = end_of(a, t)
    BY <1>6 DEF LaidOut
  <1> QED  BY <1>3, <1>5, <1>6, <1>7

\* Where the reader is while it gathers an envelope.
LEMMA Behind ==
    ASSUME NEW a, Sound(a), NEW p, NEW t, NEW E, NEW o, Gathering(a, p, t, E, o)
    PROVE  /\ t \in 1 .. count(a) /\ t \in Nat \ {0} /\ t <= payloads(a) + 1
           /\ payloads(a) \in Nat /\ count(a) \in Nat /\ payloads(a) < count(a)
           /\ obj(a, t).first \in Nat /\ o \in Nat /\ obj(a, t).first <= o
  <1>1. payloads(a) \in Nat /\ count(a) \in Nat /\ payloads(a) < count(a)
    BY Extent DEF Sound
  <1>2. CASE Nothing(p, t, E, o)
    <2>1. t = 1 /\ o = 0
      BY <1>2 DEF Nothing
    <2>2. obj(a, 1).first = 0
      BY DEF Sound, LaidOut
    <2> QED  BY <1>1, <2>1, <2>2
  <1>3. ASSUME NEW n \in 0 .. shards(p),
               Reading(a, p, t, E, o, n) \/ Closed(a, p, t, E, o, n) \/ Doomed(a, p, t, E, o, n)
        PROVE  /\ t \in 1 .. count(a) /\ t \in Nat \ {0} /\ t <= payloads(a) + 1
               /\ obj(a, t).first \in Nat /\ o \in Nat /\ obj(a, t).first <= o
    <2>1. Gathered(a, p, t, E, n)
      BY <1>3 DEF Reading, Closed, Doomed
    <2>2. /\ t \in 1 .. count(a) /\ t \in Nat \ {0} /\ t <= payloads(a) + 1
          /\ obj(a, t).first \in Nat /\ obj(a, t).data \in Nat
          /\ shards(p) \in Nat /\ parities(p) \in Nat
      BY <2>1, GatheredType
    <2>3. \/ o = obj(a, t).first + shards(p)
          \/ o = obj(a, t).first + obj(a, t).data + parities(p)
          \/ o = obj(a, t).first + shards(p) + parities(p)
      BY <1>3 DEF Reading, Closed, Doomed
    <2>4. o \in Nat /\ obj(a, t).first <= o
      BY <2>2, <2>3
    <2> QED  BY <2>2, <2>4
  <1> QED  BY <1>1, <1>2, <1>3 DEF Gathering

\* The next block is of this envelope or of a later object.
LEMMA NotBehind ==
    ASSUME NEW a, LaidOut(a), NEW t \in 1 .. count(a), NEW o \in Nat, obj(a, t).first <= o,
           NEW k \in 1 .. count(a), InObject(a, k, o)
    PROVE  t <= k
  <1>1. count(a) \in Nat /\ obj(a, t).first \in Nat /\ end_of(a, k) \in Nat
    BY Extent
  <1>2. k < t => end_of(a, k) <= obj(a, t).first
    BY DEF LaidOut
  <1>3. o < end_of(a, k)
    BY DEF InObject
  <1> QED  BY <1>1, <1>2, <1>3

\* The block after a closed envelope's last.
LEMMA AfterClosed ==
    ASSUME NEW a, Sound(a), NEW p, NEW t, NEW E, NEW o, NEW n, Closed(a, p, t, E, o, n),
           NEW k \in 1 .. count(a), InObject(a, k, o)
    PROVE  \/ o < end_of(a, t) /\ k = t /\ IsParity(a, t, o)
           \/ o = end_of(a, t) /\ k = t + 1 /\ obj(a, k).first = o
  <1>1. Gathered(a, p, t, E, n)
    BY DEF Closed
  <1>2. /\ t \in 1 .. count(a) /\ t \in Nat /\ payloads(a) \in Nat /\ count(a) \in Nat
        /\ payloads(a) < count(a) /\ obj(a, t).first \in Nat /\ obj(a, t).data \in Nat \ {0}
        /\ obj(a, t).parity \in Nat /\ parities(p) \in Nat
        /\ end_of(a, t) = obj(a, t).first + obj(a, t).data + obj(a, t).parity
    BY <1>1, GatheredType
  <1>3. /\ t <= payloads(a) /\ parities(p) <= obj(a, t).parity
        /\ o = obj(a, t).first + obj(a, t).data + parities(p)
    BY DEF Closed
  <1>4. LaidOut(a)
    BY DEF Sound
  <1>5. /\ o \in Nat /\ o <= end_of(a, t) /\ obj(a, t).first <= o
        /\ obj(a, t).first + obj(a, t).data <= o
    BY <1>2, <1>3
  <1>6. CASE o < end_of(a, t)
    <2>1. InObject(a, t, o)
      BY <1>5, <1>6 DEF InObject
    <2>2. k = t
      BY <1>2, <1>4, <1>5, <2>1, OneObject
    <2> QED  BY <1>5, <1>6, <2>2 DEF IsParity
  <1>7. CASE o = end_of(a, t)
    <2>1. t \in 1 .. count(a) - 1 /\ t + 1 \in 1 .. count(a)
      BY <1>2, <1>3
    <2>2. obj(a, t + 1).first = o
      BY <1>4, <1>7, <2>1 DEF LaidOut
    <2>3. InObject(a, t + 1, o)
      <3>1. /\ obj(a, t + 1).first \in Nat /\ obj(a, t + 1).data \in Nat \ {0}
            /\ obj(a, t + 1).parity \in Nat
            /\ end_of(a, t + 1) = obj(a, t + 1).first + obj(a, t + 1).data + obj(a, t + 1).parity
        BY <1>4, <2>1, Extent
      <3> QED  BY <2>2, <3>1 DEF InObject
    <2>4. k = t + 1
      BY <1>4, <1>5, <2>1, <2>3, OneObject
    <2> QED  BY <1>7, <2>2, <2>4
  <1> QED  BY <1>2, <1>5, <1>6, <1>7

\* What a block that is neither lost nor parity tells after a gap.
LEMMA AfterGap ==
    ASSUME NEW a, Sound(a), NEW p, NEW t, NEW E, NEW o, NEW n, Reading(a, p, t, E, o, n),
           n < shards(p), NEW k \in 1 .. count(a), InObject(a, k, o), o \notin E, NEW live,
           k <= payloads(a) => o < obj(a, k).first + obj(a, k).data
    PROVE  Hopeless(a, live, E)
  <1> DEFINE f == obj(a, t).first
             d == obj(a, t).data
  <1>1. Gathered(a, p, t, E, n) /\ n < d /\ o = f + shards(p)
    BY DEF Reading
  <1>2. /\ t \in 1 .. count(a) /\ t \in Nat \ {0} /\ t <= payloads(a) + 1
        /\ payloads(a) \in Nat /\ count(a) \in Nat /\ payloads(a) < count(a)
        /\ f \in Nat /\ d \in Nat \ {0} /\ obj(a, t).parity \in Nat
        /\ end_of(a, t) = f + d + obj(a, t).parity
        /\ shards(p) \in Nat \ {0} /\ n \in Nat
    BY <1>1, GatheredType
  <1>3. LaidOut(a) /\ guaranteed(a)
    BY <1>1 DEF Sound, Gathered
  <1>4. {b \in E : b >= f} = (f + n) .. (f + shards(p)) - 1
    BY <1>1 DEF Gathered
  <1>5. f + n \in E
    <2>1. f + n \in (f + n) .. (f + shards(p)) - 1
      <3> HIDE DEF f
      <3> QED  BY <1>2
    <2> QED  BY <1>4, <2>1
  <1>6. IF n = 0 THEN t = 1 ELSE t <= payloads(a)
    BY <1>1 DEF Gathered
  <1>7. CASE k = t /\ t <= payloads(a)
    <2>1. f <= f + n /\ f + n < o /\ o < f + d /\ f + n \in Int /\ o \in Int
      <3>1. o < f + d
        BY <1>7
      <3> HIDE DEF f, d
      <3> QED  BY <1>1, <1>2, <3>1
    <2>2. ~Harmless(a, E, t)
      BY <1>2, <1>3, <1>5, <2>1, GapInside
    <2>3. t \in 1 .. payloads(a)
      BY <1>2, <1>7
    <2> QED  BY <2>2, <2>3 DEF Hopeless
  <1>8. CASE ~(t <= payloads(a))
    <2>1. n = 0 /\ t = 1
      BY <1>6, <1>8
    <2>2. payloads(a) = 0
      BY <1>2, <1>8, <2>1
    <2>3. f = 0
      BY <1>3, <2>1 DEF LaidOut
    <2>4. 0 \in E
      BY <1>5, <2>1, <2>3
    <2>5. ~Loadable(a, live, E, 1) /\ 1 \in payloads(a) + 1 .. count(a)
      BY <1>3, <2>2, <2>4, FirstBlockLost
    <2> QED  BY <2>5 DEF Hopeless
  <1>9. CASE k # t /\ t <= payloads(a)
    <2>1. ~(o < end_of(a, t))
      <3>1. o \in Int /\ f <= o
        BY <1>1, <1>2
      <3> QED  BY <1>2, <1>3, <1>9, <3>1, OneObject DEF InObject
    <2>2. 0 < obj(a, t).parity
      BY <1>2, <1>3 DEF LaidOut
    <2>3. d < shards(p)
      <3> HIDE DEF f, d
      <3> QED  BY <1>1, <1>2, <2>1, <2>2
    <2>4. ~Harmless(a, E, t)
      BY <1>1, <1>3, <1>9, <2>3, GapTooFar
    <2>5. t \in 1 .. payloads(a)
      BY <1>2, <1>9
    <2> QED  BY <2>4, <2>5 DEF Hopeless
  <1> QED  BY <1>7, <1>8, <1>9

\* A doomed envelope has lost a part of its parity.
LEMMA DoomedIsHopeless ==
    ASSUME NEW a, Sound(a), NEW p, NEW t, NEW E, NEW o, NEW n, Doomed(a, p, t, E, o, n),
           NEW F, E \subseteq F, NEW live
    PROVE  Hopeless(a, live, F)
  <1>1. /\ Gathered(a, p, t, E, n) /\ n < obj(a, t).data /\ t <= payloads(a)
        /\ obj(a, t).data < shards(p)
    BY DEF Doomed
  <1>2. /\ t \in Nat \ {0} /\ payloads(a) \in Nat /\ n \in Nat /\ obj(a, t).data \in Nat
        /\ shards(p) \in Nat
    BY <1>1, GatheredType
  <1>3. n < shards(p) /\ t \in 1 .. payloads(a)
    BY <1>1, <1>2
  <1>4. guaranteed(a)
    BY <1>1, <1>3 DEF Gathered
  <1>5. ~Harmless(a, F, t)
    BY <1>1, <1>4, GapTooFar
  <1> QED  BY <1>3, <1>5 DEF Hopeless

\* An envelope that opens is closed, complete and decoded well.
LEMMA OpensClosed ==
    ASSUME Sound(archive), NEW t, NEW E, NEW o, Gathering(archive, pending, t, E, o),
           opens(pending)
    PROVE  /\ t \in 1 .. payloads(archive) /\ o = end_of(archive, t)
           /\ Harmless(archive, E, t)
           /\ summary(pending) = [first |-> obj(archive, t).first, data |-> obj(archive, t).data,
                                  parity |-> obj(archive, t).parity, content |-> t]
           /\ \E n \in 0 .. shards(pending) : Closed(archive, pending, t, E, o, n)
  <1>1. finalizable(pending) /\ pending.saw_last_data
    BY DEF opens, finalizable
  <1>2. ~Nothing(pending, t, E, o)
    BY <1>1, EmptyPending DEF Nothing
  <1>3. PICK n \in 0 .. shards(pending) :
          \/ Reading(archive, pending, t, E, o, n) \/ Closed(archive, pending, t, E, o, n)
          \/ Doomed(archive, pending, t, E, o, n)
    BY <1>2 DEF Gathering
  <1>4. Closed(archive, pending, t, E, o, n)
    <2>1. ~Reading(archive, pending, t, E, o, n)
      BY <1>1 DEF Reading
    <2>2. ~Doomed(archive, pending, t, E, o, n)
      BY <1>1, DoomedIsNoticed
    <2> QED  BY <1>3, <2>1, <2>2
  <1>5. /\ o = end_of(archive, t) /\ Harmless(archive, E, t)
        /\ summary(pending) = [first |-> obj(archive, t).first, data |-> obj(archive, t).data,
                               parity |-> obj(archive, t).parity, content |-> t]
    BY <1>1, <1>4, ClosedIsGood
  <1>6. t \in 1 .. payloads(archive)
    <2>1. t <= payloads(archive) /\ Gathered(archive, pending, t, E, n)
      BY <1>4 DEF Closed
    <2>2. t \in Nat \ {0} /\ payloads(archive) \in Nat
      BY <2>1, GatheredType
    <2> QED  BY <2>1, <2>2
  <1> QED  BY <1>4, <1>5, <1>6

\* An envelope that may not open is not finalizable.
LEMMA NotFinalizable ==
    ASSUME Sound(archive), NEW t, NEW E, NEW o, Gathering(archive, pending, t, E, o),
           t = Len(decoded) + 1, may_not_open(pending)
    PROVE  ~finalizable(pending)
  <1> SUFFICES ASSUME finalizable(pending) PROVE FALSE
    OBVIOUS
  <1>1. ~Nothing(pending, t, E, o)
    BY EmptyPending DEF Nothing, finalizable
  <1>2. PICK n \in 0 .. shards(pending) :
          \/ Reading(archive, pending, t, E, o, n) \/ Closed(archive, pending, t, E, o, n)
          \/ Doomed(archive, pending, t, E, o, n)
    BY <1>1 DEF Gathering
  <1>3. ~Reading(archive, pending, t, E, o, n)
    BY DEF Reading, finalizable
  <1>4. ~Doomed(archive, pending, t, E, o, n)
    BY DoomedIsNoticed
  <1>5. content(pending) = t
    BY <1>2, <1>3, <1>4, ClosedIsGood
  <1>6. t # 0
    BY Behind
  <1> QED  BY <1>5, <1>6 DEF may_not_open, opens, next_envelope_index, Garbage

\* Where a reader gives up on an envelope at a data or metadata block, too much of
\* it is lost.
LEMMA NotOpening ==
    ASSUME Sound(archive), NEW t, NEW E, NEW o, Gathering(archive, pending, t, E, o),
           t = Len(decoded) + 1, may_not_open(pending), pending # NoEnvelope,
           NEW k \in 1 .. count(archive), InObject(archive, k, o), o \notin E, NEW live,
           k <= payloads(archive) =>
             /\ o < obj(archive, k).first + obj(archive, k).data
             /\ pending.saw_last_data
    PROVE  Hopeless(archive, live, E)
  <1>1. ~finalizable(pending)
    BY NotFinalizable
  <1>2. PICK n \in 0 .. shards(pending) :
          \/ Reading(archive, pending, t, E, o, n) \/ Closed(archive, pending, t, E, o, n)
          \/ Doomed(archive, pending, t, E, o, n)
    BY DEF Gathering, Nothing
  <1>3. LaidOut(archive)
    BY DEF Sound
  <1>4. CASE Reading(archive, pending, t, E, o, n) /\ n < shards(pending)
    BY <1>4, AfterGap
  <1>5. CASE Reading(archive, pending, t, E, o, n) /\ ~(n < shards(pending))
    <2>1. /\ Gathered(archive, pending, t, E, n) /\ n < obj(archive, t).data
          /\ o = obj(archive, t).first + shards(pending) /\ ~pending.saw_last_data
      BY <1>5 DEF Reading
    <2>2. /\ t \in 1 .. count(archive) /\ n \in Nat /\ n <= shards(pending)
          /\ shards(pending) \in Nat \ {0}
          /\ obj(archive, t).first \in Nat /\ obj(archive, t).data \in Nat
          /\ obj(archive, t).parity \in Nat
          /\ end_of(archive, t) = obj(archive, t).first + obj(archive, t).data
                                  + obj(archive, t).parity
      BY <2>1, GatheredType
    <2>3. o \in Int /\ obj(archive, t).first <= o /\ o < end_of(archive, t) /\ n # 0
      BY <1>5, <2>1, <2>2
    <2>4. k = t
      BY <1>3, <2>2, <2>3, OneObject DEF InObject
    <2>5. t <= payloads(archive)
      BY <2>1, <2>3 DEF Gathered
    <2> QED  BY <2>1, <2>4, <2>5
  <1>6. CASE Closed(archive, pending, t, E, o, n)
    <2>1. Gathered(archive, pending, t, E, n) /\ t <= payloads(archive)
      BY <1>6 DEF Closed
    <2>2. /\ t \in 1 .. count(archive) /\ t \in Nat \ {0} /\ payloads(archive) \in Nat
          /\ obj(archive, t).first \in Nat /\ obj(archive, t).data \in Nat
      BY <2>1, GatheredType
    <2>3. \/ o < end_of(archive, t) /\ k = t /\ IsParity(archive, t, o)
          \/ o = end_of(archive, t)
      BY <1>6, AfterClosed
    <2>4. o \in Nat
      BY Behind
    <2>5. o = end_of(archive, t)
      <3>1. k = t => ~IsParity(archive, t, o)
        BY <2>1, <2>2, <2>4 DEF IsParity
      <3> QED  BY <2>3, <3>1
    <2>6. ~Harmless(archive, E, t)
      BY <1>1, <1>6, <2>5, ClosedIsBad
    <2>7. t \in 1 .. payloads(archive)
      BY <2>1, <2>2
    <2> QED  BY <2>6, <2>7 DEF Hopeless
  <1>7. CASE Doomed(archive, pending, t, E, o, n)
    BY <1>7, DoomedIsHopeless
  <1> QED  BY <1>2, <1>4, <1>5, <1>6, <1>7

turn == Len(decoded) + 1
is_live == reader = "live"

\* The reader has come so far, whatever the pipe delivers next.
Expecting ==
    /\ Sound(archive) /\ reader \in {"live", "buffer"} /\ status = "records"
    /\ observed_block_count \in Nat
    /\ erased \subseteq 0 .. observed_block_count - 1
    /\ metadata_seen \in BOOLEAN
    /\ DecodedWell(archive, decoded, erased)
    /\ Progress(archive, is_live, pending, turn, erased, observed_block_count,
                metadata_seen, metadata_blocks)

\* It goes on, or it gives up for a reason.
Outcome(a, live, p, s, E, o, seen, M, st) ==
    /\ DecodedWell(a, s, E) /\ seen \in BOOLEAN
    /\ \/ st = "records" /\ Progress(a, live, p, Len(s) + 1, E, o, seen, M)
       \/ st = "failed" /\ Hopeless(a, live, E)

\* Within the caps the envelope is kept.
LEMMA KeepsPending ==
    ASSUME NEW q, within_caps(archive, q), KeepPending(q)
    PROVE  /\ pending' = q /\ metadata_seen' = metadata_seen
           /\ metadata_blocks' = metadata_blocks /\ status' = status
  BY DEF KeepPending, within_caps, shards, parities

\* The reader that took the start of an envelope for metadata has lost it.
LEMMA MisledIsHopeless ==
    ASSUME NEW a, LaidOut(a), NEW live, NEW t, NEW E, Misled(a, live, t, E), NEW F, E \subseteq F
    PROVE  Hopeless(a, live, F)
  <1>1. t \in 2 .. payloads(a) /\ obj(a, t).first \in F
    BY DEF Misled
  <1>2. payloads(a) \in Nat /\ count(a) \in Nat /\ payloads(a) < count(a)
    BY Extent
  <1>3. t \in 1 .. count(a) /\ t # 1 /\ t \in 1 .. payloads(a)
    BY <1>1, <1>2
  <1>4. ~Harmless(a, F, t)
    BY <1>1, <1>3, FirstLost
  <1> QED  BY <1>3, <1>4 DEF Hopeless

\* No payload comes after the metadata, if nothing was lost at its start.
LEMMA PayloadAfterMetadata ==
    ASSUME Expecting, metadata_seen, NEW k \in 1 .. count(archive),
           InObject(archive, k, observed_block_count), k <= payloads(archive)
    PROVE  Hopeless(archive, is_live, erased)
  <1>1. LaidOut(archive) /\ observed_block_count \in Nat
    BY DEF Expecting, Sound
  <1>2. InMetadata(archive, is_live, pending, turn, erased, observed_block_count, metadata_blocks)
    BY DEF Expecting, Progress
  <1>3. CASE Misled(archive, is_live, turn, erased)
    BY <1>1, <1>3, MisledIsHopeless
  <1>4. CASE Kept(archive, is_live, turn, erased, observed_block_count, metadata_blocks)
    <2>1. turn = payloads(archive) + 1 /\ obj(archive, turn).first <= observed_block_count
      BY <1>4 DEF Kept
    <2>2. turn \in 1 .. count(archive)
      BY DecodedType DEF Expecting, Sound, turn
    <2>3. turn <= k
      BY <1>1, <2>1, <2>2, NotBehind
    <2>4. payloads(archive) \in Nat
      BY <1>1, Extent
    <2> QED  BY <2>1, <2>3, <2>4
  <1> QED  BY <1>2, <1>3, <1>4 DEF InMetadata

\* handle_live_record at a data block of envelope k.
LEMMA DataArrives ==
    ASSUME Expecting, NEW k \in 1 .. payloads(archive), InObject(archive, k, observed_block_count),
           observed_block_count < obj(archive, k).first + obj(archive, k).data,
           NEW r, r.block_index = observed_block_count,
           r.last_data = (observed_block_count = obj(archive, k).first + obj(archive, k).data - 1),
           PayloadData(r)
    PROVE  Outcome(archive, is_live, pending', decoded', erased, observed_block_count + 1,
                   metadata_seen', metadata_blocks', status')
  <1> DEFINE o == observed_block_count
             t == turn
             last(i) == o = obj(archive, i).first + obj(archive, i).data - 1
  <1>1. /\ Sound(archive) /\ LaidOut(archive) /\ o \in Nat /\ erased \subseteq 0 .. o - 1
        /\ metadata_seen \in BOOLEAN /\ DecodedWell(archive, decoded, erased) /\ status = "records"
    BY DEF Expecting, Sound
  <1>2. o \notin erased /\ \A b \in erased : ~(b >= o)
    BY <1>1
  <1>3. payloads(archive) \in Nat /\ count(archive) \in Nat /\ payloads(archive) < count(archive)
    BY <1>1, Extent
  <1>4. k \in 1 .. count(archive) /\ k <= payloads(archive)
    BY <1>3
  <1>5. ~metadata_seen => /\ metadata_blocks = {}
                          /\ Gathering(archive, pending, t, erased, o)
    BY DEF Expecting, Progress
  <1>6. CASE (metadata_seen \/ pending.awaiting_tentative_parity) /\ Fail
    <2>1. CASE metadata_seen
      <3>1. Hopeless(archive, is_live, erased)
        BY <1>4, <2>1, PayloadAfterMetadata
      <3> QED  BY <1>1, <1>6, <3>1 DEF Fail, Outcome
    <2>2. CASE ~metadata_seen
      <3>1. pending.awaiting_tentative_parity
        BY <1>6, <2>2
      <3>2. ~Nothing(pending, t, erased, o)
        BY <3>1, EmptyPending DEF Nothing
      <3>3. PICK n \in 0 .. shards(pending) :
              \/ Reading(archive, pending, t, erased, o, n)
              \/ Closed(archive, pending, t, erased, o, n)
              \/ Doomed(archive, pending, t, erased, o, n)
        BY <1>5, <2>2, <3>2 DEF Gathering
      <3>4. Reading(archive, pending, t, erased, o, n) /\ n < shards(pending)
        BY <3>1, <3>3 DEF Reading, Closed, Doomed
      <3>5. Hopeless(archive, is_live, erased)
        BY <1>1, <1>2, <1>4, <3>4, AfterGap
      <3> QED  BY <1>1, <1>6, <3>5 DEF Fail, Outcome
    <2> QED  BY <2>1, <2>2
  <1>7. CASE /\ ~metadata_seen /\ ~pending.awaiting_tentative_parity /\ pending.saw_last_data
             /\ Finalize(KeepPending(push_data(NoEnvelope, o, o, r.last_data)))
    <2>1. metadata_blocks = {} /\ Gathering(archive, pending, t, erased, o) /\ t = Len(decoded) + 1
      BY <1>5, <1>7 DEF turn
    <2>2. CASE /\ opens(pending) /\ decoded' = Append(decoded, summary(pending))
               /\ KeepPending(push_data(NoEnvelope, o, o, r.last_data))
      <3>1. /\ t \in 1 .. payloads(archive) /\ o = end_of(archive, t)
            /\ Harmless(archive, erased, t)
            /\ summary(pending) = [first |-> obj(archive, t).first, data |-> obj(archive, t).data,
                                   parity |-> obj(archive, t).parity, content |-> t]
            /\ \E n \in 0 .. shards(pending) : Closed(archive, pending, t, erased, o, n)
        BY <1>1, <2>1, <2>2, OpensClosed
      <3>2. /\ DecodedWell(archive, decoded', erased) /\ Len(decoded') + 1 = t + 1
            /\ obj(archive, t + 1).first = o
        <4>1. t <= payloads(archive)
          BY <1>3, <3>1
        <4> QED  BY <1>1, <2>1, <2>2, <3>1, <4>1, OneMoreDecoded
      <3>3. k = t + 1
        <4>1. o \in Int /\ t \in Int
          BY <1>1, <3>1
        <4> QED  BY <1>1, <1>4, <3>1, <4>1, AfterClosed
      <3>4. /\ Gathering(archive, push_data(NoEnvelope, o, o, last(k)), k, erased, o + 1)
            /\ within_caps(archive, push_data(NoEnvelope, o, o, last(k)))
        BY <1>1, <1>2, <3>2, <3>3, StartEnvelope
      <3>5. /\ pending' = push_data(NoEnvelope, o, o, last(k)) /\ metadata_seen' = metadata_seen
            /\ metadata_blocks' = metadata_blocks /\ status' = status
        BY <2>2, <3>4, KeepsPending
      <3>6. Progress(archive, is_live, pending', Len(decoded') + 1, erased, o + 1,
                     metadata_seen', metadata_blocks')
        BY <1>7, <2>1, <3>2, <3>3, <3>4, <3>5 DEF Progress
      <3> QED  BY <1>1, <3>2, <3>5, <3>6 DEF Outcome
    <2>3. CASE may_not_open(pending) /\ Fail
      <3>1. pending # NoEnvelope
        BY <1>7, EmptyPending
      <3>2. Hopeless(archive, is_live, erased)
        BY <1>1, <1>2, <1>4, <1>7, <2>1, <2>3, <3>1, NotOpening
      <3> QED  BY <1>1, <2>3, <3>2 DEF Fail, Outcome
    <2> QED  BY <1>7, <2>2, <2>3 DEF Finalize
  <1>8. CASE /\ ~metadata_seen /\ ~pending.awaiting_tentative_parity /\ ~pending.saw_last_data
             /\ KeepPending(push_data(pending, o, o, r.last_data)) /\ decoded' = decoded
    <2>1. metadata_blocks = {} /\ Gathering(archive, pending, t, erased, o)
      BY <1>5, <1>8, SMTT(40)
    <2>2. /\ Gathering(archive, push_data(pending, o, o, last(k)), t, erased, o + 1)
          /\ within_caps(archive, push_data(pending, o, o, last(k)))
      <3>1. CASE Nothing(pending, t, erased, o)
        <4>1. pending = NoEnvelope /\ t = 1 /\ erased = {} /\ o = 0
          BY <3>1 DEF Nothing
        <4>2. 1 \in 1 .. count(archive) /\ obj(archive, 1).first = 0 /\ 1 \in 1 .. payloads(archive)
          BY <1>1, <1>3, <1>4 DEF LaidOut
        <4>3. InObject(archive, 1, o)
          BY <1>1, <4>1, <4>2, Extent DEF InObject
        <4>4. k = 1
          BY <1>1, <1>4, <4>2, <4>3, OneObject
        <4> QED  BY <1>1, <1>2, <4>1, <4>2, <4>4, StartEnvelope
      <3>2. ASSUME NEW n \in 0 .. shards(pending), Reading(archive, pending, t, erased, o, n)
            PROVE  /\ Gathering(archive, push_data(pending, o, o, last(k)), t, erased, o + 1)
                   /\ within_caps(archive, push_data(pending, o, o, last(k)))
        <4>1. /\ Gathered(archive, pending, t, erased, n) /\ ~(n < shards(pending))
              /\ n < obj(archive, t).data /\ o = obj(archive, t).first + shards(pending)
          BY <1>8, <3>2 DEF Reading
        <4>2. /\ t \in 1 .. count(archive) /\ n \in Nat /\ n <= shards(pending)
              /\ shards(pending) \in Nat
              /\ obj(archive, t).first \in Nat /\ obj(archive, t).data \in Nat
              /\ obj(archive, t).parity \in Nat
              /\ end_of(archive, t) = obj(archive, t).first + obj(archive, t).data
                                      + obj(archive, t).parity
          BY <1>1, <4>1, GatheredType
        <4>3. n = shards(pending) /\ obj(archive, t).first <= o /\ o < end_of(archive, t)
          BY <4>1, <4>2
        <4>4. k = t
          BY <1>1, <1>4, <4>2, <4>3, OneObject DEF InObject
        <4> QED  BY <1>1, <3>2, <4>3, <4>4, NextData
      <3> QED  BY <1>8, <2>1, <3>1, <3>2 DEF Gathering, Closed, Doomed
    <2>3. /\ pending' = push_data(pending, o, o, last(k)) /\ metadata_seen' = metadata_seen
          /\ metadata_blocks' = metadata_blocks /\ status' = status
      BY <1>8, <2>2, KeepsPending
    <2>4. Progress(archive, is_live, pending', Len(decoded') + 1, erased, o + 1,
                   metadata_seen', metadata_blocks')
      BY <1>8, <2>1, <2>2, <2>3 DEF Progress, turn
    <2> QED  BY <1>1, <1>8, <2>3, <2>4 DEF Outcome
  <1> QED  BY <1>6, <1>7, <1>8 DEF PayloadData

\* Where a gap-free envelope is being read, the next block is one of its data.
LEMMA ReadingOn ==
    ASSUME NEW a, Sound(a), NEW p, NEW t, NEW E, NEW o, NEW n, Reading(a, p, t, E, o, n),
           ~(n < shards(p)), NEW k \in 1 .. count(a), InObject(a, k, o)
    PROVE  k = t /\ k <= payloads(a) /\ o < obj(a, k).first + obj(a, k).data
  <1>1. /\ Gathered(a, p, t, E, n) /\ n < obj(a, t).data /\ o = obj(a, t).first + shards(p)
    BY DEF Reading
  <1>2. /\ t \in 1 .. count(a) /\ n \in Nat /\ n <= shards(p) /\ shards(p) \in Nat \ {0}
        /\ obj(a, t).first \in Nat /\ obj(a, t).data \in Nat /\ obj(a, t).parity \in Nat
        /\ end_of(a, t) = obj(a, t).first + obj(a, t).data + obj(a, t).parity
    BY <1>1, GatheredType
  <1>3. /\ o \in Int /\ obj(a, t).first <= o /\ o < end_of(a, t) /\ n # 0
        /\ o < obj(a, t).first + obj(a, t).data
    BY <1>1, <1>2
  <1>4. k = t
    BY <1>2, <1>3, OneObject DEF InObject, Sound
  <1>5. t <= payloads(a)
    BY <1>1, <1>3 DEF Gathered
  <1> QED  BY <1>3, <1>4, <1>5

\* handle_live_record at a parity block of envelope k.
LEMMA ParityArrives ==
    ASSUME Expecting, NEW k \in 1 .. payloads(archive), IsParity(archive, k, observed_block_count),
           InObject(archive, k, observed_block_count),
           NEW r, r.block_index = observed_block_count, PayloadParity(r)
    PROVE  Outcome(archive, is_live, pending', decoded', erased, observed_block_count + 1,
                   metadata_seen', metadata_blocks', status')
  <1> DEFINE o == observed_block_count
             t == turn
             q == push_parity(pending, o)
  <1>1. /\ Sound(archive) /\ LaidOut(archive) /\ o \in Nat
        /\ metadata_seen \in BOOLEAN /\ DecodedWell(archive, decoded, erased) /\ status = "records"
    BY DEF Expecting, Sound
  <1>2. payloads(archive) \in Nat /\ count(archive) \in Nat /\ payloads(archive) < count(archive)
    BY <1>1, Extent
  <1>3. /\ k \in 1 .. count(archive) /\ k <= payloads(archive)
        /\ obj(archive, k).first \in Nat /\ obj(archive, k).data \in Nat \ {0}
    BY <1>1, <1>2, Extent
  <1>4. ~(o < obj(archive, k).first + obj(archive, k).data) /\ obj(archive, k).first # o
    BY <1>1, <1>3 DEF IsParity
  <1>5. ~metadata_seen => /\ metadata_blocks = {}
                          /\ Gathering(archive, pending, t, erased, o)
    BY DEF Expecting, Progress
  <1>6. ~metadata_seen =>
          \E n \in 0 .. shards(pending) :
             \/ Reading(archive, pending, t, erased, o, n) /\ n < shards(pending)
             \/ Closed(archive, pending, t, erased, o, n)
             \/ Doomed(archive, pending, t, erased, o, n)
    <2> SUFFICES ASSUME ~metadata_seen
                 PROVE  \E n \in 0 .. shards(pending) :
                           \/ Reading(archive, pending, t, erased, o, n) /\ n < shards(pending)
                           \/ Closed(archive, pending, t, erased, o, n)
                           \/ Doomed(archive, pending, t, erased, o, n)
      OBVIOUS
    <2>1. ~Nothing(pending, t, erased, o)
      <3> SUFFICES ASSUME Nothing(pending, t, erased, o) PROVE FALSE
        OBVIOUS
      <3>1. o = 0
        BY DEF Nothing
      <3> QED  BY <1>3, <1>4, <3>1 DEF InObject
    <2>2. PICK n \in 0 .. shards(pending) :
            \/ Reading(archive, pending, t, erased, o, n)
            \/ Closed(archive, pending, t, erased, o, n)
            \/ Doomed(archive, pending, t, erased, o, n)
      BY <1>5, <2>1 DEF Gathering
    <2>3. Reading(archive, pending, t, erased, o, n) => n < shards(pending)
      BY <1>1, <1>3, <1>4, ReadingOn
    <2> QED  BY <2>2, <2>3
  <1>7. CASE /\ Fail
             /\ \/ metadata_seen
                \/ /\ ~pending.awaiting_tentative_parity
                   /\ pending.data_shards = <<>> \/ ~pending.saw_last_data
    <2>1. metadata_seen
      <3> SUFFICES ASSUME ~metadata_seen PROVE FALSE
        BY <1>1
      <3>1. PICK n \in 0 .. shards(pending) :
              \/ Reading(archive, pending, t, erased, o, n) /\ n < shards(pending)
              \/ Closed(archive, pending, t, erased, o, n)
              \/ Doomed(archive, pending, t, erased, o, n)
        BY <1>6
      <3>2. Gathered(archive, pending, t, erased, n)
        BY <3>1 DEF Reading, Closed, Doomed
      <3>3. pending.data_shards # <<>>
        <4>1. shards(pending) # 0
          BY <1>1, <3>2, GatheredType
        <4>2. Len(<<>>) = 0
          OBVIOUS
        <4> QED  BY <4>1, <4>2 DEF shards
      <3> QED  BY <1>7, <3>1, <3>3 DEF Reading, Closed, Doomed
    <2>2. Hopeless(archive, is_live, erased)
      BY <1>3, <2>1, PayloadAfterMetadata
    <2> QED  BY <1>1, <1>7, <2>2 DEF Fail, Outcome
  <1>8. CASE /\ ~metadata_seen
             /\ pending.awaiting_tentative_parity \/ pending.saw_last_data
             /\ KeepPending(q) /\ decoded' = decoded
    <2>1. /\ metadata_blocks = {} /\ Gathering(archive, pending, t, erased, o)
      BY <1>5, <1>8
    <2>2. PICK n \in 0 .. shards(pending) :
            \/ Reading(archive, pending, t, erased, o, n) /\ n < shards(pending)
            \/ Closed(archive, pending, t, erased, o, n)
            \/ Doomed(archive, pending, t, erased, o, n)
      BY <1>6, <1>8
    <2>3. t \in 1 .. count(archive) /\ t \in Nat /\ obj(archive, t).first <= o
      BY <1>1, <2>1, Behind
    <2>4. \/ Gathering(archive, q, t, erased, o + 1) /\ within_caps(archive, q)
          \/ /\ Gathering(archive, q, t, erased, o + 1)
             /\ Hopeless(archive, is_live, erased)
      <3>1. CASE Reading(archive, pending, t, erased, o, n) /\ n < shards(pending)
        <4>1. t <= k
          BY <1>1, <1>3, <2>3, NotBehind
        <4>2. k \in t .. payloads(archive)
          BY <1>2, <1>3, <2>3, <4>1
        <4> QED  BY <1>1, <3>1, <4>2, GapEnds
      <3>2. CASE Closed(archive, pending, t, erased, o, n)
        <4>1. o < end_of(archive, t)
          BY <1>1, <1>3, <1>4, <3>2, AfterClosed
        <4> QED  BY <1>1, <3>2, <4>1, NextParity
      <3>3. CASE Doomed(archive, pending, t, erased, o, n)
        <4>1. Gathering(archive, q, t, erased, o + 1)
          BY <1>1, <3>3, DoomedParity
        <4>2. Hopeless(archive, is_live, erased)
          BY <1>1, <3>3, DoomedIsHopeless
        <4> QED  BY <4>1, <4>2
      <3> QED  BY <2>2, <3>1, <3>2, <3>3
    <2>5. \/ /\ pending' = q /\ metadata_seen' = metadata_seen
             /\ metadata_blocks' = metadata_blocks /\ status' = status
          \/ /\ status' = "failed" /\ metadata_seen' = metadata_seen
             /\ ~within_caps(archive, q)
      BY <1>8 DEF KeepPending, within_caps, shards, parities
    <2>6. CASE /\ pending' = q /\ metadata_seen' = metadata_seen
               /\ metadata_blocks' = metadata_blocks /\ status' = status
      <3>1. Progress(archive, is_live, pending', Len(decoded') + 1, erased, o + 1,
                     metadata_seen', metadata_blocks')
        BY <1>8, <2>1, <2>4, <2>6 DEF Progress, turn
      <3> QED  BY <1>1, <1>8, <2>6, <3>1 DEF Outcome
    <2>7. CASE status' = "failed" /\ metadata_seen' = metadata_seen /\ ~within_caps(archive, q)
      BY <1>1, <1>8, <2>4, <2>7 DEF Outcome
    <2> QED  BY <2>5, <2>6, <2>7
  <1> QED  BY <1>7, <1>8 DEF PayloadParity, push_parity

\* retain_metadata_record keeps the record, unless more metadata arrives than the
\* cap allows.
LEMMA Retains ==
    ASSUME LaidOut(archive), observed_block_count \in Nat,
           observed_block_count < end_of(archive, count(archive)),
           erased \subseteq 0 .. observed_block_count - 1, NEW t,
           Kept(archive, is_live, t, erased, observed_block_count, metadata_blocks),
           NEW r, r.block_index = observed_block_count, Retain(r)
    PROVE  /\ metadata_seen' = TRUE
           /\ \/ /\ status' = status
                 /\ InMetadata(archive, is_live, pending', t, erased,
                               observed_block_count + 1, metadata_blocks')
              \/ status' = "failed" /\ Hopeless(archive, is_live, erased)
  <1> DEFINE o == observed_block_count
             f == obj(archive, t).first
             M == metadata_blocks
             R == Received(archive, erased)
             z == end_of(archive, count(archive))
  <1>1. t = payloads(archive) + 1 /\ f <= o /\ (payloads(archive) = 0 => 0 \notin erased)
    BY DEF Kept
  <1>2. /\ payloads(archive) \in Nat /\ count(archive) \in Nat
        /\ t \in 1 .. count(archive) /\ f \in Nat /\ z \in Nat
    <2>1. payloads(archive) \in Nat /\ count(archive) \in Nat /\ payloads(archive) < count(archive)
      BY Extent
    <2>2. t \in 1 .. count(archive) /\ count(archive) \in 1 .. count(archive)
      BY <1>1, <2>1
    <2> QED  BY <2>1, <2>2, Extent
  <1>3. o \notin erased /\ f < o + 1 /\ f <= o + 1 /\ RetainedCap \in Nat
    BY <1>1, <1>2, RequestAssumption
  <1>4. metadata_seen' = TRUE
    BY DEF Retain
  <1>5. CASE is_live
    <2>1. M = {b \in f .. o - 1 : b \notin erased} /\ Cardinality(M) <= RetainedCap
      BY <1>5 DEF Kept
    <2>2. M \cup {o} = {b \in f .. (o + 1) - 1 : b \notin erased}
      <3> HIDE DEF f, M
      <3> QED  BY <1>1, <1>2, <1>3, <2>1
    <2>3. IsFiniteSet(M) /\ Cardinality(M) \in Nat
      <3>1. IsFiniteSet(f .. o - 1)
        <4>1. f \in Int /\ o - 1 \in Int
          BY <1>2
        <4> QED  BY <4>1, FS_Interval
      <3>2. M \subseteq f .. o - 1
        BY <2>1
      <3> QED  BY <3>1, <3>2, FS_Subset, FS_CardinalityType
    <2>4. o \notin M
      <3> HIDE DEF f
      <3> QED  BY <1>2, <2>1
    <2>5. IsFiniteSet(M \cup {o}) /\ Cardinality(M \cup {o}) = Cardinality(M) + 1
      BY <2>3, <2>4, FS_AddElement
    <2>6. CASE Cardinality(M) = RetainedCap
      <3>1. R = {b \in f .. z - 1 : b \notin erased}
        BY <1>1 DEF Received
      <3>2. M \cup {o} \subseteq R
        <4> HIDE DEF f, z, M, R
        <4>1. o < z
          BY DEF z
        <4> QED  BY <1>2, <2>2, <3>1, <4>1
      <3>3. IsFiniteSet(R)
        <4>1. IsFiniteSet(f .. z - 1)
          <5>1. f \in Int /\ z - 1 \in Int
            BY <1>2
          <5> QED  BY <5>1, FS_Interval
        <4>2. R \subseteq f .. z - 1
          BY <3>1
        <4> QED  BY <4>1, <4>2, FS_Subset
      <3>4. Cardinality(M \cup {o}) <= Cardinality(R) /\ Cardinality(R) \in Nat
        BY <3>2, <3>3, FS_Subset, FS_CardinalityType
      <3>5. ~(Cardinality(R) <= RetainedCap)
        <4> HIDE DEF R, M
        <4> QED  BY <1>3, <2>3, <2>5, <2>6, <3>4
      <3>6. Hopeless(archive, is_live, erased)
        BY <1>5, <3>5 DEF Hopeless
      <3> QED  BY <1>4, <1>5, <2>6, <3>6 DEF Retain, is_live
    <2>7. CASE Cardinality(M) # RetainedCap
      <3>1. metadata_blocks' = M \cup {o} /\ pending' = NoEnvelope /\ status' = status
        BY <1>5, <2>7 DEF Retain, is_live
      <3>2. Cardinality(M \cup {o}) <= RetainedCap
        <4> HIDE DEF M
        <4> QED  BY <1>3, <2>1, <2>3, <2>5, <2>7
      <3>3. Kept(archive, is_live, t, erased, o + 1, metadata_blocks')
        BY <1>1, <1>3, <1>5, <2>2, <3>1, <3>2 DEF Kept
      <3> QED  BY <1>3, <1>4, <3>1, <3>3 DEF InMetadata
    <2> QED  BY <2>6, <2>7
  <1>6. CASE ~is_live
    <2>1. M = {} /\ \A b \in erased : b < f
      BY <1>6 DEF Kept
    <2>2. metadata_blocks' = {} /\ pending' = NoEnvelope /\ status' = status
      BY <1>6, <2>1 DEF Retain, is_live
    <2>3. Kept(archive, is_live, t, erased, o + 1, metadata_blocks')
      BY <1>1, <1>3, <1>6, <2>1, <2>2 DEF Kept
    <2> QED  BY <1>3, <1>4, <2>2, <2>3 DEF InMetadata
  <1> QED  BY <1>5, <1>6

\* An envelope that is gathered is not empty.
LEMMA NotEmpty ==
    ASSUME NEW a, Sound(a), NEW p, NEW t, NEW E, NEW n, Gathered(a, p, t, E, n)
    PROVE  ~is_empty(p) /\ p # NoEnvelope
  <1>1. shards(p) # 0
    BY GatheredType
  <1>2. Len(<<>>) = 0
    OBVIOUS
  <1> QED  BY <1>1, <1>2, EmptyPending DEF shards, is_empty

\* The block after the last envelope starts the metadata: nothing is kept yet.
LEMMA MetadataStarts ==
    ASSUME LaidOut(archive), NEW live \in BOOLEAN, NEW t, NEW E, NEW o \in Nat,
           t = payloads(archive) + 1, o = obj(archive, t).first, E \subseteq 0 .. o - 1
    PROVE  Kept(archive, live, t, E, o, {})
  <1>1. {b \in o .. o - 1 : b \notin E} = {}
    OBVIOUS
  <1>2. Cardinality({}) <= RetainedCap
    BY FS_EmptySet, RequestAssumption
  <1>3. (\A b \in E : b < o) /\ o <= o
    OBVIOUS
  <1>4. payloads(archive) = 0 => 0 \notin E
    <2> SUFFICES ASSUME payloads(archive) = 0 PROVE 0 \notin E
      OBVIOUS
    <2>1. o = 0
      BY DEF LaidOut
    <2> QED  BY <2>1
  <1> QED  BY <1>1, <1>2, <1>3, <1>4 DEF Kept

\* handle_live_record at a metadata block.
LEMMA MetadataArrives ==
    ASSUME Expecting, NEW k \in payloads(archive) + 1 .. count(archive),
           InObject(archive, k, observed_block_count),
           observed_block_count < end_of(archive, count(archive)),
           NEW r, r.block_index = observed_block_count, Metadata(r)
    PROVE  Outcome(archive, is_live, pending', decoded', erased, observed_block_count + 1,
                   metadata_seen', metadata_blocks', status')
  <1> DEFINE o == observed_block_count
             t == turn
  <1>1. /\ Sound(archive) /\ LaidOut(archive) /\ o \in Nat /\ erased \subseteq 0 .. o - 1
        /\ metadata_seen \in BOOLEAN /\ DecodedWell(archive, decoded, erased) /\ status = "records"
        /\ is_live \in BOOLEAN
    BY DEF Expecting, Sound, is_live
  <1>2. /\ payloads(archive) \in Nat /\ count(archive) \in Nat /\ payloads(archive) < count(archive)
        /\ t \in 1 .. count(archive) /\ t = Len(decoded) + 1 /\ t <= payloads(archive) + 1
    BY <1>1, DecodedType DEF turn
  <1>3. k \in 1 .. count(archive) /\ ~(k <= payloads(archive)) /\ o \notin erased
    BY <1>1, <1>2
  <1>4. CASE metadata_seen
    <2>1. InMetadata(archive, is_live, pending, t, erased, o, metadata_blocks)
      BY <1>4 DEF Expecting, Progress
    <2>2. is_empty(pending)
      BY <2>1, EmptyPending DEF InMetadata, is_empty
    <2>3. Retain(r) /\ decoded' = decoded
      BY <2>2 DEF Metadata
    <2>4. CASE Kept(archive, is_live, t, erased, o, metadata_blocks)
      <3>1. /\ metadata_seen' = TRUE
            /\ \/ /\ status' = status
                  /\ InMetadata(archive, is_live, pending', t, erased, o + 1, metadata_blocks')
               \/ status' = "failed" /\ Hopeless(archive, is_live, erased)
        BY <1>1, <2>3, <2>4, Retains
      <3> QED  BY <1>1, <1>2, <2>3, <3>1 DEF Outcome, Progress
    <2>5. CASE Misled(archive, is_live, t, erased)
      <3>1. Hopeless(archive, is_live, erased)
        BY <1>1, <2>5, MisledIsHopeless
      <3>2. /\ metadata_seen' = TRUE
            /\ \/ status' = "failed"
               \/ status' = status /\ pending' = NoEnvelope
        BY <2>3 DEF Retain
      <3>3. obj(archive, t).first < o + 1
        <4>1. obj(archive, t).first \in Nat /\ obj(archive, t).first < o
          BY <1>1, <1>2, <2>1, Extent DEF InMetadata
        <4> QED  BY <1>1, <4>1
      <3>4. pending' = NoEnvelope
            => InMetadata(archive, is_live, pending', t, erased, o + 1, metadata_blocks')
        BY <2>5, <3>3 DEF InMetadata
      <3> QED  BY <1>1, <1>2, <2>3, <3>1, <3>2, <3>4 DEF Outcome, Progress
    <2> QED  BY <2>1, <2>4, <2>5 DEF InMetadata
  <1>5. CASE ~metadata_seen
    <2>1. metadata_blocks = {} /\ Gathering(archive, pending, t, erased, o)
      BY <1>5 DEF Expecting, Progress
    <2>2. CASE is_empty(pending) /\ Retain(r) /\ decoded' = decoded
      <3>1. Nothing(pending, t, erased, o)
        <4> SUFFICES ASSUME NEW n \in 0 .. shards(pending),
                            Gathered(archive, pending, t, erased, n)
                     PROVE  FALSE
          BY <2>1 DEF Gathering, Reading, Closed, Doomed
        <4> QED  BY <1>1, <2>2, NotEmpty
      <3>2. t = 1 /\ o = 0
        BY <3>1 DEF Nothing
      <3>3. obj(archive, 1).first = 0 /\ 1 \in 1 .. count(archive)
        BY <1>1, <1>2 DEF LaidOut
      <3>4. k = 1
        <4>1. InObject(archive, 1, o)
          BY <1>1, <3>2, <3>3, Extent DEF InObject
        <4> QED  BY <1>1, <1>3, <3>3, <4>1, OneObject
      <3>5. t = payloads(archive) + 1
        BY <1>2, <1>3, <3>2, <3>4
      <3>6. Kept(archive, is_live, t, erased, o, metadata_blocks)
        BY <1>1, <2>1, <3>2, <3>3, <3>5, MetadataStarts
      <3>7. /\ metadata_seen' = TRUE
            /\ \/ /\ status' = status
                  /\ InMetadata(archive, is_live, pending', t, erased, o + 1, metadata_blocks')
               \/ status' = "failed" /\ Hopeless(archive, is_live, erased)
        BY <1>1, <2>2, <3>6, Retains
      <3> QED  BY <1>1, <1>2, <2>2, <3>7 DEF Outcome, Progress
    <2>3. CASE opens(pending) /\ decoded' = Append(decoded, summary(pending)) /\ Retain(r)
      <3>1. /\ t \in 1 .. payloads(archive) /\ o = end_of(archive, t)
            /\ Harmless(archive, erased, t)
            /\ summary(pending) = [first |-> obj(archive, t).first, data |-> obj(archive, t).data,
                                   parity |-> obj(archive, t).parity, content |-> t]
            /\ \E n \in 0 .. shards(pending) : Closed(archive, pending, t, erased, o, n)
        BY <1>1, <2>1, <2>3, OpensClosed
      <3>2. /\ DecodedWell(archive, decoded', erased) /\ Len(decoded') + 1 = t + 1
            /\ obj(archive, t + 1).first = o
        <4>1. t <= payloads(archive)
          BY <1>2, <3>1
        <4> QED  BY <1>1, <1>2, <2>3, <3>1, <4>1, OneMoreDecoded
      <3>3. k = t + 1
        <4>1. o \in Int /\ t \in Int
          BY <1>1, <3>1
        <4> QED  BY <1>1, <1>3, <3>1, <4>1, AfterClosed
      <3>4. t + 1 = payloads(archive) + 1
        BY <1>2, <1>3, <3>1, <3>3
      <3>5. Kept(archive, is_live, t + 1, erased, o, metadata_blocks)
        BY <1>1, <2>1, <3>2, <3>4, MetadataStarts
      <3>6. /\ metadata_seen' = TRUE
            /\ \/ /\ status' = status
                  /\ InMetadata(archive, is_live, pending', t + 1, erased, o + 1, metadata_blocks')
               \/ status' = "failed" /\ Hopeless(archive, is_live, erased)
        BY <1>1, <2>3, <3>5, Retains
      <3> QED  BY <1>1, <3>2, <3>6 DEF Outcome, Progress
    <2>4. CASE ~is_empty(pending) /\ may_not_open(pending) /\ Fail
      <3>1. pending # NoEnvelope
        BY <2>4, EmptyPending DEF is_empty
      <3>2. Hopeless(archive, is_live, erased)
        BY <1>1, <1>2, <1>3, <2>1, <2>4, <3>1, NotOpening
      <3> QED  BY <1>1, <2>4, <3>2 DEF Fail, Outcome
    <2> QED  BY <2>2, <2>3, <2>4 DEF Metadata, Finalize
  <1> QED  BY <1>1, <1>4, <1>5

\* A record that is where the reader expects it.
LEMMA RecordArrives ==
    ASSUME Expecting, observed_block_count < end_of(archive, count(archive)),
           HandleRecord(record(observed_block_count))
    PROVE  Outcome(archive, is_live, pending', decoded', erased, observed_block_count + 1,
                   metadata_seen', metadata_blocks', status')
  <1> DEFINE o == observed_block_count
             r == record(o)
  <1>1. LaidOut(archive) /\ o \in Nat
    BY DEF Expecting, Sound
  <1>2. PICK k \in 1 .. count(archive) : InObject(archive, k, o)
    BY <1>1, SomeObject
  <1>3. payloads(archive) \in Nat /\ count(archive) \in Nat /\ payloads(archive) < count(archive)
    BY <1>1, Extent
  <1>4. r = [block_index |-> o,
             kind |-> IF k > payloads(archive) THEN "Metadata"
                      ELSE IF o < obj(archive, k).first + obj(archive, k).data
                           THEN "PayloadData" ELSE "PayloadParity",
             last_data |-> o = obj(archive, k).first + obj(archive, k).data - 1]
    BY <1>1, <1>2, RecordAt
  <1>5. /\ r.block_index = o
        /\ r.kind = IF k > payloads(archive) THEN "Metadata"
                    ELSE IF o < obj(archive, k).first + obj(archive, k).data
                         THEN "PayloadData" ELSE "PayloadParity"
        /\ r.last_data = (o = obj(archive, k).first + obj(archive, k).data - 1)
    BY <1>4
  <1>6. CASE PayloadData(r)
    <2>1. r.kind = "PayloadData"
      BY <1>6 DEF PayloadData
    <2>2. ~(k > payloads(archive)) /\ o < obj(archive, k).first + obj(archive, k).data
      BY <1>5, <2>1
    <2>3. k \in 1 .. payloads(archive)
      BY <1>3, <2>2
    <2> HIDE DEF r
    <2> QED  BY <1>2, <1>5, <1>6, <2>2, <2>3, DataArrives
  <1>7. CASE PayloadParity(r)
    <2>1. r.kind = "PayloadParity"
      BY <1>7 DEF PayloadParity
    <2>2. ~(k > payloads(archive)) /\ ~(o < obj(archive, k).first + obj(archive, k).data)
      BY <1>5, <2>1
    <2>3. k \in 1 .. payloads(archive)
      BY <1>3, <2>2
    <2>4. IsParity(archive, k, o)
      <3>1. obj(archive, k).first \in Nat /\ obj(archive, k).data \in Nat
        BY <1>1, Extent
      <3> QED  BY <1>1, <1>2, <2>2, <3>1 DEF IsParity, InObject
    <2> HIDE DEF r
    <2> QED  BY <1>2, <1>5, <1>7, <2>3, <2>4, ParityArrives
  <1>8. CASE Metadata(r)
    <2>1. r.kind = "Metadata"
      BY <1>8 DEF Metadata
    <2>2. k > payloads(archive)
      BY <1>5, <2>1
    <2>3. k \in payloads(archive) + 1 .. count(archive)
      BY <1>3, <2>2
    <2> HIDE DEF r
    <2> QED  BY <1>2, <1>5, <1>8, <2>3, MetadataArrives
  <1> QED  BY <1>6, <1>7, <1>8 DEF HandleRecord

\* The whole-buffer reader wants all of the metadata.
LEMMA MetadataLost ==
    ASSUME NEW a, LaidOut(a), NEW live, ~live, NEW k \in payloads(a) + 1 .. count(a),
           NEW o \in Int, InObject(a, k, o), NEW F, o \in F
    PROVE  Hopeless(a, live, F)
  <1>1. payloads(a) \in Nat /\ count(a) \in Nat
    BY Extent
  <1>2. k \in 1 .. count(a)
    BY <1>1
  <1>3. obj(a, k).first \in Int /\ end_of(a, k) \in Int
    BY <1>2, Extent
  <1>4. o \in Missing(a, F, k)
    BY <1>3 DEF Missing, InObject
  <1>5. ~Loadable(a, live, F, k)
    BY <1>4 DEF Loadable
  <1> QED  BY <1>5 DEF Hopeless

\* A gap as long as the class maximum has gone too far.
LEMMA GapOverflows ==
    ASSUME NEW a, Sound(a), guaranteed(a), NEW p, NEW t, NEW E, NEW o, NEW n,
           Reading(a, p, t, E, o, n), NEW q, q = push_gap(p, o), ~within_caps(a, q), NEW live
    PROVE  Hopeless(a, live, E \cup {o})
  <1> DEFINE f == obj(a, t).first
             d == obj(a, t).data
             s == shards(p)
             full == a.options.fec_data_shards
  <1>1. Gathered(a, p, t, E, n) /\ n < d /\ parities(p) = 0 /\ o = f + s
    BY DEF Reading
  <1>2. /\ p \in Pendings /\ t \in 1 .. count(a) /\ t \in Nat \ {0} /\ t <= payloads(a) + 1
        /\ payloads(a) \in Nat /\ f \in Nat /\ d \in Nat \ {0} /\ s \in Nat \ {0} /\ s <= full
        /\ full \in Nat /\ a.options.fec_parity_shards \in Nat
    BY <1>1, GatheredType
  <1>3. d <= full
    BY <1>2 DEF Sound, LaidOut
  <1>4. shards(q) = s + 1 /\ parities(q) = 0
    <2>1. o \in Int
      BY <1>1, <1>2
    <2>2. shards(q) = shards(p) + 1 /\ parities(q) = parities(p)
      <3>1. p \in Pendings /\ q = push_gap(p, o)
        BY <1>2
      <3> HIDE DEF s, f, d, full
      <3> QED  BY <2>1, <3>1, PushedGap
    <2> QED  BY <1>1, <2>2
  <1>5. ~(s + 1 <= full)
    BY <1>2, <1>4 DEF within_caps
  <1>6. d < s \/ (d = s /\ f + d = o)
    <2> HIDE DEF f, d, s, full
    <2> QED  BY <1>1, <1>2, <1>3, <1>5
  <1>7. IF t <= payloads(a) THEN ~Harmless(a, E \cup {o}, t)
        ELSE payloads(a) = 0 /\ 0 \in E \cup {o}
    <2>1. E \subseteq E \cup {o} /\ (d < s \/ (d = s /\ f + d \in E \cup {o}))
      BY <1>6
    <2> QED  BY <1>1, <2>1, GapTooFar
  <1>8. CASE t <= payloads(a)
    <2>1. t \in 1 .. payloads(a)
      BY <1>2, <1>8
    <2> QED  BY <1>7, <1>8, <2>1 DEF Hopeless
  <1>9. CASE ~(t <= payloads(a))
    <2>1. ~Loadable(a, live, E \cup {o}, 1) /\ 1 \in payloads(a) + 1 .. count(a)
      BY <1>7, <1>9, FirstBlockLost DEF Sound
    <2> QED  BY <2>1 DEF Hopeless
  <1> QED  BY <1>8, <1>9

\* Where the envelope is complete, it has its parity.
LEMMA CompleteIsClosed ==
    ASSUME Sound(archive), NEW t, NEW E, NEW o, NEW n, Closed(archive, pending, t, E, o, n)
    PROVE  envelope_is_complete <=> o = end_of(archive, t)
  <1> DEFINE d == obj(archive, t).data
             r == obj(archive, t).parity
  <1>1. /\ Gathered(archive, pending, t, E, n) /\ pending.saw_last_data /\ shards(pending) = d
        /\ parities(pending) <= r /\ o = obj(archive, t).first + d + parities(pending)
    BY DEF Closed
  <1>2. /\ t \in 1 .. count(archive) /\ obj(archive, t).first \in Nat /\ d \in Nat /\ r \in Nat
        /\ parities(pending) \in Nat /\ end_of(archive, t) = obj(archive, t).first + d + r
    BY <1>1, GatheredType
  <1>3. required_object_parity(pending) = r /\ r # NoPlan
    BY <1>1, <1>2, SMTT(40) DEF Sound, LaidOut, required_object_parity, shards, NoPlan
  <1>4. envelope_is_complete <=> parities(pending) >= r
    BY <1>1, <1>3 DEF envelope_is_complete, parities
  <1>5. parities(pending) >= r <=> o = end_of(archive, t)
    <2> HIDE DEF d, r
    <2> QED  BY <1>1, <1>2
  <1> QED  BY <1>4, <1>5

\* Where a reader cannot guess what an erased block was, too much is lost.
LEMMA CannotGuess ==
    ASSUME Sound(archive), NEW t, NEW E, NEW o, Gathering(archive, pending, t, E, o),
           pending.saw_last_data \/ ~guaranteed(archive),
           NEW live, live => ~envelope_is_complete,
           o < end_of(archive, count(archive))
    PROVE  Hopeless(archive, live, E \cup {o})
  <1> DEFINE a == archive
             F == E \cup {o}
  <1>1. /\ t \in 1 .. count(a) /\ t \in Nat \ {0} /\ t <= payloads(a) + 1
        /\ payloads(a) \in Nat /\ count(a) \in Nat /\ payloads(a) < count(a) /\ o \in Nat
    BY Behind
  <1>2. LaidOut(a) /\ o \in F /\ E \subseteq F /\ o \in Int
    BY <1>1 DEF Sound
  <1>3. PICK k \in 1 .. count(a) : InObject(a, k, o)
    BY <1>1, <1>2, SomeObject
  <1>4. ASSUME ~guaranteed(a), NEW i \in 1 .. payloads(a), InObject(a, i, o)
        PROVE  Hopeless(a, live, F)
    <2>1. i \in 1 .. count(a)
      BY <1>1
    <2>2. obj(a, i).parity = 0
      BY <1>2, <1>4, <2>1 DEF LaidOut
    <2>3. ~Harmless(a, F, i)
      BY <1>2, <1>4, <2>1, <2>2, NoParity
    <2> QED  BY <2>3 DEF Hopeless
  <1>5. CASE Nothing(pending, t, E, o)
    <2>1. ~guaranteed(a) /\ o = 0
      BY <1>5, EmptyPending DEF Nothing
    <2>2. CASE payloads(a) = 0
      <3>1. ~Loadable(a, live, F, 1) /\ 1 \in payloads(a) + 1 .. count(a)
        BY <1>2, <2>1, <2>2, FirstBlockLost
      <3> QED  BY <3>1 DEF Hopeless
    <2>3. CASE payloads(a) # 0
      <3>1. 1 \in 1 .. payloads(a) /\ 1 \in 1 .. count(a)
        BY <1>1, <2>3
      <3>2. obj(a, 1).first = 0
        BY <1>2 DEF LaidOut
      <3>3. InObject(a, 1, o)
        BY <1>2, <2>1, <3>1, <3>2, Extent DEF InObject
      <3> QED  BY <1>4, <2>1, <3>1, <3>3
    <2> QED  BY <2>2, <2>3
  <1>6. ASSUME NEW n \in 0 .. shards(pending), Reading(a, pending, t, E, o, n)
        PROVE  Hopeless(a, live, F)
    <2>1. ~pending.saw_last_data /\ Gathered(a, pending, t, E, n)
      BY <1>6 DEF Reading
    <2>2. ~guaranteed(a)
      BY <2>1
    <2>3. ~(n < shards(pending))
      BY <2>1, <2>2 DEF Gathered
    <2>4. k <= payloads(a)
      BY <1>3, <1>6, <2>3, ReadingOn
    <2>5. k \in 1 .. payloads(a)
      BY <1>1, <2>4
    <2> QED  BY <1>3, <1>4, <2>2, <2>5
  <1>7. ASSUME NEW n \in 0 .. shards(pending), Closed(a, pending, t, E, o, n)
        PROVE  Hopeless(a, live, F)
    <2>1. t \in 1 .. payloads(a)
      BY <1>1, <1>7 DEF Closed
    <2>2. CASE o < end_of(a, t) /\ IsParity(a, t, o)
      <3>1. ~Harmless(a, F, t)
        BY <1>1, <1>2, <2>2, ParityLost DEF IsParity
      <3> QED  BY <2>1, <3>1 DEF Hopeless
    <2>3. CASE o = end_of(a, t) /\ k = t + 1 /\ obj(a, k).first = o
      <3>1. ~live
        BY <1>7, <2>3, CompleteIsClosed
      <3>2. CASE k <= payloads(a)
        <4>1. k # 1 /\ k \in 1 .. payloads(a)
          BY <1>1, <2>3, <3>2
        <4>2. ~Harmless(a, F, k)
          BY <1>2, <2>3, <4>1, FirstLost
        <4> QED  BY <4>1, <4>2 DEF Hopeless
      <3>3. CASE ~(k <= payloads(a))
        <4>1. k \in payloads(a) + 1 .. count(a)
          BY <1>1, <3>3
        <4> QED  BY <1>2, <1>3, <3>1, <4>1, MetadataLost
      <3> QED  BY <3>2, <3>3
    <2> QED  BY <1>3, <1>7, <2>2, <2>3, AfterClosed
  <1>8. ASSUME NEW n \in 0 .. shards(pending), Doomed(a, pending, t, E, o, n)
        PROVE  Hopeless(a, live, F)
    BY <1>2, <1>8, DoomedIsHopeless
  <1> QED  BY <1>5, <1>6, <1>7, <1>8 DEF Gathering

\* GuessData: the gap grows, or too much is lost.
LEMMA GapGrows ==
    ASSUME Expecting, ~metadata_seen, ~(is_live /\ envelope_is_complete),
           GuessData(observed_block_count)
    PROVE  /\ DecodedWell(archive, decoded', erased \cup {observed_block_count})
           /\ metadata_seen' \in BOOLEAN
           /\ \/ /\ status' = "records"
                 /\ Progress(archive, is_live, pending', Len(decoded') + 1,
                             erased \cup {observed_block_count}, observed_block_count + 1,
                             metadata_seen', metadata_blocks')
              \/ /\ status' = "failed"
                 /\ observed_block_count < end_of(archive, count(archive)) =>
                       Hopeless(archive, is_live, erased \cup {observed_block_count})
  <1> DEFINE o == observed_block_count
             t == turn
             F == erased \cup {o}
             q == push_gap(pending, o)
  <1>1. /\ Sound(archive) /\ LaidOut(archive) /\ o \in Nat
        /\ DecodedWell(archive, decoded, erased) /\ status = "records"
        /\ metadata_blocks = {} /\ Gathering(archive, pending, t, erased, o)
        /\ t = Len(decoded) + 1 /\ metadata_seen \in BOOLEAN
    BY DEF Expecting, Sound, Progress, turn
  <1>2. DecodedWell(archive, decoded, F)
    <2>1. obj(archive, t).first <= o
      BY <1>1, Behind
    <2> QED  BY <1>1, <2>1, DecodedKept
  <1>3. parity_is_guaranteed <=> guaranteed(archive)
    BY DEF parity_is_guaranteed, guaranteed
  <1>4. CASE ~pending.saw_last_data /\ parity_is_guaranteed /\ KeepPending(q) /\ decoded' = decoded
    <2>1. \/ Gathering(archive, q, t, F, o + 1) /\ within_caps(archive, q)
          \/ ~within_caps(archive, q) /\ Hopeless(archive, is_live, F)
      <3>1. CASE Nothing(pending, t, erased, o)
        <4>1. pending = NoEnvelope /\ t = 1 /\ erased = {} /\ o = 0
          BY <3>1 DEF Nothing
        <4>2. F = {0} /\ o + 1 = 1 /\ q = push_gap(NoEnvelope, 0)
          BY <4>1
        <4>3. Gathering(archive, q, 1, {0}, 1) /\ within_caps(archive, q)
          BY <1>1, <1>3, <1>4, <4>2, FirstGap
        <4> QED  BY <4>1, <4>2, <4>3
      <3>2. ASSUME NEW n \in 0 .. shards(pending), Reading(archive, pending, t, erased, o, n)
            PROVE  \/ Gathering(archive, q, t, F, o + 1) /\ within_caps(archive, q)
                   \/ ~within_caps(archive, q) /\ Hopeless(archive, is_live, F)
        <4>1. CASE within_caps(archive, q)
          BY <1>1, <1>3, <1>4, <3>2, <4>1, NextGap
        <4>2. CASE ~within_caps(archive, q)
          BY <1>1, <1>3, <1>4, <3>2, <4>2, GapOverflows
        <4> QED  BY <4>1, <4>2
      <3> QED  BY <1>1, <1>4, <3>1, <3>2 DEF Gathering, Closed, Doomed
    <2>2. CASE within_caps(archive, q)
      <3>1. /\ pending' = q /\ metadata_seen' = metadata_seen
            /\ metadata_blocks' = metadata_blocks /\ status' = status
        BY <1>4, <2>2, KeepsPending
      <3>2. Progress(archive, is_live, pending', Len(decoded') + 1, F, o + 1,
                     metadata_seen', metadata_blocks')
        BY <1>1, <1>4, <2>1, <2>2, <3>1 DEF Progress
      <3> QED  BY <1>1, <1>2, <1>4, <3>1, <3>2
    <2>3. CASE ~within_caps(archive, q)
      <3>1. status' = "failed" /\ metadata_seen' = metadata_seen
        BY <1>4, <2>3 DEF KeepPending, within_caps, shards, parities
      <3> QED  BY <1>1, <1>2, <1>4, <2>1, <2>3, <3>1
    <2> QED  BY <2>2, <2>3
  <1>5. CASE (pending.saw_last_data \/ ~parity_is_guaranteed) /\ Fail
    <2>1. o < end_of(archive, count(archive)) => Hopeless(archive, is_live, F)
      BY <1>1, <1>3, <1>5, CannotGuess
    <2> QED  BY <1>1, <1>2, <1>5, <2>1 DEF Fail
  <1>6. \/ ~pending.saw_last_data /\ parity_is_guaranteed /\ KeepPending(q) /\ decoded' = decoded
        \/ (pending.saw_last_data \/ ~parity_is_guaranteed) /\ Fail
    BY DEF GuessData, push_gap
  <1> QED  BY <1>4, <1>5, <1>6

\* What was erased after the metadata began leaves what is kept alone.
LEMMA ErasedMetadata ==
    ASSUME LaidOut(archive), NEW p, NEW t \in 1 .. count(archive), NEW E, NEW o \in Nat, NEW M,
           NEW live, live, E \subseteq 0 .. o - 1, InMetadata(archive, live, p, t, E, o, M)
    PROVE  InMetadata(archive, live, p, t, E \cup {o}, o + 1, M)
  <1> DEFINE f == obj(archive, t).first
             F == E \cup {o}
  <1>1. f \in Nat
    BY Extent
  <1>2. p = NoEnvelope /\ f < o
    BY DEF InMetadata
  <1>3. f < o + 1 /\ f <= o + 1
    BY <1>1, <1>2
  <1>4. CASE Kept(archive, live, t, E, o, M)
    <2>1. /\ t = payloads(archive) + 1 /\ M = {b \in f .. o - 1 : b \notin E}
          /\ Cardinality(M) <= RetainedCap /\ (payloads(archive) = 0 => 0 \notin E)
      BY <1>4 DEF Kept
    <2>2. {b \in f .. o - 1 : b \notin E} = {b \in f .. (o + 1) - 1 : b \notin F}
      <3> HIDE DEF f
      <3> QED  BY <1>1
    <2>3. payloads(archive) = 0 => 0 \notin F
      <3>1. 0 # o
        BY <1>1, <1>2
      <3> QED  BY <2>1, <3>1
    <2>4. Kept(archive, live, t, F, o + 1, M)
      BY <1>3, <2>1, <2>2, <2>3 DEF Kept
    <2> QED  BY <1>2, <1>3, <2>4 DEF InMetadata
  <1>5. CASE Misled(archive, live, t, E)
    BY <1>2, <1>3, <1>5 DEF InMetadata, Misled
  <1> QED  BY <1>4, <1>5 DEF InMetadata

\* handle_live_erasure after a complete envelope: what is missing is taken for
\* metadata.
LEMMA TakenForMetadata ==
    ASSUME Expecting, ~metadata_seen, is_live, envelope_is_complete,
           Finalize(/\ metadata_seen' = TRUE /\ pending' = NoEnvelope
                    /\ metadata_blocks' = metadata_blocks /\ status' = status)
    PROVE  /\ DecodedWell(archive, decoded', erased \cup {observed_block_count})
           /\ metadata_seen' \in BOOLEAN
           /\ \/ /\ status' = "records"
                 /\ Progress(archive, is_live, pending', Len(decoded') + 1,
                             erased \cup {observed_block_count}, observed_block_count + 1,
                             metadata_seen', metadata_blocks')
              \/ /\ status' = "failed"
                 /\ Hopeless(archive, is_live, erased \cup {observed_block_count})
  <1> DEFINE o == observed_block_count
             t == turn
             F == erased \cup {o}
  <1>1. /\ Sound(archive) /\ LaidOut(archive) /\ o \in Nat /\ erased \subseteq 0 .. o - 1
        /\ DecodedWell(archive, decoded, erased) /\ status = "records"
        /\ metadata_blocks = {} /\ Gathering(archive, pending, t, erased, o)
        /\ t = Len(decoded) + 1
    BY DEF Expecting, Sound, Progress, turn
  <1>2. payloads(archive) \in Nat /\ t \in Nat \ {0} /\ obj(archive, t).first <= o
    BY <1>1, Behind
  <1>3. CASE /\ opens(pending) /\ decoded' = Append(decoded, summary(pending))
             /\ metadata_seen' = TRUE /\ pending' = NoEnvelope
             /\ metadata_blocks' = metadata_blocks /\ status' = status
    <2>1. /\ t \in 1 .. payloads(archive) /\ o = end_of(archive, t)
          /\ Harmless(archive, erased, t)
          /\ summary(pending) = [first |-> obj(archive, t).first, data |-> obj(archive, t).data,
                                 parity |-> obj(archive, t).parity, content |-> t]
      BY <1>1, <1>3, OpensClosed
    <2>2. /\ DecodedWell(archive, decoded', erased) /\ Len(decoded') + 1 = t + 1
          /\ obj(archive, t + 1).first = o
      <3>1. t <= payloads(archive)
        BY <1>2, <2>1
      <3> QED  BY <1>1, <1>3, <2>1, <3>1, OneMoreDecoded
    <2>3. DecodedWell(archive, decoded', F)
      <3>1. obj(archive, Len(decoded') + 1).first <= o
        BY <1>1, <2>2
      <3> QED  BY <1>1, <2>2, <3>1, DecodedKept
    <2>4. InMetadata(archive, is_live, NoEnvelope, t + 1, F, o + 1, {})
      <3>1. obj(archive, t + 1).first < o + 1 /\ obj(archive, t + 1).first <= o + 1
        BY <1>1, <2>2
      <3>2. CASE t + 1 <= payloads(archive)
        <4>1. t + 1 \in 2 .. payloads(archive)
          BY <1>2, <3>2
        <4>2. Misled(archive, is_live, t + 1, F)
          BY <2>2, <4>1 DEF Misled
        <4> QED  BY <3>1, <4>2 DEF InMetadata
      <3>3. CASE ~(t + 1 <= payloads(archive))
        <4>1. t + 1 = payloads(archive) + 1 /\ payloads(archive) # 0
          BY <1>2, <2>1, <3>3
        <4>2. {} = {b \in o .. (o + 1) - 1 : b \notin F}
          BY <1>1
        <4>3. Cardinality({}) <= RetainedCap
          BY FS_EmptySet, RequestAssumption
        <4>4. Kept(archive, is_live, t + 1, F, o + 1, {})
          BY <2>2, <3>1, <4>1, <4>2, <4>3 DEF Kept
        <4> QED  BY <3>1, <4>4 DEF InMetadata
      <3> QED  BY <3>2, <3>3
    <2>5. Progress(archive, is_live, pending', Len(decoded') + 1, F, o + 1,
                   metadata_seen', metadata_blocks')
      BY <1>1, <1>3, <2>2, <2>4 DEF Progress
    <2> QED  BY <1>1, <1>3, <2>3, <2>5
  <1>4. CASE may_not_open(pending) /\ Fail
    <2>1. ~finalizable(pending)
      BY <1>1, <1>4, NotFinalizable
    <2>2. Hopeless(archive, is_live, F)
      <3>1. ~Nothing(pending, t, erased, o)
        BY EmptyPending DEF Nothing, envelope_is_complete
      <3>2. PICK n \in 0 .. shards(pending) :
              \/ Reading(archive, pending, t, erased, o, n)
              \/ Closed(archive, pending, t, erased, o, n)
              \/ Doomed(archive, pending, t, erased, o, n)
        BY <1>1, <3>1 DEF Gathering
      <3>3. CASE Reading(archive, pending, t, erased, o, n)
        BY <3>3 DEF Reading, envelope_is_complete
      <3>4. CASE Closed(archive, pending, t, erased, o, n)
        <4>1. o = end_of(archive, t)
          BY <1>1, <3>4, CompleteIsClosed
        <4>2. t \in 1 .. payloads(archive)
          BY <1>2, <3>4 DEF Closed
        <4>3. Missing(archive, F, t) = Missing(archive, erased, t)
          <5>1. o \notin obj(archive, t).first .. end_of(archive, t) - 1
            BY <1>1, <4>1
          <5> QED  BY <5>1 DEF Missing
        <4>4. ~Harmless(archive, F, t)
          BY <1>1, <2>1, <3>4, <4>1, <4>3, ClosedIsBad
        <4> QED  BY <4>2, <4>4 DEF Hopeless
      <3>5. CASE Doomed(archive, pending, t, erased, o, n)
        BY <1>1, <3>5, DoomedIsHopeless
      <3> QED  BY <3>2, <3>3, <3>4, <3>5
    <2>3. DecodedWell(archive, decoded, F)
      BY <1>1, <1>2, DecodedKept
    <2> QED  BY <1>4, <2>2, <2>3 DEF Fail, Expecting
  <1> QED  BY <1>3, <1>4 DEF Finalize

\* A block that is erased.
LEMMA BlockErased ==
    ASSUME Expecting, LiveErasure(observed_block_count) \/ BufferErasure(observed_block_count)
    PROVE  /\ DecodedWell(archive, decoded', erased \cup {observed_block_count})
           /\ metadata_seen' \in BOOLEAN
           /\ \/ /\ status' = "records"
                 /\ Progress(archive, is_live, pending', Len(decoded') + 1,
                             erased \cup {observed_block_count}, observed_block_count + 1,
                             metadata_seen', metadata_blocks')
              \/ /\ status' = "failed"
                 /\ observed_block_count < end_of(archive, count(archive)) =>
                       Hopeless(archive, is_live, erased \cup {observed_block_count})
  <1> DEFINE o == observed_block_count
             t == turn
             F == erased \cup {o}
  <1>1. /\ Sound(archive) /\ LaidOut(archive) /\ o \in Nat /\ erased \subseteq 0 .. o - 1
        /\ DecodedWell(archive, decoded, erased) /\ status = "records" /\ metadata_seen \in BOOLEAN
        /\ t = Len(decoded) + 1
    BY DEF Expecting, Sound, turn
  <1>2. /\ t \in 1 .. count(archive) /\ payloads(archive) \in Nat /\ count(archive) \in Nat
    BY <1>1, DecodedType
  <1>3. metadata_seen =>
          /\ InMetadata(archive, is_live, pending, t, erased, o, metadata_blocks)
          /\ DecodedWell(archive, decoded, F)
    <2> SUFFICES ASSUME metadata_seen
                 PROVE  /\ InMetadata(archive, is_live, pending, t, erased, o, metadata_blocks)
                        /\ DecodedWell(archive, decoded, F)
      OBVIOUS
    <2>1. InMetadata(archive, is_live, pending, t, erased, o, metadata_blocks)
      BY DEF Expecting, Progress
    <2>2. obj(archive, t).first <= o
      <3>1. obj(archive, t).first < o /\ obj(archive, t).first \in Nat
        BY <1>1, <1>2, <2>1, Extent DEF InMetadata
      <3> QED  BY <1>1, <3>1
    <2> QED  BY <1>1, <2>1, <2>2, DecodedKept
  <1>4. CASE is_live /\ metadata_seen /\ UNCHANGED <<pending, metadata_seen, metadata_blocks, decoded, status>>
    <2>1. InMetadata(archive, is_live, pending, t, F, o + 1, metadata_blocks)
      BY <1>1, <1>2, <1>3, <1>4, ErasedMetadata
    <2>2. Progress(archive, is_live, pending', Len(decoded') + 1, F, o + 1,
                   metadata_seen', metadata_blocks')
      BY <1>1, <1>4, <2>1 DEF Progress
    <2> QED  BY <1>1, <1>3, <1>4, <2>2
  <1>5. CASE /\ is_live /\ ~metadata_seen /\ envelope_is_complete
             /\ Finalize(/\ metadata_seen' = TRUE /\ pending' = NoEnvelope
                         /\ metadata_blocks' = metadata_blocks /\ status' = status)
    BY <1>5, TakenForMetadata
  <1>6. CASE ~metadata_seen /\ ~(is_live /\ envelope_is_complete) /\ GuessData(o)
    BY <1>6, GapGrows
  <1>7. CASE ~is_live /\ metadata_seen /\ Fail
    <2>1. /\ t = payloads(archive) + 1 /\ obj(archive, t).first <= o
      BY <1>3, <1>7 DEF InMetadata, Kept, Misled
    <2>2. ASSUME o < end_of(archive, count(archive)) PROVE Hopeless(archive, is_live, F)
      <3>1. PICK k \in 1 .. count(archive) : InObject(archive, k, o)
        BY <1>1, <2>2, SomeObject
      <3>2. t <= k
        BY <1>1, <1>2, <2>1, <3>1, NotBehind
      <3>3. k \in payloads(archive) + 1 .. count(archive)
        BY <1>2, <2>1, <3>2
      <3> QED  BY <1>1, <1>7, <3>1, <3>3, MetadataLost
    <2> QED  BY <1>1, <1>3, <1>7, <2>2 DEF Fail
  <1> QED  BY <1>4, <1>5, <1>6, <1>7 DEF LiveErasure, BufferErasure, is_live, Finalize

-----------------------------------------------------------------------------
(***************************************************************************)
(* The inductive invariant                                                 *)
(***************************************************************************)

Inv ==
    /\ Sound(archive) /\ reader \in {"live", "buffer"}
    /\ pos \in Nat /\ pos <= block_count
    /\ observed_block_count \in Nat
    /\ erased \subseteq 0 .. observed_block_count - 1
    /\ metadata_seen \in BOOLEAN /\ intact \in BOOLEAN
    /\ DecodedWell(archive, decoded, erased)
    /\ status \in {"headers", "records", "tail", "terminal", "index", "succeeded", "failed"}
    /\ status = "headers" => /\ ~metadata_seen /\ metadata_blocks = {}
                             /\ Nothing(pending, turn, erased, observed_block_count)
    /\ status \in {"records", "tail"} =>
          Progress(archive, is_live, pending, turn, erased, observed_block_count,
                   metadata_seen, metadata_blocks)
    /\ (status = "terminal" /\ terminal_is_valid) \/ status = "index" =>
          InMetadata(archive, is_live, pending, turn, erased, observed_block_count,
                     metadata_blocks)
    /\ status = "index" => is_live /\ terminal_is_valid
    /\ status \in {"tail", "terminal", "index"} /\ intact => pos = block_count
    /\ status = "succeeded" => Tolerable /\ Len(decoded) = payloads(archive)
    /\ status = "failed" => ~Tolerable

\* The end of the stream is behind every object but the last.
LEMMA BeforeTheEnd ==
    ASSUME NEW a, LaidOut(a), NEW k \in 1 .. count(a)
    PROVE  /\ end_of(a, k) \in Nat /\ end_of(a, count(a)) \in Nat /\ 0 < end_of(a, count(a))
           /\ end_of(a, k) <= end_of(a, count(a))
           /\ k <= payloads(a) => end_of(a, k) < end_of(a, count(a))
  <1> DEFINE c == count(a)
  <1>1. payloads(a) \in Nat /\ c \in Nat /\ payloads(a) < c
    BY Extent
  <1>2. c \in 1 .. c
    BY <1>1
  <1>3. /\ obj(a, c).first \in Nat /\ obj(a, c).data \in Nat \ {0} /\ obj(a, c).parity \in Nat
        /\ end_of(a, c) = obj(a, c).first + obj(a, c).data + obj(a, c).parity
    BY <1>2, Extent
  <1>4. end_of(a, k) \in Nat
    <2>1. /\ obj(a, k).first \in Nat /\ obj(a, k).data \in Nat \ {0} /\ obj(a, k).parity \in Nat
          /\ end_of(a, k) = obj(a, k).first + obj(a, k).data + obj(a, k).parity
      BY Extent
    <2> QED  BY <2>1
  <1>5. k < c => end_of(a, k) <= obj(a, c).first
    BY <1>2 DEF LaidOut
  <1>6. /\ end_of(a, c) \in Nat /\ 0 < end_of(a, c) /\ obj(a, c).first < end_of(a, c)
    BY <1>3
  <1>7. CASE k = c
    BY <1>1, <1>6, <1>7
  <1>8. CASE k # c
    <2>1. k < c
      BY <1>1, <1>8
    <2>2. end_of(a, k) <= obj(a, c).first
      BY <1>5, <2>1
    <2>3. end_of(a, k) < end_of(a, c)
      <3> HIDE DEF c
      <3> QED  BY <1>3, <1>4, <1>6, <2>2
    <2> QED  BY <1>4, <1>6, <2>3
  <1> QED  BY <1>7, <1>8

\* If an envelope is still being gathered at the end of the stream, the metadata
\* and the envelope's parity are lost.
LEMMA GatheringAtTheEnd ==
    ASSUME NEW a, Sound(a), NEW p, NEW t, NEW E, NEW o, Gathering(a, p, t, E, o),
           o = end_of(a, count(a)), NEW live
    PROVE  Hopeless(a, live, E)
  <1> DEFINE f == obj(a, t).first
             d == obj(a, t).data
             x == obj(a, t).parity
  <1>1. /\ t \in 1 .. count(a) /\ t \in Nat \ {0} /\ t <= payloads(a) + 1
        /\ payloads(a) \in Nat /\ count(a) \in Nat /\ LaidOut(a)
    BY Behind DEF Sound
  <1>2. /\ f \in Nat /\ d \in Nat \ {0} /\ x \in Nat /\ end_of(a, t) = f + d + x
    BY <1>1, Extent
  <1>3. /\ end_of(a, t) <= o /\ 0 < o /\ o \in Nat
        /\ t <= payloads(a) => end_of(a, t) < o
    BY <1>1, BeforeTheEnd
  <1>4. CASE Nothing(p, t, E, o)
    BY <1>3, <1>4 DEF Nothing
  <1>5. ASSUME NEW n \in 0 .. shards(p), Reading(a, p, t, E, o, n)
        PROVE  Hopeless(a, live, E)
    <2>1. Gathered(a, p, t, E, n) /\ n < d /\ o = f + shards(p)
      BY <1>5 DEF Reading
    <2>2. shards(p) \in Nat /\ n \in Nat /\ n <= shards(p)
      BY <2>1, GatheredType
    <2>3. d + x <= shards(p) /\ n < shards(p)
      <3> HIDE DEF f, d, x
      <3> QED  BY <1>2, <1>3, <2>1, <2>2
    <2>4. guaranteed(a)
      BY <2>1, <2>3 DEF Gathered
    <2>5. 0 < x
      BY <1>1, <2>4 DEF LaidOut
    <2>6. d < shards(p)
      <3> HIDE DEF d, x
      <3> QED  BY <1>2, <2>2, <2>3, <2>5
    <2>7. IF t <= payloads(a) THEN ~Harmless(a, E, t) ELSE payloads(a) = 0 /\ 0 \in E
      BY <2>1, <2>4, <2>6, GapTooFar
    <2>8. CASE t <= payloads(a)
      <3>1. t \in 1 .. payloads(a)
        BY <1>1, <2>8
      <3> QED  BY <2>7, <2>8, <3>1 DEF Hopeless
    <2>9. CASE ~(t <= payloads(a))
      <3>1. ~Loadable(a, live, E, 1) /\ 1 \in payloads(a) + 1 .. count(a)
        BY <1>1, <2>7, <2>9, FirstBlockLost
      <3> QED  BY <3>1 DEF Hopeless
    <2> QED  BY <2>8, <2>9
  <1>6. ASSUME NEW n \in 0 .. shards(p), Closed(a, p, t, E, o, n)
        PROVE  FALSE
    <2>1. /\ Gathered(a, p, t, E, n) /\ t <= payloads(a) /\ parities(p) <= x
          /\ o = f + d + parities(p)
      BY <1>6 DEF Closed
    <2>2. parities(p) \in Nat
      BY <2>1, GatheredType
    <2> HIDE DEF f, d, x
    <2> QED  BY <1>2, <1>3, <2>1, <2>2
  <1>7. ASSUME NEW n \in 0 .. shards(p), Doomed(a, p, t, E, o, n)
        PROVE  Hopeless(a, live, E)
    BY <1>7, DoomedIsHopeless
  <1> QED  BY <1>4, <1>5, <1>6, <1>7 DEF Gathering

\* The archive and the reader stay what they are, and so does what depends on them
\* alone.
LEMMA SameArchive ==
    ASSUME Inv, archive' = archive, reader' = reader
    PROVE  /\ Sound(archive)' /\ (reader \in {"live", "buffer"})' /\ block_count' = block_count
           /\ is_live' = is_live /\ LaidOut(archive)
           /\ block_count = end_of(archive, count(archive)) /\ block_count \in Nat
           /\ 0 < block_count
  <1>1. Sound(archive) /\ LaidOut(archive) /\ reader \in {"live", "buffer"}
    BY DEF Inv, Sound
  <1>2. block_count = end_of(archive, count(archive))
    BY <1>1, Named
  <1>3. count(archive) \in 1 .. count(archive)
    BY <1>1, Extent
  <1>4. block_count \in Nat /\ 0 < block_count
    BY <1>1, <1>2, <1>3, BeforeTheEnd
  <1> QED  BY <1>1, <1>2, <1>4 DEF block_count, objects, is_live

\* The first state satisfies it.
LEMMA InvInit ==
    ASSUME Init
    PROVE  Inv
  <1>1. PICK r \in Requests : archive = written(r)
    BY DEF Init
  <1>2. LaidOut(archive) /\ Sound(archive)
    BY <1>1, WrittenIsLaidOut DEF Sound
  <1>3. /\ pos = 0 /\ observed_block_count = 0 /\ erased = {} /\ decoded = <<>> /\ intact = TRUE
        /\ reader \in {"live", "buffer"} /\ pending = NoEnvelope /\ metadata_seen = FALSE
        /\ metadata_blocks = {} /\ status = "headers"
    BY DEF Init
  <1>4. payloads(archive) \in Nat /\ count(archive) \in Nat /\ payloads(archive) < count(archive)
    BY <1>2, Extent
  <1>5. block_count \in Nat
    <2>1. block_count = end_of(archive, count(archive))
      BY <1>2, Named
    <2>2. count(archive) \in 1 .. count(archive)
      BY <1>4
    <2> QED  BY <1>2, <2>1, <2>2, BeforeTheEnd
  <1>6. pos \in Nat /\ pos <= block_count /\ observed_block_count \in Nat
    BY <1>3, <1>5
  <1>7. DecodedWell(archive, decoded, erased) /\ turn = 1
    <2>1. decoded \in Seq(Decodeds) /\ Len(decoded) = 0
      BY <1>3
    <2>2. 1 .. Len(decoded) = {} /\ Len(decoded) <= payloads(archive) /\ turn = 1
      BY <1>4, <2>1 DEF turn
    <2> QED  BY <2>1, <2>2 DEF DecodedWell
  <1>8. Nothing(pending, turn, erased, observed_block_count)
    BY <1>3, <1>7 DEF Nothing
  <1> QED  BY <1>2, <1>3, <1>6, <1>7, <1>8 DEF Inv

\* What the reader has come to while it reads records.
LEMMA InvExpects ==
    ASSUME Inv, status = "records"
    PROVE  Expecting
  BY DEF Inv, Expecting

\* ReadRecord: a record out of place is refused, any other handled.
LEMMA RecordKeepsInv ==
    ASSUME Inv, ReadRecord
    PROVE  Inv'
  <1> DEFINE o == observed_block_count
  <1>1. /\ status = "records" /\ pos < block_count /\ pos' = pos + 1 /\ o' = o + 1
        /\ UNCHANGED <<reader, archive, faults, intact, erased>>
        /\ \/ record(pos).block_index # o /\ Fail
           \/ record(pos).block_index = o /\ HandleRecord(record(pos))
    BY DEF ReadRecord
  <1>2. /\ Sound(archive)' /\ (reader \in {"live", "buffer"})' /\ block_count' = block_count
        /\ is_live' = is_live /\ LaidOut(archive)
        /\ block_count = end_of(archive, count(archive)) /\ block_count \in Nat
    BY <1>1, SameArchive
  <1>3. /\ pos \in Nat /\ o \in Nat /\ erased \subseteq 0 .. o - 1 /\ intact \in BOOLEAN
        /\ metadata_seen \in BOOLEAN /\ DecodedWell(archive, decoded, erased)
    BY DEF Inv
  <1>4. /\ pos' \in Nat /\ pos' <= block_count /\ o' \in Nat /\ erased' \subseteq 0 .. o' - 1
        /\ intact' \in BOOLEAN
    BY <1>1, <1>2, <1>3
  <1>5. record(pos).block_index = pos
    BY DEF record
  <1>6. CASE pos # o
    <2>1. Fail
      BY <1>1, <1>5, <1>6
    <2>2. ~Tolerable'
      <3> SUFFICES ASSUME Tolerable' PROVE FALSE
        OBVIOUS
      <3>1. pos' = o'
        BY <1>1, <1>2, TolerableNext
      <3> QED  BY <1>1, <1>3, <1>6, <3>1
    <2>3. /\ status' = "failed" /\ metadata_seen' \in BOOLEAN
          /\ DecodedWell(archive', decoded', erased')
      BY <1>1, <1>3, <2>1 DEF Fail
    <2> QED  BY <1>2, <1>4, <2>2, <2>3 DEF Inv
  <1>7. CASE pos = o
    <2>1. HandleRecord(record(o)) /\ o < end_of(archive, count(archive))
      BY <1>1, <1>2, <1>5, <1>7
    <2>2. Expecting
      BY <1>1, InvExpects
    <2>3. Outcome(archive, is_live, pending', decoded', erased, o + 1,
                  metadata_seen', metadata_blocks', status')
      BY <2>1, <2>2, RecordArrives
    <2>4. metadata_seen' \in BOOLEAN /\ DecodedWell(archive', decoded', erased')
      BY <1>1, <2>3 DEF Outcome
    <2>5. CASE /\ status' = "records"
               /\ Progress(archive, is_live, pending', Len(decoded') + 1, erased, o + 1,
                           metadata_seen', metadata_blocks')
      <3>1. Progress(archive', is_live', pending', turn', erased', o', metadata_seen',
                     metadata_blocks')
        BY <1>1, <1>2, <2>5 DEF turn
      <3> QED  BY <1>2, <1>4, <2>4, <2>5, <3>1 DEF Inv
    <2>6. CASE status' = "failed" /\ Hopeless(archive, is_live, erased)
      <3>1. ~Tolerable'
        BY <1>1, <1>2, <2>6, HopelessNext DEF is_live
      <3> QED  BY <1>2, <1>4, <2>4, <2>6, <3>1 DEF Inv
    <2> QED  BY <2>3, <2>5, <2>6 DEF Outcome
  <1> QED  BY <1>6, <1>7

\* ReadErasure.
LEMMA ErasureKeepsInv ==
    ASSUME Inv, ReadErasure
    PROVE  Inv'
  <1> DEFINE o == observed_block_count
             F == erased \cup {o}
  <1>1. /\ status = "records" /\ pos < block_count /\ pos' = pos + 1 /\ o' = o + 1
        /\ erased' = F /\ UNCHANGED <<reader, archive, intact>>
        /\ LiveErasure(o) \/ BufferErasure(o)
    BY DEF ReadErasure
  <1>2. /\ Sound(archive)' /\ (reader \in {"live", "buffer"})' /\ block_count' = block_count
        /\ is_live' = is_live /\ LaidOut(archive)
        /\ block_count = end_of(archive, count(archive)) /\ block_count \in Nat
    BY <1>1, SameArchive
  <1>3. /\ pos \in Nat /\ o \in Nat /\ erased \subseteq 0 .. o - 1 /\ intact \in BOOLEAN
    BY DEF Inv
  <1>4. /\ pos' \in Nat /\ pos' <= block_count /\ o' \in Nat /\ erased' \subseteq 0 .. o' - 1
        /\ intact' \in BOOLEAN
    BY <1>1, <1>2, <1>3
  <1>5. Expecting
    BY <1>1, InvExpects
  <1>6. /\ DecodedWell(archive, decoded', F) /\ metadata_seen' \in BOOLEAN
        /\ \/ /\ status' = "records"
              /\ Progress(archive, is_live, pending', Len(decoded') + 1, F, o + 1,
                          metadata_seen', metadata_blocks')
           \/ /\ status' = "failed"
              /\ o < end_of(archive, count(archive)) => Hopeless(archive, is_live, F)
    BY <1>1, <1>5, BlockErased
  <1>7. metadata_seen' \in BOOLEAN /\ DecodedWell(archive', decoded', erased')
    BY <1>1, <1>6
  <1>8. CASE /\ status' = "records"
             /\ Progress(archive, is_live, pending', Len(decoded') + 1, F, o + 1,
                         metadata_seen', metadata_blocks')
    <2>1. Progress(archive', is_live', pending', turn', erased', o', metadata_seen',
                   metadata_blocks')
      BY <1>1, <1>2, <1>8 DEF turn
    <2> QED  BY <1>2, <1>4, <1>7, <1>8, <2>1 DEF Inv
  <1>9. CASE /\ status' = "failed"
             /\ o < end_of(archive, count(archive)) => Hopeless(archive, is_live, F)
    <2>1. ~Tolerable'
      <3> SUFFICES ASSUME Tolerable' PROVE FALSE
        OBVIOUS
      <3>1. pos' = o'
        BY <1>1, <1>2, TolerableNext
      <3>2. o < end_of(archive, count(archive))
        BY <1>1, <1>2, <1>3, <3>1
      <3>3. Hopeless(archive, reader = "live", erased')
        BY <1>1, <1>9, <3>2 DEF is_live
      <3> QED  BY <1>1, <1>2, <3>3, HopelessNext
    <2> QED  BY <1>2, <1>4, <1>7, <1>9, <2>1 DEF Inv
  <1> QED  BY <1>6, <1>8, <1>9

\* FinishPayload: an envelope pending at the tail is decoded too, but then blocks
\* are missing, and the terminal material will say so.
LEMMA FinishKeepsInv ==
    ASSUME Inv, FinishPayload
    PROVE  Inv'
  <1> DEFINE o == observed_block_count
             t == turn
  <1>1. /\ status = "tail" /\ UNCHANGED <<reader, archive, pipe, erased, observed_block_count>>
        /\ pos' = pos /\ intact' = intact
    BY DEF FinishPayload, pipe
  <1>2. /\ Sound(archive)' /\ (reader \in {"live", "buffer"})' /\ block_count' = block_count
        /\ is_live' = is_live /\ LaidOut(archive)
        /\ block_count = end_of(archive, count(archive)) /\ block_count \in Nat
        /\ 0 < block_count
    BY <1>1, SameArchive
  <1>3. /\ Sound(archive) /\ pos \in Nat /\ pos <= block_count /\ o \in Nat
        /\ erased \subseteq 0 .. o - 1 /\ intact \in BOOLEAN
        /\ metadata_seen \in BOOLEAN /\ DecodedWell(archive, decoded, erased)
        /\ intact => pos = block_count
        /\ t = Len(decoded) + 1
    BY <1>1 DEF Inv, turn
  <1>4. Progress(archive, is_live, pending, t, erased, o, metadata_seen, metadata_blocks)
    BY <1>1 DEF Inv
  <1>5. /\ pos' \in Nat /\ pos' <= block_count /\ o' \in Nat /\ erased' \subseteq 0 .. o' - 1
        /\ intact' \in BOOLEAN /\ (intact' => pos' = block_count)
    BY <1>1, <1>2, <1>3
  <1>6. CASE /\ is_empty(pending) /\ status' = "terminal"
             /\ UNCHANGED <<pending, metadata_seen, metadata_blocks, decoded>>
    <2>1. o = block_count =>
            InMetadata(archive, is_live, pending, t, erased, o, metadata_blocks)
      <3> SUFFICES ASSUME o = block_count, ~metadata_seen PROVE FALSE
        BY <1>3, <1>4 DEF Progress
      <3>1. Nothing(pending, t, erased, o)
        <4>1. Gathering(archive, pending, t, erased, o)
          BY <1>4 DEF Progress
        <4> SUFFICES ASSUME NEW n \in 0 .. shards(pending),
                            Gathered(archive, pending, t, erased, n)
                     PROVE  FALSE
          BY <4>1 DEF Gathering, Reading, Closed, Doomed
        <4> QED  BY <1>3, <1>6, NotEmpty
      <3> QED  BY <1>2, <3>1 DEF Nothing
    <2>2. terminal_is_valid' =>
            InMetadata(archive', is_live', pending', turn', erased', o', metadata_blocks')
      BY <1>1, <1>2, <1>6, <2>1 DEF terminal_is_valid, turn
    <2>3. metadata_seen' \in BOOLEAN /\ DecodedWell(archive', decoded', erased')
      BY <1>1, <1>3, <1>6
    <2> QED  BY <1>2, <1>5, <1>6, <2>2, <2>3 DEF Inv
  <1>7. ~is_empty(pending) => ~metadata_seen /\ Gathering(archive, pending, t, erased, o)
    BY <1>3, <1>4, EmptyPending DEF Progress, InMetadata, is_empty
  <1>8. CASE /\ ~is_empty(pending) /\ opens(pending)
             /\ decoded' = Append(decoded, summary(pending)) /\ status' = "terminal"
             /\ UNCHANGED <<metadata_seen, metadata_blocks>>
    <2>1. /\ t \in 1 .. payloads(archive) /\ o = end_of(archive, t)
          /\ Harmless(archive, erased, t)
          /\ summary(pending) = [first |-> obj(archive, t).first, data |-> obj(archive, t).data,
                                 parity |-> obj(archive, t).parity, content |-> t]
      BY <1>3, <1>7, <1>8, OpensClosed
    <2>2. payloads(archive) \in Nat /\ count(archive) \in Nat /\ payloads(archive) < count(archive)
      BY <1>2, Extent
    <2>3. DecodedWell(archive, decoded', erased)
      <3>1. t <= payloads(archive)
        BY <2>1, <2>2
      <3> QED  BY <1>2, <1>3, <1>8, <2>1, <3>1, OneMoreDecoded
    <2>4. o < block_count
      <3>1. t \in 1 .. count(archive) /\ t <= payloads(archive)
        BY <2>1, <2>2
      <3> QED  BY <1>2, <2>1, <3>1, BeforeTheEnd
    <2>5. ~terminal_is_valid'
      BY <1>1, <1>2, <1>3, <2>4 DEF terminal_is_valid
    <2>6. metadata_seen' \in BOOLEAN /\ DecodedWell(archive', decoded', erased')
      BY <1>1, <1>3, <1>8, <2>3
    <2> QED  BY <1>2, <1>5, <1>8, <2>5, <2>6 DEF Inv
  <1>9. CASE ~is_empty(pending) /\ Fail
    <2>1. ~Tolerable'
      <3> SUFFICES ASSUME Tolerable' PROVE FALSE
        OBVIOUS
      <3>1. intact' /\ pos' = o'
        BY <1>1, <1>2, TolerableNext
      <3>2. o = end_of(archive, count(archive))
        BY <1>1, <1>2, <1>3, <3>1
      <3>3. Hopeless(archive, is_live, erased)
        BY <1>3, <1>7, <1>9, <3>2, GatheringAtTheEnd
      <3>4. Hopeless(archive, reader = "live", erased')
        BY <1>1, <3>3 DEF is_live
      <3> QED  BY <1>1, <1>2, <3>4, HopelessNext
    <2>2. /\ status' = "failed" /\ metadata_seen' \in BOOLEAN
          /\ DecodedWell(archive', decoded', erased')
      BY <1>1, <1>3, <1>9 DEF Fail
    <2> QED  BY <1>2, <1>5, <2>1, <2>2 DEF Inv
  <1> QED  BY <1>6, <1>8, <1>9 DEF FinishPayload, Finalize

\* The first metadata object is the first of the metadata.
LEMMA MetadataBegins ==
    ASSUME NEW a, LaidOut(a), NEW k \in payloads(a) + 1 .. count(a)
    PROVE  /\ obj(a, payloads(a) + 1).first \in Nat
           /\ obj(a, payloads(a) + 1).first <= obj(a, k).first
  <1> DEFINE m == payloads(a) + 1
             f == obj(a, m).first
             g == obj(a, k).first
  <1>1. payloads(a) \in Nat /\ count(a) \in Nat /\ payloads(a) < count(a)
    BY Extent
  <1>2. k \in 1 .. count(a) /\ m \in 1 .. count(a)
    BY <1>1
  <1>3. /\ f \in Nat /\ obj(a, m).data \in Nat /\ obj(a, m).parity \in Nat /\ g \in Nat
        /\ end_of(a, m) = f + obj(a, m).data + obj(a, m).parity
    BY <1>2, Extent
  <1>4. CASE k = m
    BY <1>3, <1>4
  <1>5. CASE k # m
    <2>1. m < k
      BY <1>1, <1>5
    <2>2. end_of(a, m) <= g
      BY <1>2, <2>1 DEF LaidOut
    <2> HIDE DEF f, g
    <2>3. f <= g
      BY <1>3, <2>2
    <2> QED  BY <1>3, <2>3 DEF f, g
  <1> QED  BY <1>4, <1>5

\* An object loads from the metadata kept exactly if its parity repairs what is
\* missing.
LEMMA LoadsIfRepairable ==
    ASSUME LaidOut(archive), NEW k \in payloads(archive) + 1 .. count(archive),
           metadata_blocks = Received(archive, erased)
    PROVE  metadata_loads(obj(archive, k)) <=>
              Cardinality(Missing(archive, erased, k)) <= obj(archive, k).parity
  <1> DEFINE e == obj(archive, k)
             f == obj(archive, payloads(archive) + 1).first
             z == end_of(archive, count(archive))
             y == end_of(archive, k)
             S == e.first .. y - 1
  <1>1. payloads(archive) \in Nat /\ count(archive) \in Nat /\ payloads(archive) < count(archive)
    BY Extent
  <1>2. k \in 1 .. count(archive) /\ payloads(archive) + 1 \in 1 .. count(archive)
    BY <1>1
  <1>3. /\ e.first \in Nat /\ e.data \in Nat /\ e.parity \in Nat
        /\ y = e.first + e.data + e.parity
    BY <1>2, Extent
  <1>4. y \in Nat /\ z \in Nat /\ y <= z
    BY <1>2, BeforeTheEnd
  <1>5. f \in Nat /\ f <= e.first
    BY MetadataBegins
  <1>6. metadata_blocks \cap S = S \ erased
    <2>1. metadata_blocks = {b \in f .. z - 1 : b \notin erased}
      BY DEF Received
    <2> HIDE DEF e, f, y, z
    <2>2. S \subseteq f .. z - 1
      BY <1>3, <1>4, <1>5
    <2> HIDE DEF S
    <2> QED  BY <2>1, <2>2
  <1>7. IsFiniteSet(S) /\ Cardinality(S) = y - e.first
    <2>1. e.first <= y
      <3> HIDE DEF e, y
      <3> QED  BY <1>3
    <2> HIDE DEF e, y
    <2> QED  BY <1>3, <1>4, <2>1, GapSize
  <1>8. Cardinality(S \ erased) = Cardinality(S) - Cardinality(S \cap erased)
    BY <1>7, FS_Difference
  <1>9. Missing(archive, erased, k) = S \cap erased /\ Cardinality(S \cap erased) \in Nat
    <2>1. Missing(archive, erased, k) = S \cap erased
      BY DEF Missing
    <2>2. IsFiniteSet(S \cap erased)
      BY <1>7, FS_Subset
    <2> QED  BY <2>1, <2>2, FS_CardinalityType
  <1>10. metadata_loads(e) <=> Cardinality(metadata_blocks \cap S) >= e.data
    BY DEF metadata_loads, end_of
  <1>11. Cardinality(metadata_blocks \cap S) = (e.data + e.parity) - Cardinality(S \cap erased)
    <2>1. Cardinality(metadata_blocks \cap S) = Cardinality(S) - Cardinality(S \cap erased)
      BY <1>6, <1>8
    <2>2. Cardinality(S) = e.data + e.parity
      <3> HIDE DEF e, S
      <3> QED  BY <1>3, <1>7
    <2> QED  BY <2>1, <2>2
  <1>12. (e.data + e.parity) - Cardinality(S \cap erased) >= e.data
         <=> Cardinality(S \cap erased) <= e.parity
    <2> HIDE DEF e, S
    <2> QED  BY <1>3, <1>9
  <1> QED  BY <1>9, <1>10, <1>11, <1>12

\* Where all envelopes are decoded, the index confirms them.
LEMMA SummaryConfirmed ==
    ASSUME LaidOut(archive), DecodedWell(archive, decoded, erased)
    PROVE  summary_matches <=> Len(decoded) = payloads(archive)
  <1> DEFINE P == payloads(archive)
             V == archive.envelopes
  <1>1. DOMAIN V = 1 .. P /\ \A k \in 1 .. P : V[k] = obj(archive, k)
    BY Named
  <1>2. DOMAIN decoded = 1 .. Len(decoded) /\ Len(decoded) \in Nat /\ P \in Nat /\ Len(decoded) <= P
    BY DecodedType
  <1>3. ASSUME summary_matches PROVE Len(decoded) = P
    <2>1. \A k \in 1 .. P : k \in 1 .. Len(decoded)
      BY <1>1, <1>2, <1>3 DEF summary_matches
    <2> QED  BY <1>2, <2>1
  <1>4. ASSUME Len(decoded) = P PROVE summary_matches
    <2>1. DOMAIN decoded = DOMAIN V
      BY <1>1, <1>2, <1>4
    <2>2. \A k \in DOMAIN V : /\ k \in DOMAIN decoded /\ decoded[k].first = V[k].first
                              /\ decoded[k].data = V[k].data /\ decoded[k].parity = V[k].parity
                              /\ decoded[k].content = k
      BY <1>1, <1>4, <2>1 DEF DecodedWell
    <2>3. [k \in DOMAIN decoded |-> decoded[k].content] = [k \in DOMAIN V |-> k]
      BY <2>1, <2>2
    <2>4. data_block_sum(decoded) = data_block_sum(V)
      <3>1. [k \in DOMAIN decoded |-> decoded[k].data] = [k \in DOMAIN V |-> V[k].data]
        BY <2>1, <2>2
      <3>2. Len(decoded) = Len(V)
        BY <1>4 DEF payloads
      <3> QED  BY <3>1, <3>2, Zenon DEF data_block_sum
    <2> QED  BY <2>2, <2>3, <2>4 DEF summary_matches
  <1> QED  BY <1>3, <1>4

\* CheckIndex accepts exactly what is tolerable.
LEMMA IndexDecides ==
    ASSUME Inv, status = "index"
    PROVE  /\ Tolerable <=>
                /\ \A k \in DOMAIN archive.metadata : metadata_loads(archive.metadata[k])
                /\ summary_matches
           /\ Tolerable => Len(decoded) = payloads(archive)
  <1> DEFINE o == observed_block_count
             t == turn
             a == archive
  <1>1. /\ Sound(a) /\ LaidOut(a) /\ is_live /\ intact /\ o = block_count /\ pos = block_count
        /\ DecodedWell(a, decoded, erased) /\ t = Len(decoded) + 1
        /\ InMetadata(a, is_live, pending, t, erased, o, metadata_blocks)
    BY DEF Inv, Sound, terminal_is_valid, turn
  <1>2. /\ payloads(a) \in Nat /\ count(a) \in Nat /\ payloads(a) < count(a)
        /\ Len(decoded) \in Nat /\ Len(decoded) <= payloads(a)
    BY <1>1, DecodedType
  <1>3. Tolerable <=>
          /\ \A k \in 1 .. payloads(a) : Harmless(a, erased, k)
          /\ \A k \in payloads(a) + 1 .. count(a) : Loadable(a, is_live, erased, k)
          /\ is_live => Cardinality(Received(a, erased)) <= RetainedCap
    BY <1>1, TolerableIs DEF is_live
  <1>4. summary_matches <=> Len(decoded) = payloads(a)
    BY <1>1, SummaryConfirmed
  <1>5. CASE Misled(a, is_live, t, erased)
    <2>1. Hopeless(a, is_live, erased)
      BY <1>1, <1>5, MisledIsHopeless
    <2>2. ~Tolerable
      BY <1>3, <2>1, Zenon DEF Hopeless
    <2>3. Len(decoded) # payloads(a)
      BY <1>1, <1>2, <1>5 DEF Misled
    <2> QED  BY <1>4, <2>2, <2>3
  <1>6. CASE Kept(a, is_live, t, erased, o, metadata_blocks)
    <2>1. /\ t = payloads(a) + 1 /\ Cardinality(metadata_blocks) <= RetainedCap
          /\ metadata_blocks = {b \in obj(a, t).first .. o - 1 : b \notin erased}
          /\ payloads(a) = 0 => 0 \notin erased
      BY <1>1, <1>6 DEF Kept
    <2>2. Len(decoded) = payloads(a)
      BY <1>1, <1>2, <2>1
    <2>3. metadata_blocks = Received(a, erased)
      <3>1. block_count = end_of(a, count(a))
        BY <1>1, Named
      <3> QED  BY <1>1, <2>1, <3>1 DEF Received
    <2>4. \A k \in 1 .. payloads(a) : Harmless(a, erased, k)
      BY <1>1, <2>2 DEF DecodedWell
    <2>5. ASSUME NEW k \in payloads(a) + 1 .. count(a)
          PROVE  Loadable(a, is_live, erased, k) <=> metadata_loads(obj(a, k))
      <3>1. metadata_loads(obj(a, k)) <=> Cardinality(Missing(a, erased, k)) <= obj(a, k).parity
        BY <1>1, <2>3, LoadsIfRepairable
      <3>2. Missing(a, erased, k) = {} => Cardinality(Missing(a, erased, k)) <= obj(a, k).parity
        <4>1. k \in 1 .. count(a)
          BY <1>2
        <4>2. obj(a, k).parity \in Nat
          BY <1>1, <4>1, Extent
        <4> QED  BY <4>2, FS_EmptySet
      <3>3. payloads(a) > 0 \/ 0 \notin erased
        BY <1>2, <2>1
      <3> QED  BY <1>1, <3>1, <3>2, <3>3 DEF Loadable
    <2>6. (\A k \in DOMAIN a.metadata : metadata_loads(a.metadata[k]))
          <=> \A k \in payloads(a) + 1 .. count(a) : metadata_loads(obj(a, k))
      <3>1. /\ DOMAIN a.metadata = 1 .. count(a) - payloads(a)
            /\ \A k \in DOMAIN a.metadata : a.metadata[k] = obj(a, payloads(a) + k)
        BY <1>1, Named
      <3>2. ASSUME NEW k \in payloads(a) + 1 .. count(a)
            PROVE  k - payloads(a) \in DOMAIN a.metadata /\ payloads(a) + (k - payloads(a)) = k
        BY <1>2, <3>1
      <3>3. ASSUME NEW k \in DOMAIN a.metadata
            PROVE  payloads(a) + k \in payloads(a) + 1 .. count(a)
        BY <1>2, <3>1
      <3> QED  BY <3>1, <3>2, <3>3
    <2> QED  BY <1>3, <1>4, <2>1, <2>2, <2>3, <2>4, <2>5, <2>6
  <1> QED  BY <1>1, <1>5, <1>6 DEF InMetadata

\* What is tolerable depends on the pipe's damage alone.
LEMMA TolerableKept ==
    ASSUME UNCHANGED <<reader, archive, pos, intact, erased, observed_block_count>>
    PROVE  Tolerable' <=> Tolerable
  BY DEF Tolerable, EnvelopeTolerable, MetadataTolerable, erased_in, metadata_received,
         block_count, objects

\* Where the stream is not intact, nothing is tolerable.
LEMMA NotIntact ==
    ASSUME ~intact
    PROVE  ~Tolerable
  BY DEF Tolerable

\* CheckTerminal: the whole-buffer reader is done if all blocks are there.
LEMMA TerminalKeepsInv ==
    ASSUME Inv, CheckTerminal
    PROVE  Inv'
  <1> DEFINE o == observed_block_count
             t == turn
             a == archive
  <1>1. /\ status = "terminal"
        /\ status' = IF ~terminal_is_valid THEN "failed"
                     ELSE IF reader = "buffer" THEN "succeeded" ELSE "index"
        /\ UNCHANGED <<reader, archive, pos, intact, erased, observed_block_count, pending,
                       metadata_seen, metadata_blocks, decoded>>
    BY DEF CheckTerminal, pipe
  <1>2. /\ Sound(a)' /\ (reader \in {"live", "buffer"})' /\ block_count' = block_count
        /\ is_live' = is_live /\ LaidOut(a) /\ block_count = end_of(a, count(a))
    BY <1>1, SameArchive
  <1>3. /\ pos \in Nat /\ pos <= block_count /\ o \in Nat /\ erased \subseteq 0 .. o - 1
        /\ metadata_seen \in BOOLEAN /\ intact \in BOOLEAN /\ DecodedWell(a, decoded, erased)
        /\ reader \in {"live", "buffer"}
    BY DEF Inv
  <1>4. /\ (pos \in Nat)' /\ (pos <= block_count)' /\ (o \in Nat)' /\ (erased \subseteq 0 .. o - 1)'
        /\ (metadata_seen \in BOOLEAN)' /\ (intact \in BOOLEAN)' /\ DecodedWell(a, decoded, erased)'
    BY <1>1, <1>2, <1>3
  <1>5. Tolerable' <=> Tolerable
    BY <1>1, TolerableKept
  <1>6. CASE ~terminal_is_valid
    <2>1. status' = "failed"
      BY <1>1, <1>6
    <2>2. ~Tolerable
      BY <1>1, <1>6 DEF Inv, Tolerable, terminal_is_valid
    <2> QED  BY <1>2, <1>4, <1>5, <2>1, <2>2 DEF Inv
  <1>7. CASE terminal_is_valid
    <2>1. InMetadata(a, is_live, pending, t, erased, o, metadata_blocks)
      BY <1>1, <1>7 DEF Inv
    <2>2. intact /\ o = block_count /\ pos = block_count
      BY <1>1, <1>7 DEF Inv, terminal_is_valid
    <2>3. CASE is_live
      <3>1. status' = "index"
        BY <1>1, <1>7, <2>3 DEF is_live
      <3>2. terminal_is_valid' /\ pos' = block_count'
        BY <1>1, <1>2, <2>2 DEF terminal_is_valid
      <3>3. InMetadata(a, is_live, pending, t, erased, o, metadata_blocks)'
        BY <1>1, <1>2, <2>1 DEF turn
      <3> QED  BY <1>2, <1>4, <2>3, <3>1, <3>2, <3>3 DEF Inv
    <2>4. CASE ~is_live
      <3>1. status' = "succeeded"
        BY <1>1, <1>3, <1>7, <2>4 DEF is_live
      <3>2. t = payloads(a) + 1 /\ \A b \in erased : b < obj(a, t).first
        BY <2>1, <2>4 DEF InMetadata, Kept, Misled
      <3>3. Len(decoded) = payloads(a)
        <4>1. Len(decoded) \in Nat /\ payloads(a) \in Nat
          BY <1>2, <1>3, DecodedType
        <4> QED  BY <3>2, <4>1 DEF turn
      <3>4. \A k \in 1 .. payloads(a) : Harmless(a, erased, k)
        BY <1>3, <3>3 DEF DecodedWell
      <3>5. ASSUME NEW k \in payloads(a) + 1 .. count(a)
            PROVE  Loadable(a, is_live, erased, k)
        <4>1. obj(a, t).first \in Nat /\ obj(a, t).first <= obj(a, k).first
          BY <1>2, <3>2, MetadataBegins
        <4>2. obj(a, k).first \in Nat
          <5>1. payloads(a) \in Nat
            BY <1>2, Extent
          <5>2. k \in 1 .. count(a)
            BY <1>2, <5>1, Extent
          <5> QED  BY <1>2, <5>2, Extent
        <4>3. Missing(a, erased, k) = {}
          BY <1>3, <3>2, <4>1, <4>2 DEF Missing
        <4> QED  BY <4>3 DEF Loadable
      <3>6. Tolerable
        BY <1>2, <2>2, <2>4, <3>4, <3>5, TolerableIs DEF is_live
      <3>7. Len(decoded') = payloads(archive')
        BY <1>1, <3>3
      <3> QED  BY <1>2, <1>4, <1>5, <3>1, <3>6, <3>7 DEF Inv
    <2> QED  BY <2>3, <2>4
  <1> QED  BY <1>6, <1>7

\* CheckIndex.
LEMMA IndexKeepsInv ==
    ASSUME Inv, CheckIndex
    PROVE  Inv'
  <1> DEFINE o == observed_block_count
             a == archive
  <1>1. /\ status = "index"
        /\ status' = IF /\ \A k \in DOMAIN a.metadata : metadata_loads(a.metadata[k])
                        /\ summary_matches
                     THEN "succeeded" ELSE "failed"
        /\ UNCHANGED <<reader, archive, pos, intact, erased, observed_block_count, pending,
                       metadata_seen, metadata_blocks, decoded>>
    BY DEF CheckIndex, pipe
  <1>2. /\ Sound(a)' /\ (reader \in {"live", "buffer"})' /\ block_count' = block_count
    BY <1>1, SameArchive
  <1>3. /\ (pos \in Nat)' /\ (pos <= block_count)' /\ (o \in Nat)' /\ (erased \subseteq 0 .. o - 1)'
        /\ (metadata_seen \in BOOLEAN)' /\ (intact \in BOOLEAN)' /\ DecodedWell(a, decoded, erased)'
    BY <1>1, <1>2 DEF Inv
  <1>4. Tolerable' <=> Tolerable
    BY <1>1, TolerableKept
  <1>5. /\ status' = IF Tolerable THEN "succeeded" ELSE "failed"
        /\ Tolerable => Len(decoded) = payloads(a)
    BY <1>1, IndexDecides
  <1>6. Len(decoded') = Len(decoded) /\ payloads(archive') = payloads(a)
    BY <1>1
  <1> QED  BY <1>2, <1>3, <1>4, <1>5, <1>6 DEF Inv

\* The steps that only say how the stream goes on.
LEMMA StreamKeepsInv ==
    ASSUME Inv, ReadHeaders \/ ReachTail \/ ReadBadMagic \/ StreamEnds
    PROVE  Inv'
  <1> DEFINE o == observed_block_count
             a == archive
  <1>1. UNCHANGED <<reader, archive, pos, erased, observed_block_count, pending,
                    metadata_seen, metadata_blocks, decoded>>
    BY DEF ReadHeaders, ReachTail, ReadBadMagic, StreamEnds, Fail
  <1>2. /\ Sound(a)' /\ (reader \in {"live", "buffer"})' /\ block_count' = block_count
        /\ is_live' = is_live
    BY <1>1, SameArchive
  <1>3. /\ (pos \in Nat)' /\ (pos <= block_count)' /\ (o \in Nat)' /\ (erased \subseteq 0 .. o - 1)'
        /\ (metadata_seen \in BOOLEAN)' /\ DecodedWell(a, decoded, erased)'
    BY <1>1, <1>2 DEF Inv
  <1>4. intact \in BOOLEAN
    BY DEF Inv
  <1>5. CASE status' = "failed" /\ intact' = FALSE
    <2>1. ~Tolerable'
      BY <1>5 DEF Tolerable
    <2> QED  BY <1>2, <1>3, <1>5, <2>1 DEF Inv
  <1>6. CASE status = "headers" /\ status' = "records" /\ intact' = intact
    <2>1. /\ ~metadata_seen /\ metadata_blocks = {}
          /\ Nothing(pending, turn, erased, o)
      BY <1>6 DEF Inv
    <2>2. Gathering(a, pending, turn, erased, o)
      BY <2>1 DEF Gathering
    <2>3. Progress(a, is_live, pending, turn, erased, o, metadata_seen, metadata_blocks)
      BY <2>1, <2>2 DEF Progress
    <2>4. Progress(a, is_live, pending, turn, erased, o, metadata_seen, metadata_blocks)'
      BY <1>1, <1>2, <2>3 DEF turn
    <2> QED  BY <1>2, <1>3, <1>4, <1>6, <2>4 DEF Inv
  <1>7. CASE /\ status = "records" /\ status' = "tail" /\ intact' \in BOOLEAN
             /\ intact' => pos' = block_count'
    <2>1. Progress(a, is_live, pending, turn, erased, o, metadata_seen, metadata_blocks)
      BY <1>7 DEF Inv
    <2>2. Progress(a, is_live, pending, turn, erased, o, metadata_seen, metadata_blocks)'
      BY <1>1, <1>2, <2>1 DEF turn
    <2> QED  BY <1>2, <1>3, <1>7, <2>2 DEF Inv
  <1>8. ReadHeaders => \/ status' = "failed" /\ intact' = FALSE
                       \/ status = "headers" /\ status' = "records" /\ intact' = intact
    BY DEF ReadHeaders
  <1>9. StreamEnds => status' = "failed" /\ intact' = FALSE
    BY DEF StreamEnds, Fail
  <1>10. ReachTail \/ ReadBadMagic =>
           /\ status = "records" /\ status' = "tail" /\ intact' \in BOOLEAN
           /\ intact' => pos' = block_count'
    BY <1>1, <1>2, <1>4 DEF ReachTail, ReadBadMagic
  <1> QED  BY <1>5, <1>6, <1>7, <1>8, <1>9, <1>10

\* A record is lost on the way, or comes twice.
LEMMA SlipKeepsInv ==
    ASSUME Inv, PipeSlips
    PROVE  Inv'
  <1> DEFINE o == observed_block_count
             a == archive
  <1>1. /\ status = "records"
        /\ (pos < block_count /\ pos' = pos + 1) \/ (pos > 0 /\ pos' = pos - 1)
        /\ UNCHANGED <<reader, archive, intact, erased, observed_block_count,
                       pending, metadata_seen, metadata_blocks, decoded, status>>
    BY DEF PipeSlips
  <1>2. /\ Sound(a)' /\ (reader \in {"live", "buffer"})' /\ block_count' = block_count
        /\ is_live' = is_live /\ block_count \in Nat
    BY <1>1, SameArchive
  <1>3. pos \in Nat /\ pos <= block_count
    BY DEF Inv
  <1>4. pos' \in Nat /\ pos' <= block_count'
    BY <1>1, <1>2, <1>3
  <1>5. /\ (o \in Nat)' /\ (erased \subseteq 0 .. o - 1)' /\ (intact \in BOOLEAN)'
        /\ (metadata_seen \in BOOLEAN)' /\ DecodedWell(a, decoded, erased)'
    BY <1>1, <1>2 DEF Inv
  <1>6. Progress(a, is_live, pending, turn, erased, o, metadata_seen, metadata_blocks)
    BY <1>1 DEF Inv
  <1>7. Progress(a, is_live, pending, turn, erased, o, metadata_seen, metadata_blocks)'
    BY <1>1, <1>2, <1>6 DEF turn
  <1> QED  BY <1>1, <1>2, <1>4, <1>5, <1>7 DEF Inv

\* Nothing changes.
LEMMA StutterKeepsInv ==
    ASSUME Inv, UNCHANGED vars
    PROVE  Inv'
  <1>1. UNCHANGED <<reader, archive, pos, intact, erased, observed_block_count, pending,
                    metadata_seen, metadata_blocks, decoded, status>>
    BY DEF vars
  <1>2. Tolerable' <=> Tolerable
    BY <1>1, TolerableKept
  <1>3. block_count' = block_count /\ is_live' = is_live /\ turn' = turn
        /\ (terminal_is_valid' <=> terminal_is_valid)
    BY <1>1 DEF block_count, objects, is_live, turn, terminal_is_valid
  <1> QED  BY <1>1, <1>2, <1>3 DEF Inv

\* Every step keeps it.
LEMMA InvNext ==
    ASSUME Inv, [Next]_vars
    PROVE  Inv'
  <1>1. CASE ReadHeaders \/ ReachTail \/ ReadBadMagic \/ StreamEnds
    BY <1>1, StreamKeepsInv
  <1>2. CASE ReadRecord
    BY <1>2, RecordKeepsInv
  <1>3. CASE ReadErasure
    BY <1>3, ErasureKeepsInv
  <1>4. CASE FinishPayload
    BY <1>4, FinishKeepsInv
  <1>5. CASE CheckTerminal
    BY <1>5, TerminalKeepsInv
  <1>6. CASE CheckIndex
    BY <1>6, IndexKeepsInv
  <1>7. CASE PipeSlips
    BY <1>7, SlipKeepsInv
  <1>8. CASE Finished \/ UNCHANGED vars
    BY <1>8, StutterKeepsInv DEF Finished
  <1> QED  BY <1>1, <1>2, <1>3, <1>4, <1>5, <1>6, <1>7, <1>8 DEF Next

-----------------------------------------------------------------------------
(***************************************************************************)
(* The theorems                                                            *)
(***************************************************************************)

\* At every moment the reader knows where it is: what it decoded was written, what
\* is pending is an envelope with a gap at its end or a doomed one, and the
\* metadata it keeps is what arrived.
THEOREM ReaderInvariant == Spec => []Inv
  <1>1. Init => Inv
    BY InvInit
  <1>2. Inv /\ [Next]_vars => Inv'
    BY InvNext
  <1> QED  BY <1>1, <1>2, PTL DEF Spec

\* finalize_live_envelope never decodes anything but the next envelope written,
\* whatever records the pipe loses, repeats or damages, encrypted or not.
THEOREM DecodesThePrefix == Spec => []DecodedIsPrefix
  <1>1. Inv => DecodedIsPrefix
    <2> SUFFICES ASSUME Inv PROVE DecodedIsPrefix
      OBVIOUS
    <2>1. LaidOut(archive) /\ DecodedWell(archive, decoded, erased)
      BY DEF Inv, Sound
    <2>2. /\ DOMAIN decoded = 1 .. Len(decoded) /\ Len(decoded) \in Nat
          /\ Len(decoded) <= payloads(archive) /\ payloads(archive) \in Nat
      BY <2>1, DecodedType
    <2>3. \A k \in 1 .. payloads(archive) : archive.envelopes[k] = obj(archive, k)
      BY <2>1, Named
    <2>4. ASSUME NEW k \in DOMAIN decoded
          PROVE  /\ decoded[k].content = k
                 /\ decoded[k].first = archive.envelopes[k].first
                 /\ decoded[k].data = archive.envelopes[k].data
      <3>1. k \in 1 .. Len(decoded) /\ k \in 1 .. payloads(archive)
        BY <2>2
      <3>2. decoded[k] = [first |-> obj(archive, k).first, data |-> obj(archive, k).data,
                          parity |-> obj(archive, k).parity, content |-> k]
        BY <2>1, <3>1 DEF DecodedWell
      <3> QED  BY <2>3, <3>1, <3>2
    <2> QED  BY <2>2, <2>4 DEF DecodedIsPrefix, payloads
  <1> QED  BY <1>1, ReaderInvariant, PTL

\* A reader that reports success has decoded every envelope of the archive.
THEOREM SuccessMeansAll == Spec => []SuccessIsComplete
  <1>1. Inv => SuccessIsComplete
    BY DEF Inv, SuccessIsComplete, payloads
  <1> QED  BY <1>1, ReaderInvariant, PTL

\* Either reader accepts a stream exactly if the damage to it is tolerable.
THEOREM AcceptsExactlyTheTolerable == Spec => []AcceptsTheTolerable
  <1>1. Inv => AcceptsTheTolerable
    BY DEF Inv, AcceptsTheTolerable, Ended
  <1> QED  BY <1>1, ReaderInvariant, PTL
=============================================================================
