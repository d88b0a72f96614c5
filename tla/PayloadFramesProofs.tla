------------------------- MODULE PayloadFramesProofs -------------------------
(***************************************************************************)
(* What packing a frame and sealing an envelope do to an index, for any    *)
(* frames, objects and options, and what compute_parity returns: the       *)
(* lemmas that the proofs about the two sequential writers, the survival   *)
(* of an archive and the non-seekable reader share.                        *)
(***************************************************************************)
EXTENDS PayloadFrames, SequenceTheorems, FiniteSetTheorems, WellFoundedInduction, TLAPS

Envelopes == [index : Nat, plaintext : Seq(Nat), len : Nat]

\* A plaintext is the frames recorded for envelope k, in order.
HoldsFramesOf(fs, p, k) ==
    /\ \A i \in 2 .. Len(p) : p[i] = p[i - 1] + 1
    /\ {p[i] : i \in DOMAIN p} = {fs[i].frame : i \in frames_in(fs, k)}

\* The envelope being filled follows the last recorded frame.
Filling(fs, e) ==
    /\ \A i \in 1 .. Len(fs) : fs[i].envelope <= e.index
    /\ e.plaintext = <<>> =>
          /\ e.len = 0
          /\ \A i \in 1 .. Len(fs) : fs[i].envelope < e.index
          /\ fs = <<>> => e.index = 0
          /\ fs # <<>> => fs[Len(fs)].envelope = e.index - 1
    /\ e.plaintext # <<>> =>
          /\ fs # <<>>
          /\ fs[Len(fs)].envelope = e.index
          /\ fs[Len(fs)].offset + fs[Len(fs)].len = e.len
          /\ e.plaintext[Len(e.plaintext)] = Len(fs) - 1
    /\ HoldsFramesOf(fs, e.plaintext, e.index)

\* The frames recorded, the objects recorded and the envelope being filled
\* belong together.
PackedSoFar(o, fs, os, e) ==
    /\ fs \in Seq(PayloadFrameRecords) /\ os \in Seq(PayloadObjects) /\ e \in Envelopes
    /\ e.index = Len(os)
    /\ \A i \in 1 .. Len(fs) : fs[i].frame = i - 1
    /\ Filling(fs, e)
    /\ e.plaintext # <<>> => payload_object_can_fit(o, e.len)
    /\ TilesEnvelopes(fs, os)

-----------------------------------------------------------------------------
(***************************************************************************)
(* Numbers and sequences                                                   *)
(***************************************************************************)

\* A set of numbers that is not empty has a least element.
LEMMA LeastNumber ==
    ASSUME NEW T, T \subseteq Nat, T # {}
    PROVE  \E x \in T : \A y \in T : x <= y
  <1>1. IsWellFoundedOn(OpToRel(<, Nat), Nat)
    BY NatLessThanWellFounded
  <1>2. PICK x \in T : \A y \in T : ~(<<y, x>> \in OpToRel(<, Nat))
    BY <1>1, WFMin
  <1>3. \A y \in T : ~(y < x)
    BY <1>2 DEF OpToRel
  <1> QED  BY <1>3

\* A sequence with one more element.
LEMMA AppendedTo ==
    ASSUME NEW S, NEW s \in Seq(S), NEW x \in S
    PROVE  /\ Len(s) \in Nat /\ DOMAIN s = 1 .. Len(s)
           /\ Append(s, x) \in Seq(S) /\ Append(s, x) # <<>>
           /\ Len(Append(s, x)) = Len(s) + 1
           /\ DOMAIN Append(s, x) = 1 .. Len(s) + 1
           /\ \A i \in 1 .. Len(s) : Append(s, x)[i] = s[i]
           /\ Append(s, x)[Len(s) + 1] = x
  BY AppendProperties, LenProperties

-----------------------------------------------------------------------------
(***************************************************************************)
(* Arithmetic                                                              *)
(***************************************************************************)

\* Division with remainder.
LEMMA DivMod ==
    ASSUME NEW n \in Int, NEW d \in Nat \ {0}
    PROVE  n = d * (n \div d) + (n % d) /\ n % d \in 0 .. d - 1 /\ n \div d \in Int
  OBVIOUS

\* Rounding up gives a number, at least n divided by d.
LEMMA CeilDiv ==
    ASSUME NEW n \in Nat, NEW d \in Nat \ {0}
    PROVE  ceil_div(n, d) \in Nat /\ n <= d * ceil_div(n, d)
  <1>1. n + d - 1 \in Nat
    OBVIOUS
  <1>2. (n + d - 1) \div d \in Nat
    BY <1>1
  <1>3. n + d - 1 = d * ((n + d - 1) \div d) + ((n + d - 1) % d)
        /\ (n + d - 1) % d \in 0 .. d - 1
    BY <1>1, DivMod
  <1> QED  BY <1>2, <1>3 DEF ceil_div

\* Multiplication is monotone.
LEMMA TimesMonotone ==
    ASSUME NEW a \in Nat, NEW b \in Nat, NEW c \in Nat, a <= b
    PROVE  a * c <= b * c
  OBVIOUS

\* n numbers from a on.
LEMMA IntervalSize ==
    ASSUME NEW a \in Nat, NEW n \in Nat
    PROVE  /\ IsFiniteSet(a .. a + n - 1) /\ Cardinality(a .. a + n - 1) = n
           /\ IsFiniteSet(0 .. n - 1)
  <1> DEFINE b == a + n - 1
  <1>1. a \in Int /\ 0 \in Int /\ b \in Int /\ n - 1 \in Int
    OBVIOUS
  <1>2. IsFiniteSet(a .. b) /\ Cardinality(a .. b) = IF a > b THEN 0 ELSE b - a + 1
    <2> HIDE DEF b
    <2> QED  BY <1>1, FS_Interval
  <1>3. IsFiniteSet(0 .. n - 1)
    BY <1>1, FS_Interval, Zenon
  <1> QED  BY <1>2, <1>3

-----------------------------------------------------------------------------
(***************************************************************************)
(* Parity                                                                  *)
(***************************************************************************)

\* What the arithmetic uses of the options of an archive.
GoodOptions(o) ==
    /\ o.block_size \in Nat \ {0} /\ o.tag_len \in Nat
    /\ o.stripe_width \in Nat \ {0}
    /\ o.volume_loss_tolerance \in Nat
    /\ o.bit_rot_buffer_pct \in Nat
    /\ o.word_max \in Nat

\* The loss of the tolerated volumes and the rot of the tolerated blocks, for an
\* object of d data and p parity blocks.
budget(o, d, p) ==
    o.volume_loss_tolerance * ceil_div(d + p, o.stripe_width)
      + ceil_div((d + p) * o.bit_rot_buffer_pct, 100)

\* The two parts of the budget are numbers.
LEMMA BudgetType ==
    ASSUME NEW o, GoodOptions(o), NEW d \in Nat, NEW p \in Nat
    PROVE  /\ ceil_div(d + p, o.stripe_width) \in Nat
           /\ ceil_div((d + p) * o.bit_rot_buffer_pct, 100) \in Nat
           /\ o.volume_loss_tolerance * ceil_div(d + p, o.stripe_width) \in Nat
           /\ budget(o, d, p) \in Nat
  <1>1. d + p \in Nat /\ (d + p) * o.bit_rot_buffer_pct \in Nat /\ 100 \in Nat \ {0}
    BY DEF GoodOptions
  <1>2. o.stripe_width \in Nat \ {0} /\ o.volume_loss_tolerance \in Nat
    BY DEF GoodOptions
  <1>3. ceil_div(d + p, o.stripe_width) \in Nat
    BY <1>1, <1>2, CeilDiv
  <1>4. ceil_div((d + p) * o.bit_rot_buffer_pct, 100) \in Nat
    BY <1>1, CeilDiv
  <1> QED  BY <1>2, <1>3, <1>4 DEF budget

\* A parity that asks for nothing more than itself covers the budget.
LEMMA FixedPointCovers ==
    ASSUME NEW o, GoodOptions(o), NEW d \in Nat, NEW p \in Nat, parity_step(o, d, p) = p
    PROVE  budget(o, d, p) <= p
  <1>1. budget(o, d, p) \in Nat
    BY BudgetType
  <1>2. p # NoPlan
    BY DEF NoPlan
  <1>3. \E floor \in Nat : p = IF budget(o, d, p) > floor THEN budget(o, d, p) ELSE floor
    BY <1>2 DEF parity_step, budget
  <1> QED  BY <1>1, <1>3

\* compute_parity returns such a parity or an error.
LEMMA ComputedParity ==
    ASSUME NEW o, NEW d, compute_parity(o, d) # NoPlan
    PROVE  /\ compute_parity(o, d) \in Nat
           /\ parity_step(o, d, compute_parity(o, d)) = compute_parity(o, d)
  BY DEF compute_parity, tested_guess

\* A turn of the loop, given the guesses g before turn i.
guess_next(o, d, g, i) ==
    IF i = 0 THEN 0
    ELSE IF g[i - 1] = NoPlan THEN NoPlan ELSE parity_step(o, d, g[i - 1])

\* The guesses of the loop's first n turns.
guesses_to(o, d, g, n) == g = [i \in 0 .. n |-> guess_next(o, d, g, i)]

\* The loop can be run for any number of turns: were n the least number of
\* turns it cannot be run for, one turn more than n - 1 would do.
LEMMA GuessesExist ==
    ASSUME NEW o, NEW d, NEW n \in Nat
    PROVE  \E g : guesses_to(o, d, g, n)
  <1> DEFINE T == {k \in Nat : ~ \E g : guesses_to(o, d, g, k)}
  <1>1. SUFFICES ASSUME T # {} PROVE FALSE
    OBVIOUS
  <1>2. PICK m \in T : \A k \in T : m <= k
    <2>1. T \subseteq Nat
      OBVIOUS
    <2> HIDE DEF T
    <2> QED  BY <1>1, <2>1, LeastNumber
  <1>3. m \in Nat /\ ~ \E g : guesses_to(o, d, g, m)
    OBVIOUS
  <1>4. CASE m = 0
    <2> DEFINE h == [i \in 0 .. 0 |-> 0]
    <2>1. h = [i \in 0 .. 0 |-> guess_next(o, d, h, i)]
      BY DEF guess_next
    <2> QED  BY <1>3, <1>4, <2>1 DEF guesses_to
  <1>5. CASE m # 0
    <2>1. m - 1 \in Nat /\ m - 1 \notin T
      BY <1>2, <1>3, <1>5
    <2>2. PICK g : guesses_to(o, d, g, m - 1)
      BY <2>1
    <2>3. \A i \in 0 .. m - 1 : g[i] = guess_next(o, d, g, i)
      BY <2>2 DEF guesses_to
    <2> DEFINE h == [i \in 0 .. m |-> IF i = m THEN guess_next(o, d, g, m) ELSE g[i]]
    <2>4. \A i \in 0 .. m : h[i] = guess_next(o, d, h, i)
      <3> TAKE i \in 0 .. m
      <3>1. i = 0 \/ (i - 1 \in 0 .. m - 1 /\ h[i - 1] = g[i - 1])
        BY <1>3
      <3>2. guess_next(o, d, h, i) = guess_next(o, d, g, i)
        BY <3>1 DEF guess_next
      <3> QED  BY <1>3, <2>3, <3>2
    <2>5. h = [i \in 0 .. m |-> h[i]]
      OBVIOUS
    <2>6. h = [i \in 0 .. m |-> guess_next(o, d, h, i)]
      <3> HIDE DEF h
      <3> QED  BY <2>4, <2>5
    <2>7. guesses_to(o, d, h, m)
      <3> HIDE DEF h
      <3> QED  BY <2>6 DEF guesses_to
    <2> QED  BY <1>3, <2>7
  <1> QED  BY <1>4, <1>5

\* What the loop's guesses are, turn by turn.
LEMMA Guesses ==
    ASSUME NEW o, NEW d
    PROVE  \A i \in 0 .. ParityIterations :
               parity_guesses(o, d)[i] = guess_next(o, d, parity_guesses(o, d), i)
  <1>1. parity_guesses(o, d) = CHOOSE g : guesses_to(o, d, g, ParityIterations)
    BY DEF parity_guesses, guess_next, guesses_to
  <1>2. \E g : guesses_to(o, d, g, ParityIterations)
    <2>1. ParityIterations \in Nat
      BY DEF ParityIterations
    <2> QED  BY <2>1, GuessesExist
  <1>3. guesses_to(o, d, parity_guesses(o, d), ParityIterations)
    BY <1>1, <1>2
  <1> QED  BY <1>3 DEF guesses_to

\* A larger dividend has no smaller quotient.
LEMMA CeilDivMonotone ==
    ASSUME NEW a \in Nat, NEW b \in Nat, a <= b, NEW w \in Nat \ {0}
    PROVE  ceil_div(a, w) <= ceil_div(b, w)
  <1> DEFINE m == a + w - 1
             n == b + w - 1
  <1>1. m \in Nat /\ n \in Nat /\ m <= n
    OBVIOUS
  <1>2. m \div w \in Nat /\ n \div w \in Nat
    <2> HIDE DEF m, n
    <2> QED  BY <1>1
  <1>3. /\ m = w * (m \div w) + (m % w) /\ m % w \in 0 .. w - 1
        /\ n = w * (n \div w) + (n % w) /\ n % w \in 0 .. w - 1
    <2> HIDE DEF m, n
    <2> QED  BY <1>1, DivMod
  <1>4. SUFFICES ASSUME n \div w + 1 <= m \div w PROVE FALSE
    BY <1>2 DEF ceil_div
  <1>5. w * (n \div w + 1) <= w * (m \div w)
    <2> HIDE DEF m, n
    <2> QED  BY <1>2, <1>4, TimesMonotone
  <1>6. w * (n \div w + 1) = w * (n \div w) + w
    <2> HIDE DEF m, n
    <2> QED  BY <1>2
  <1>7. w * (n \div w) \in Nat /\ w * (m \div w) \in Nat
    <2> HIDE DEF m, n
    <2> QED  BY <1>2
  <1> HIDE DEF m, n
  <1> QED  BY <1>1, <1>3, <1>5, <1>6, <1>7

\* A larger guess asks for no less parity.
LEMMA StepMonotone ==
    ASSUME NEW o, GoodOptions(o), NEW d \in Nat, NEW p \in Nat, NEW q \in Nat, p <= q,
           parity_step(o, d, q) # NoPlan
    PROVE  /\ parity_step(o, d, p) \in Nat
           /\ parity_step(o, d, q) \in Nat
           /\ parity_step(o, d, p) <= parity_step(o, d, q)
  <1> DEFINE v(x) == o.volume_loss_tolerance * ceil_div(d + x, o.stripe_width)
             r(x) == ceil_div((d + x) * o.bit_rot_buffer_pct, 100)
             f    == IF o.volume_loss_tolerance > 0 \/ o.bit_rot_buffer_pct > 0 THEN 1 ELSE 0
             t(x) == (d + x) * o.bit_rot_buffer_pct
  <1>1. \A x \in {p, q} : v(x) \in Nat /\ r(x) \in Nat
    BY BudgetType
  <1>2. t(p) \in Nat /\ t(q) \in Nat /\ t(p) <= t(q)
    <2>1. d + p \in Nat /\ d + q \in Nat /\ d + p <= d + q /\ o.bit_rot_buffer_pct \in Nat
      BY DEF GoodOptions
    <2>2. o.bit_rot_buffer_pct * (d + p) <= o.bit_rot_buffer_pct * (d + q)
      BY <2>1, TimesMonotone
    <2> QED  BY <2>1, <2>2
  <1>3. r(p) <= r(q)
    <2>1. 100 \in Nat \ {0}
      OBVIOUS
    <2> HIDE DEF t
    <2>2. ceil_div(t(p), 100) <= ceil_div(t(q), 100)
      BY <1>2, <2>1, CeilDivMonotone
    <2> QED  BY <2>2 DEF t
  <1>4. v(p) <= v(q)
    <2>1. d + p \in Nat /\ d + q \in Nat /\ d + p <= d + q
          /\ o.stripe_width \in Nat \ {0} /\ o.volume_loss_tolerance \in Nat
      BY DEF GoodOptions
    <2>2. ceil_div(d + p, o.stripe_width) <= ceil_div(d + q, o.stripe_width)
      BY <2>1, CeilDivMonotone
    <2>3. ceil_div(d + p, o.stripe_width) \in Nat /\ ceil_div(d + q, o.stripe_width) \in Nat
      BY BudgetType
    <2> QED  BY <2>1, <2>2, <2>3, TimesMonotone
  <1>5. \A x \in {p, q} : parity_step(o, d, x) =
            IF d + x > o.word_max \/ t(x) + 99 > o.word_max \/ v(x) + r(x) > o.word_max
            THEN NoPlan
            ELSE IF v(x) + r(x) > f THEN v(x) + r(x) ELSE f
    BY DEF parity_step
  <1>6. f \in Nat /\ o.word_max \in Nat
    BY DEF GoodOptions
  <1> HIDE DEF v, r, f, t
  <1>7. ~(d + q > o.word_max \/ t(q) + 99 > o.word_max \/ v(q) + r(q) > o.word_max)
    BY <1>5
  <1>8. ~(d + p > o.word_max \/ t(p) + 99 > o.word_max \/ v(p) + r(p) > o.word_max)
    BY <1>1, <1>2, <1>3, <1>4, <1>6, <1>7
  <1> QED  BY <1>1, <1>3, <1>4, <1>5, <1>6, <1>7, <1>8

\* A guess q that asks for no more than itself bounds every guess: the loop
\* climbs from 0 and cannot step over q.
LEMMA GuessesStayBelow ==
    ASSUME NEW o, GoodOptions(o), NEW d \in Nat, NEW q \in Nat,
           parity_step(o, d, q) # NoPlan, parity_step(o, d, q) <= q
    PROVE  \A i \in 0 .. ParityIterations :
               parity_guesses(o, d)[i] \in Nat /\ parity_guesses(o, d)[i] <= q
  <1> DEFINE g == parity_guesses(o, d)
             T == {i \in 0 .. ParityIterations : ~(g[i] \in Nat /\ g[i] <= q)}
  <1>1. \A i \in 0 .. ParityIterations : g[i] = guess_next(o, d, g, i)
    BY Guesses
  <1>2. SUFFICES ASSUME T # {} PROVE FALSE
    OBVIOUS
  <1> HIDE DEF g
  <1>3. T \subseteq Nat /\ T \subseteq 0 .. ParityIterations
    BY DEF ParityIterations
  <1>4. PICK m \in T : \A i \in T : m <= i
    <2> HIDE DEF T
    <2> QED  BY <1>2, <1>3, LeastNumber
  <1>5. m \in 0 .. ParityIterations /\ ~(g[m] \in Nat /\ g[m] <= q)
    OBVIOUS
  <1>6. m # 0
    BY <1>1, <1>5 DEF guess_next
  <1>7. m - 1 \in 0 .. ParityIterations /\ m - 1 \notin T
    BY <1>4, <1>5, <1>6 DEF ParityIterations
  <1>8. g[m - 1] \in Nat /\ g[m - 1] <= q
    BY <1>7
  <1>9. g[m] = parity_step(o, d, g[m - 1])
    BY <1>1, <1>5, <1>6, <1>8 DEF guess_next, NoPlan
  <1>10. g[m] \in Nat /\ g[m] <= parity_step(o, d, q) /\ parity_step(o, d, q) \in Nat
    BY <1>8, <1>9, StepMonotone
  <1> QED  BY <1>5, <1>10

\* No parity below the one compute_parity returns covers what it asks for.
LEMMA ComputedIsLeast ==
    ASSUME NEW o, GoodOptions(o), NEW d \in Nat, compute_parity(o, d) # NoPlan,
           NEW q \in Nat, q < compute_parity(o, d)
    PROVE  parity_step(o, d, q) > q
  <1> DEFINE p == compute_parity(o, d)
             g == parity_guesses(o, d)
  <1>1. p \in Nat /\ parity_step(o, d, p) = p
    BY ComputedParity
  <1>2. p = parity_loop(o, d)
    BY DEF compute_parity, tested_guess
  <1>3. \E i \in 1 .. ParityIterations : p = g[i]
    <2>1. \E i \in 1 .. ParityIterations : g[i] = g[i - 1]
      BY <1>2 DEF parity_loop, settled_guess
    <2>2. p = g[CHOOSE i \in 1 .. ParityIterations : g[i] = g[i - 1]]
      BY <1>2, <2>1 DEF parity_loop, settled_guess
    <2> QED  BY <2>1, <2>2
  <1>4. parity_step(o, d, q) \in Nat
    <2>1. p # NoPlan /\ q <= p
      BY <1>1
    <2> HIDE DEF p
    <2> QED  BY <1>1, <2>1, StepMonotone
  <1>5. SUFFICES ASSUME parity_step(o, d, q) <= q PROVE FALSE
    BY <1>4
  <1>6. \A i \in 0 .. ParityIterations : g[i] \in Nat /\ g[i] <= q
    <2>1. parity_step(o, d, q) # NoPlan
      BY <1>4 DEF NoPlan
    <2> QED  BY <1>5, <2>1, GuessesStayBelow
  <1> QED  BY <1>1, <1>3, <1>6 DEF ParityIterations

-----------------------------------------------------------------------------
(***************************************************************************)
(* Objects                                                                 *)
(***************************************************************************)

\* An object that fits can be planned: it has a data block, and no more blocks
\* than the class allows.
LEMMA PlannedExtent ==
    ASSUME NEW o, ValidOptions(o), NEW first \in Nat, NEW len \in Nat,
           payload_object_can_fit(o, len)
    PROVE  LET x == object_extent(o, first, len)
           IN  /\ x \in Extents /\ x.first = first
               /\ x.first \in Nat /\ x.data \in Nat /\ x.parity \in Nat
               /\ x.data + x.parity \in 1 .. o.max_shards
               /\ next_block_index(x) = first + (x.data + x.parity)
  <1> DEFINE d == data_block_count(o, len)
             p == compute_parity(o, d)
  <1>1. o.block_size \in Nat \ {0} /\ o.tag_len \in Nat /\ o.max_shards \in Nat
    BY DEF ValidOptions, ValidRequest, OptionFields
  <1>2. d \in Nat \ {0}
    <2>1. len + o.tag_len \in Nat
      BY <1>1
    <2>2. (len + o.tag_len) \div o.block_size \in Nat
      BY <1>1, <2>1
    <2> QED  BY <2>2 DEF data_block_count
  <1>3. p \in Nat
    BY DEF payload_object_can_fit, compute_parity, tested_guess
  <1>4. d + p <= o.max_shards
    BY DEF payload_object_can_fit
  <1> HIDE DEF d, p
  <1>5. object_extent(o, first, len) = [first |-> first, data |-> d, parity |-> p]
    BY DEF object_extent, d, p
  <1> QED  BY <1>1, <1>2, <1>3, <1>4, <1>5 DEF Extents, next_block_index

\* The object of an envelope that fits.
LEMMA PlannedObject ==
    ASSUME NEW o, ValidOptions(o), NEW first \in Nat, NEW e \in Envelopes,
           payload_object_can_fit(o, e.len)
    PROVE  LET b == payload_object(o, first, e)
           IN  /\ b \in PayloadObjects /\ b.len = e.len /\ b.index = e.index
               /\ b.extent \in Extents /\ b.extent.first = first
               /\ b.extent.data \in Nat /\ b.extent.parity \in Nat
               /\ b.extent.data + b.extent.parity \in 1 .. o.max_shards
               /\ next_block_index(b.extent) = first + (b.extent.data + b.extent.parity)
               /\ next_block_index(b.extent) \in Nat
  <1>1. e.index \in Nat /\ e.len \in Nat
    BY DEF Envelopes
  <1> DEFINE x == object_extent(o, first, e.len)
  <1>2. /\ x \in Extents /\ x.first = first /\ x.data \in Nat /\ x.parity \in Nat
        /\ x.data + x.parity \in 1 .. o.max_shards
        /\ next_block_index(x) = first + (x.data + x.parity)
    BY <1>1, PlannedExtent
  <1>3. next_block_index(x) \in Nat
    BY <1>2
  <1> HIDE DEF x
  <1>4. payload_object(o, first, e) = [index |-> e.index, len |-> e.len, extent |-> x]
    BY DEF payload_object, x
  <1> QED  BY <1>1, <1>2, <1>3, <1>4 DEF PayloadObjects

\* The records of a sealed envelope.
LEMMA RecordsOf ==
    ASSUME NEW k \in Nat, NEW p \in Seq(Nat), NEW x \in Extents
    PROVE  /\ block_records(k, p, x) \in Seq(BlockRecords)
           /\ Len(block_records(k, p, x)) = x.data + x.parity
           /\ x.first \in Nat /\ x.data \in Nat /\ x.parity \in Nat
           /\ \A i \in 1 .. x.data + x.parity :
                LET r == block_records(k, p, x)[i]
                IN  /\ r \in BlockRecords /\ r.block = x.first + i - 1
                    /\ r.data <=> i <= x.data
                    /\ r.index = k /\ r.plaintext = p
  <1> DEFINE recs == block_records(k, p, x)
  <1>1. x.first \in Nat /\ x.data \in Nat /\ x.parity \in Nat /\ x.data + x.parity \in Nat
    BY DEF Extents
  <1>2. recs \in [1 .. x.data + x.parity -> BlockRecords]
    BY <1>1 DEF block_records, BlockRecords
  <1>3. recs \in Seq(BlockRecords) /\ Len(recs) = x.data + x.parity
    BY <1>1, <1>2, SeqDef
  <1>4. ASSUME NEW i \in 1 .. x.data + x.parity
        PROVE  /\ recs[i] \in BlockRecords /\ recs[i].block = x.first + i - 1
               /\ recs[i].data <=> i <= x.data
               /\ recs[i].index = k /\ recs[i].plaintext = p
    <2> DEFINE b == i <= x.data
    <2>1. recs[i] = [block |-> x.first + i - 1, data |-> b, index |-> k, plaintext |-> p]
      BY DEF block_records
    <2> HIDE DEF b, recs
    <2>2. /\ recs[i].block = x.first + i - 1 /\ recs[i].data = b
          /\ recs[i].index = k /\ recs[i].plaintext = p
      BY <2>1
    <2>3. recs[i] \in BlockRecords
      BY <1>2
    <2> QED  BY <2>2, <2>3 DEF b
  <1> HIDE DEF recs
  <1> QED  BY <1>1, <1>3, <1>4 DEF recs

-----------------------------------------------------------------------------
(***************************************************************************)
(* Packing                                                                 *)
(***************************************************************************)

\* What the lemmas below use of the types.
LEMMA IndexTypes ==
    ASSUME NEW o, NEW fs, NEW os, NEW e, PackedSoFar(o, fs, os, e)
    PROVE  /\ fs \in Seq(PayloadFrameRecords) /\ Len(fs) \in Nat
           /\ DOMAIN fs = 1 .. Len(fs)
           /\ fs = <<>> <=> Len(fs) = 0
           /\ \A i \in 1 .. Len(fs) : /\ fs[i].envelope \in Nat /\ fs[i].frame \in Nat
                                      /\ fs[i].offset \in Nat /\ fs[i].len \in Nat
           /\ os \in Seq(PayloadObjects) /\ Len(os) \in Nat /\ DOMAIN os = 1 .. Len(os)
           /\ e.index = Len(os) /\ e.index \in Nat /\ e.len \in Nat
           /\ e.plaintext \in Seq(Nat) /\ Len(e.plaintext) \in Nat
           /\ DOMAIN e.plaintext = 1 .. Len(e.plaintext)
           /\ e.plaintext = <<>> <=> Len(e.plaintext) = 0
  <1>1. /\ fs \in Seq(PayloadFrameRecords) /\ os \in Seq(PayloadObjects)
        /\ e.index \in Nat /\ e.len \in Nat /\ e.plaintext \in Seq(Nat)
        /\ e.index = Len(os)
    BY DEF PackedSoFar, Envelopes
  <1>2. \A i \in 1 .. Len(fs) : fs[i] \in PayloadFrameRecords
    BY <1>1, ElementOfSeq
  <1>3. \A i \in 1 .. Len(fs) : /\ fs[i].envelope \in Nat /\ fs[i].frame \in Nat
                                /\ fs[i].offset \in Nat /\ fs[i].len \in Nat
    BY <1>2 DEF PayloadFrameRecords
  <1> QED  BY <1>1, <1>3, LenProperties, EmptySeq

\* A frame that goes to the envelope being filled.
GoesTo(fs, e, f) ==
    /\ f \in PayloadFrameRecords
    /\ f.frame = Len(fs) /\ f.envelope = e.index /\ f.offset = e.len

\* The frames of the other envelopes stay as they are.
LEMMA OtherFramesStay ==
    ASSUME NEW fs \in Seq(PayloadFrameRecords), NEW f \in PayloadFrameRecords,
           NEW p, NEW k, k # f.envelope
    PROVE  HoldsFramesOf(Append(fs, f), p, k) <=> HoldsFramesOf(fs, p, k)
  <1> DEFINE gs == Append(fs, f)
  <1>1. /\ Len(fs) \in Nat /\ DOMAIN fs = 1 .. Len(fs) /\ DOMAIN gs = 1 .. Len(fs) + 1
        /\ \A i \in 1 .. Len(fs) : gs[i] = fs[i]
        /\ gs[Len(fs) + 1] = f
    BY AppendedTo
  <1> HIDE DEF gs
  <1>2. \A i \in DOMAIN gs : (i \in DOMAIN fs /\ gs[i] = fs[i]) \/ gs[i] = f
    BY <1>1
  <1>3. \A i \in DOMAIN fs : i \in DOMAIN gs /\ gs[i] = fs[i]
    BY <1>1
  <1>4. \A i \in frames_in(gs, k) : i \in frames_in(fs, k) /\ gs[i] = fs[i]
    BY <1>2 DEF frames_in
  <1>5. \A i \in frames_in(fs, k) : i \in frames_in(gs, k) /\ gs[i] = fs[i]
    BY <1>3 DEF frames_in
  <1>6. {gs[i].frame : i \in frames_in(gs, k)} = {fs[i].frame : i \in frames_in(fs, k)}
    BY <1>4, <1>5
  <1> QED  BY <1>6 DEF HoldsFramesOf, gs

\* The envelope being filled holds the frame packed into it too.
LEMMA FrameIsHeld ==
    ASSUME NEW o, NEW fs, NEW os, NEW e, PackedSoFar(o, fs, os, e),
           NEW f, GoesTo(fs, e, f)
    PROVE  HoldsFramesOf(Append(fs, f), Append(e.plaintext, Len(fs)), e.index)
  <1> DEFINE gs == Append(fs, f)
             p == e.plaintext
             q == Append(p, Len(fs))
             k == e.index
  <1>0. /\ Len(fs) \in Nat /\ Len(p) \in Nat /\ p \in Seq(Nat) /\ DOMAIN p = 1 .. Len(p)
        /\ fs \in Seq(PayloadFrameRecords) /\ DOMAIN fs = 1 .. Len(fs)
        /\ p = <<>> <=> Len(p) = 0
    BY IndexTypes
  <1>1. /\ DOMAIN gs = 1 .. Len(fs) + 1
        /\ \A i \in 1 .. Len(fs) : gs[i] = fs[i]
        /\ gs[Len(fs) + 1] = f
        /\ f.envelope = k /\ f.frame = Len(fs)
    BY <1>0, AppendedTo DEF GoesTo
  <1>2. /\ Len(q) = Len(p) + 1 /\ DOMAIN q = 1 .. Len(p) + 1
        /\ \A i \in 1 .. Len(p) : q[i] = p[i]
        /\ q[Len(p) + 1] = Len(fs)
    BY <1>0, AppendedTo
  <1>3. /\ Len(p) > 0 => p[Len(p)] = Len(fs) - 1
        /\ \A i \in 2 .. Len(p) : p[i] = p[i - 1] + 1
        /\ {p[i] : i \in DOMAIN p} = {fs[i].frame : i \in frames_in(fs, k)}
    <2>1. Filling(fs, e)
      BY DEF PackedSoFar
    <2>2. p # <<>> => p[Len(p)] = Len(fs) - 1
      BY <2>1 DEF Filling
    <2>3. HoldsFramesOf(fs, p, k)
      BY <2>1 DEF Filling
    <2> HIDE DEF p, k
    <2>4. Len(p) > 0 => p # <<>>
      BY <1>0
    <2>5. /\ \A i \in 2 .. Len(p) : p[i] = p[i - 1] + 1
          /\ {p[i] : i \in DOMAIN p} = {fs[i].frame : i \in frames_in(fs, k)}
      BY <2>3 DEF HoldsFramesOf
    <2> QED  BY <2>2, <2>4, <2>5
  <1> HIDE DEF gs, p, q, k
  <1>4. \A i \in 2 .. Len(q) : q[i] = q[i - 1] + 1
    <2> TAKE i \in 2 .. Len(q)
    <2>1. CASE i \in 2 .. Len(p)
      <3>1. i \in 1 .. Len(p) /\ i - 1 \in 1 .. Len(p)
        BY <1>0, <2>1
      <3> QED  BY <1>2, <1>3, <2>1, <3>1
    <2>2. CASE i = Len(p) + 1
      <3>1. Len(p) > 0 /\ Len(p) \in 1 .. Len(p) /\ i - 1 = Len(p)
        BY <1>0, <1>2, <2>2
      <3>2. q[i] = Len(fs) /\ q[i - 1] = Len(fs) - 1
        BY <1>2, <1>3, <2>2, <3>1
      <3> QED  BY <1>0, <3>2
    <2> QED  BY <1>0, <1>2, <2>1, <2>2
  <1>5. {q[i] : i \in DOMAIN q} = {p[i] : i \in DOMAIN p} \cup {Len(fs)}
    <2>1. \A i \in DOMAIN q : (i \in DOMAIN p /\ q[i] = p[i]) \/ q[i] = Len(fs)
      BY <1>0, <1>2
    <2>2. \A i \in DOMAIN p : i \in DOMAIN q /\ q[i] = p[i]
      BY <1>0, <1>2
    <2>3. Len(p) + 1 \in DOMAIN q /\ q[Len(p) + 1] = Len(fs)
      BY <1>0, <1>2
    <2> QED  BY <2>1, <2>2, <2>3
  <1>6. {gs[i].frame : i \in frames_in(gs, k)}
          = {fs[i].frame : i \in frames_in(fs, k)} \cup {Len(fs)}
    <2>1. \A i \in DOMAIN gs : (i \in DOMAIN fs /\ gs[i] = fs[i]) \/ i = Len(fs) + 1
      BY <1>0, <1>1
    <2>2. \A i \in DOMAIN fs : i \in DOMAIN gs /\ gs[i] = fs[i]
      BY <1>0, <1>1
    <2>3. \A i \in frames_in(gs, k) :
             (i \in frames_in(fs, k) /\ gs[i] = fs[i]) \/ i = Len(fs) + 1
      BY <2>1 DEF frames_in
    <2>4. \A i \in frames_in(fs, k) : i \in frames_in(gs, k) /\ gs[i] = fs[i]
      BY <2>2 DEF frames_in
    <2>5. Len(fs) + 1 \in frames_in(gs, k) /\ gs[Len(fs) + 1].frame = Len(fs)
      BY <1>0, <1>1 DEF frames_in
    <2> QED  BY <1>1, <2>3, <2>4, <2>5
  <1>7. {q[i] : i \in DOMAIN q} = {gs[i].frame : i \in frames_in(gs, k)}
    BY <1>3, <1>5, <1>6
  <1> QED  BY <1>4, <1>7 DEF HoldsFramesOf, gs, p, q, k

\* Each envelope stays tiled by its frames when one more is packed.
LEMMA PackingTiles ==
    ASSUME NEW o, NEW fs, NEW os, NEW e, PackedSoFar(o, fs, os, e),
           NEW f, GoesTo(fs, e, f)
    PROVE  TilesEnvelopes(Append(fs, f), os)
  <1> DEFINE gs == Append(fs, f)
  <1>0. /\ fs \in Seq(PayloadFrameRecords) /\ Len(fs) \in Nat
        /\ DOMAIN fs = 1 .. Len(fs)
        /\ fs = <<>> <=> Len(fs) = 0
        /\ \A i \in 1 .. Len(fs) : /\ fs[i].envelope \in Nat
                                   /\ fs[i].offset \in Nat
                                   /\ fs[i].len \in Nat
        /\ Len(os) \in Nat /\ DOMAIN os = 1 .. Len(os)
        /\ e.index = Len(os) /\ e.index \in Nat /\ e.len \in Nat
    BY IndexTypes
  <1>t. TilesEnvelopes(fs, os)
    BY DEF PackedSoFar
  <1>1. /\ Len(gs) = Len(fs) + 1 /\ DOMAIN gs = 1 .. Len(fs) + 1
        /\ \A i \in 1 .. Len(fs) : gs[i] = fs[i]
        /\ gs[Len(fs) + 1] = f
        /\ f.envelope = e.index /\ f.offset = e.len
    BY <1>0, AppendedTo DEF GoesTo
  <1> HIDE DEF gs
  <1>2. \A k \in DOMAIN os : frames_in(gs, k - 1) # {}
    <2> TAKE k \in DOMAIN os
    <2>1. PICK i \in DOMAIN fs : fs[i].envelope = k - 1
      BY <1>t DEF TilesEnvelopes, frames_in
    <2>2. i \in DOMAIN gs /\ gs[i].envelope = k - 1
      BY <1>0, <1>1, <2>1
    <2> QED  BY <2>2 DEF frames_in
  <1>3. ASSUME NEW i \in 1 .. Len(fs)
        PROVE  /\ starts_envelope(gs, i) <=> starts_envelope(fs, i)
               /\ ends_envelope(gs, i) => ends_envelope(fs, i)
               /\ gs[i] = fs[i]
               /\ i # 1 => gs[i - 1] = fs[i - 1]
    <2>0. Len(fs) \in Nat
      BY <1>0
    <2>1. i # 1 => i - 1 \in 1 .. Len(fs)
      BY <2>0
    <2>2. i # Len(fs) => i + 1 \in 1 .. Len(fs)
      BY <2>0
    <2>3. i # Len(gs)
      BY <1>0, <1>1
    <2> QED  BY <1>1, <2>1, <2>2, <2>3 DEF starts_envelope, ends_envelope
  <1>4. ASSUME NEW i \in 1 .. Len(fs)
        PROVE  LET g == gs[i]
               IN  /\ IF starts_envelope(gs, i)
                      THEN g.offset = 0 /\ g.envelope = IF i = 1 THEN 0
                                                       ELSE gs[i - 1].envelope + 1
                      ELSE g.offset = gs[i - 1].offset + gs[i - 1].len
                   /\ g.envelope < Len(os) /\ ends_envelope(gs, i)
                        => os[g.envelope + 1].len = g.offset + g.len
    <2>1. i \in DOMAIN fs
      BY <1>0
    <2>2. i = 1 => starts_envelope(fs, i)
      BY DEF starts_envelope
    <2> QED  BY <1>t, <1>3, <2>1, <2>2 DEF TilesEnvelopes
  <1>5. LET i == Len(fs) + 1
            g == gs[i]
        IN  /\ IF starts_envelope(gs, i)
               THEN g.offset = 0 /\ g.envelope = IF i = 1 THEN 0
                                                ELSE gs[i - 1].envelope + 1
               ELSE g.offset = gs[i - 1].offset + gs[i - 1].len
            /\ ~(g.envelope < Len(os))
    <2>f. Filling(fs, e)
      BY DEF PackedSoFar
    <2>1. ~(f.envelope < Len(os))
      BY <1>0, <1>1
    <2>2. CASE Len(fs) = 0
      <3>1. e.plaintext = <<>> /\ e.len = 0 /\ e.index = 0
        BY <1>0, <2>2, <2>f DEF Filling
      <3> QED  BY <1>0, <1>1, <2>1, <2>2, <3>1 DEF starts_envelope
    <2>3. CASE Len(fs) # 0
      <3> DEFINE g == fs[Len(fs)]
      <3>1. /\ Len(fs) + 1 # 1 /\ (Len(fs) + 1) - 1 = Len(fs)
            /\ gs[Len(fs)] = g /\ Len(fs) \in 1 .. Len(fs)
        BY <1>0, <1>1, <2>3
      <3>2. g.envelope \in Nat /\ g.offset \in Nat /\ g.len \in Nat
        BY <1>0, <3>1
      <3>3. CASE e.plaintext = <<>>
        <4>1. e.len = 0 /\ g.envelope = e.index - 1
          BY <1>0, <2>3, <2>f, <3>3 DEF Filling
        <4>2. f.offset = 0 /\ f.envelope = g.envelope + 1 /\ g.envelope # f.envelope
          <5>1. f.envelope = e.index /\ f.offset = e.len /\ e.index \in Nat
            BY <1>0, <1>1
          <5> HIDE DEF g
          <5> QED  BY <4>1, <5>1
        <4>3. starts_envelope(gs, Len(fs) + 1)
          BY <1>1, <3>1, <4>2 DEF starts_envelope
        <4> QED  BY <1>1, <2>1, <3>1, <4>2, <4>3
      <3>4. CASE e.plaintext # <<>>
        <4>1. f.offset = g.offset + g.len /\ g.envelope = f.envelope
          BY <1>1, <2>f, <3>4 DEF Filling
        <4>2. ~starts_envelope(gs, Len(fs) + 1)
          BY <1>0, <1>1, <3>1, <4>1 DEF starts_envelope
        <4> QED  BY <1>1, <2>1, <3>1, <4>1, <4>2
      <3> QED  BY <3>3, <3>4
    <2> QED  BY <2>2, <2>3
  <1>6. \A i \in DOMAIN gs : i \in 1 .. Len(fs) \/ i = Len(fs) + 1
    BY <1>0, <1>1
  <1>7. TilesEnvelopes(gs, os)
    BY <1>2, <1>4, <1>5, <1>6 DEF TilesEnvelopes
  <1> QED  BY <1>7 DEF gs

\* Packing a frame that needs no flush keeps everything together.
LEMMA PackingKeeps ==
    ASSUME NEW o, NEW fs, NEW os, NEW e, PackedSoFar(o, fs, os, e),
           NEW f, GoesTo(fs, e, f),
           payload_object_can_fit(o, f.len), ~payload_envelope_needs_flush(o, e, f.len)
    PROVE  PackedSoFar(o, Append(fs, f), os, extend_envelope(e, Len(fs), f.len))
  <1> DEFINE gs == Append(fs, f)
             q == Append(e.plaintext, Len(fs))
             d == extend_envelope(e, Len(fs), f.len)
  <1>0. /\ fs \in Seq(PayloadFrameRecords) /\ Len(fs) \in Nat
        /\ os \in Seq(PayloadObjects)
        /\ e.index = Len(os) /\ e.index \in Nat /\ e.len \in Nat /\ e.plaintext \in Seq(Nat)
        /\ \A i \in 1 .. Len(fs) : fs[i].envelope \in Nat
    BY IndexTypes
  <1>1. f \in PayloadFrameRecords /\ f.len \in Nat
    BY DEF GoesTo, PayloadFrameRecords
  <1>2. /\ gs \in Seq(PayloadFrameRecords) /\ gs # <<>> /\ Len(gs) = Len(fs) + 1
        /\ \A i \in 1 .. Len(fs) : gs[i] = fs[i]
        /\ gs[Len(fs) + 1] = f
    BY <1>0, <1>1, AppendedTo
  <1>3. /\ q \in Seq(Nat) /\ q # <<>> /\ q[Len(q)] = Len(fs)
    BY <1>0, AppendedTo
  <1>4. e \in Envelopes
    BY DEF PackedSoFar
  <1>5. /\ d \in Envelopes /\ d.index = e.index /\ d.plaintext = q /\ d.len = e.len + f.len
    <2>1. e.len + f.len \in Nat /\ e \in [index : Nat, plaintext : Seq(Nat), len : Nat]
      BY <1>0, <1>1, <1>4 DEF Envelopes
    <2> HIDE DEF q
    <2>2. d = [e EXCEPT !.plaintext = q, !.len = e.len + f.len]
      BY DEF extend_envelope, q
    <2> HIDE DEF d
    <2> QED  BY <1>3, <2>1, <2>2 DEF Envelopes
  <1>6. TilesEnvelopes(gs, os) /\ HoldsFramesOf(gs, q, e.index)
    BY PackingTiles, FrameIsHeld
  <1>7. payload_object_can_fit(o, e.len + f.len)
    <2>1. CASE e.plaintext = <<>>
      <3>1. e.len = 0
        BY <2>1 DEF PackedSoFar, Filling
      <3> QED  BY <1>1, <3>1
    <2>2. CASE e.plaintext # <<>>
      BY <2>2 DEF payload_envelope_needs_flush
    <2> QED  BY <2>1, <2>2
  <1> HIDE DEF gs, q, d
  <1>8. \A i \in 1 .. Len(gs) : gs[i].frame = i - 1 /\ gs[i].envelope <= e.index
    <2> TAKE i \in 1 .. Len(gs)
    <2>1. CASE i \in 1 .. Len(fs)
      BY <1>2, <2>1 DEF PackedSoFar, Filling
    <2>2. CASE i = Len(fs) + 1
      BY <1>0, <1>2, <2>2 DEF GoesTo
    <2> QED  BY <1>0, <1>2, <2>1, <2>2
  <1>9. Filling(gs, d)
    <2>1. gs[Len(gs)].envelope = e.index /\ gs[Len(gs)].offset + gs[Len(gs)].len = e.len + f.len
      BY <1>2 DEF GoesTo
    <2>2. q[Len(q)] = Len(gs) - 1
      BY <1>0, <1>2, <1>3
    <2> QED  BY <1>2, <1>3, <1>5, <1>6, <1>8, <2>1, <2>2 DEF Filling
  <1>10. PackedSoFar(o, gs, os, d)
    BY <1>0, <1>2, <1>5, <1>6, <1>7, <1>8, <1>9 DEF PackedSoFar
  <1> QED  BY <1>10 DEF gs, d

-----------------------------------------------------------------------------
(***************************************************************************)
(* Sealing                                                                 *)
(***************************************************************************)

\* The frames of a sealed envelope tile it.
LEMMA SealingTiles ==
    ASSUME NEW o, NEW fs, NEW os, NEW e, PackedSoFar(o, fs, os, e), e.plaintext # <<>>,
           NEW b \in PayloadObjects, b.len = e.len
    PROVE  TilesEnvelopes(fs, Append(os, b))
  <1> DEFINE bs == Append(os, b)
  <1>0. /\ Len(fs) \in Nat /\ DOMAIN fs = 1 .. Len(fs)
        /\ fs = <<>> <=> Len(fs) = 0
        /\ \A i \in 1 .. Len(fs) : fs[i].envelope \in Nat
        /\ os \in Seq(PayloadObjects) /\ Len(os) \in Nat /\ DOMAIN os = 1 .. Len(os)
        /\ e.index = Len(os)
    BY IndexTypes
  <1>1. TilesEnvelopes(fs, os) /\ Filling(fs, e)
    BY DEF PackedSoFar
  <1>2. /\ Len(bs) = Len(os) + 1 /\ DOMAIN bs = 1 .. Len(os) + 1
        /\ \A i \in 1 .. Len(os) : bs[i] = os[i]
        /\ bs[Len(os) + 1] = b
    BY <1>0, AppendedTo
  <1> HIDE DEF bs
  <1>3. /\ fs # <<>> /\ Len(fs) \in 1 .. Len(fs)
        /\ fs[Len(fs)].envelope = e.index
        /\ fs[Len(fs)].offset + fs[Len(fs)].len = e.len
    BY <1>0, <1>1 DEF Filling
  <1>4. \A k \in DOMAIN bs : frames_in(fs, k - 1) # {}
    <2> TAKE k \in DOMAIN bs
    <2>1. CASE k \in DOMAIN os
      BY <1>1, <2>1 DEF TilesEnvelopes
    <2>2. CASE k = Len(os) + 1
      <3>1. Len(fs) \in frames_in(fs, k - 1)
        BY <1>0, <1>3, <2>2 DEF frames_in
      <3> QED  BY <3>1
    <2> QED  BY <1>0, <1>2, <2>1, <2>2
  <1>5. ASSUME NEW i \in DOMAIN fs, fs[i].envelope < Len(bs), ends_envelope(fs, i)
        PROVE  bs[fs[i].envelope + 1].len = fs[i].offset + fs[i].len
    <2>0. i \in 1 .. Len(fs) /\ fs[i].envelope \in Nat
      BY <1>0
    <2>1. CASE fs[i].envelope < Len(os)
      <3>1. fs[i].envelope + 1 \in 1 .. Len(os)
        BY <1>0, <2>0, <2>1
      <3> QED  BY <1>1, <1>2, <1>5, <2>1, <3>1 DEF TilesEnvelopes
    <2>2. CASE fs[i].envelope = Len(os)
      <3>1. i = Len(fs)
        <4> SUFFICES ASSUME i # Len(fs)
                     PROVE  FALSE
          OBVIOUS
        <4>1. i + 1 \in 1 .. Len(fs) /\ (i + 1) - 1 = i /\ i + 1 # 1
          BY <1>0, <2>0
        <4>2. fs[i + 1].envelope # fs[i].envelope
          BY <1>5, <2>0 DEF ends_envelope
        <4>3. starts_envelope(fs, i + 1)
          BY <4>1, <4>2 DEF starts_envelope
        <4>4. fs[i + 1].envelope = fs[i].envelope + 1
          <5> DEFINE j == i + 1
          <5>1. j \in DOMAIN fs /\ j # 1 /\ j - 1 = i /\ starts_envelope(fs, j)
            BY <1>0, <4>1, <4>3
          <5> HIDE DEF j
          <5>2. fs[j].envelope = fs[j - 1].envelope + 1
            BY <1>1, <5>1 DEF TilesEnvelopes
          <5> QED  BY <5>1, <5>2 DEF j
        <4>5. fs[i + 1].envelope <= e.index
          BY <1>1, <4>1 DEF Filling
        <4> QED  BY <1>0, <2>0, <2>2, <4>1, <4>4, <4>5
      <3> QED  BY <1>2, <1>3, <2>2, <3>1
    <2> QED  BY <1>0, <1>2, <1>5, <2>0, <2>1, <2>2
  <1>6. TilesEnvelopes(fs, bs)
    BY <1>1, <1>4, <1>5 DEF TilesEnvelopes
  <1> QED  BY <1>6 DEF bs

\* Sealing an envelope that is not empty keeps everything together.
LEMMA SealingKeeps ==
    ASSUME NEW o, ValidOptions(o), NEW fs, NEW os, NEW e, PackedSoFar(o, fs, os, e),
           e.plaintext # <<>>, NEW first \in Nat
    PROVE  PackedSoFar(o, fs, Append(os, payload_object(o, first, e)),
                       EmptyEnvelope(e.index + 1))
  <1> DEFINE b == payload_object(o, first, e)
             bs == Append(os, b)
             d == EmptyEnvelope(e.index + 1)
  <1>0. /\ fs \in Seq(PayloadFrameRecords) /\ os \in Seq(PayloadObjects)
        /\ Len(fs) \in Nat
        /\ \A i \in 1 .. Len(fs) : fs[i].envelope \in Nat
        /\ e.index = Len(os) /\ e.index \in Nat
    BY IndexTypes
  <1>1. /\ e \in Envelopes /\ payload_object_can_fit(o, e.len) /\ Filling(fs, e)
        /\ \A i \in 1 .. Len(fs) : fs[i].frame = i - 1
    BY DEF PackedSoFar
  <1>2. b \in PayloadObjects /\ b.len = e.len
    BY <1>1, PlannedObject
  <1> HIDE DEF b
  <1>3. bs \in Seq(PayloadObjects) /\ Len(bs) = Len(os) + 1
    BY <1>0, <1>2, AppendedTo
  <1>4. TilesEnvelopes(fs, bs)
    BY <1>2, SealingTiles
  <1>5. d \in Envelopes /\ d.index = e.index + 1 /\ d.plaintext = <<>> /\ d.len = 0
    BY <1>0 DEF EmptyEnvelope, Envelopes
  <1> HIDE DEF bs, d
  <1>6. \A i \in 1 .. Len(fs) : fs[i].envelope < d.index
    <2> TAKE i \in 1 .. Len(fs)
    <2>1. fs[i].envelope <= e.index /\ fs[i].envelope \in Nat
      BY <1>0, <1>1 DEF Filling
    <2> QED  BY <1>0, <1>5, <2>1
  <1>7. HoldsFramesOf(fs, d.plaintext, d.index)
    <2>1. frames_in(fs, d.index) = {}
      <3>1. \A i \in DOMAIN fs : fs[i].envelope # d.index
        BY <1>0, <1>5, <1>6, LenProperties
      <3> QED  BY <3>1 DEF frames_in
    <2>2. {fs[i].frame : i \in frames_in(fs, d.index)} = {}
      BY <2>1
    <2>3. {d.plaintext[i] : i \in DOMAIN d.plaintext} = {}
      BY <1>5
    <2>4. \A i \in 2 .. Len(d.plaintext) : d.plaintext[i] = d.plaintext[i - 1] + 1
      BY <1>5
    <2> QED  BY <2>2, <2>3, <2>4 DEF HoldsFramesOf
  <1>8. Filling(fs, d)
    <2>1. \A i \in 1 .. Len(fs) : fs[i].envelope <= d.index
      <3> TAKE i \in 1 .. Len(fs)
      <3>1. fs[i].envelope < d.index /\ fs[i].envelope \in Nat /\ d.index \in Nat
        BY <1>0, <1>5, <1>6
      <3> QED  BY <3>1
    <2>2. fs # <<>> /\ fs[Len(fs)].envelope = d.index - 1
      BY <1>0, <1>1, <1>5 DEF Filling
    <2> QED  BY <1>5, <1>6, <1>7, <2>1, <2>2 DEF Filling
  <1>9. PackedSoFar(o, fs, bs, d)
    BY <1>0, <1>1, <1>3, <1>4, <1>5, <1>8 DEF PackedSoFar
  <1> QED  BY <1>9 DEF bs, b, d

-----------------------------------------------------------------------------
(***************************************************************************)
(* Blocks                                                                  *)
(***************************************************************************)

\* A block lies in the extent the index gives its envelope.
InExtent(os, r) ==
    LET x == os[r.index + 1].extent
    IN  /\ r.index < Len(os)
        /\ r.block \in x.first .. next_block_index(x) - 1
        /\ r.data <=> r.block < x.first + x.data

\* The index describes the blocks when it describes each of them.
LEMMA DescribedEach ==
    ASSUME NEW fs, NEW os, NEW bs \in Seq(BlockRecords)
    PROVE  DescribesBlocks(fs, os, bs)
             <=> \A i \in 1 .. Len(bs) : /\ InExtent(os, bs[i])
                                         /\ HoldsFramesOf(fs, bs[i].plaintext, bs[i].index)
  <1>1. DOMAIN bs = 1 .. Len(bs)
    BY LenProperties
  <1> QED  BY <1>1 DEF DescribesBlocks, InExtent, HoldsFramesOf

\* Blocks stay described when a frame is packed into the envelope being filled.
LEMMA DescribedAfterPacking ==
    ASSUME NEW o, NEW fs, NEW os, NEW e, PackedSoFar(o, fs, os, e),
           NEW f, GoesTo(fs, e, f),
           NEW bs \in Seq(BlockRecords), DescribesBlocks(fs, os, bs)
    PROVE  DescribesBlocks(Append(fs, f), os, bs)
  <1>1. /\ fs \in Seq(PayloadFrameRecords) /\ Len(os) \in Nat /\ e.index = Len(os)
        /\ f \in PayloadFrameRecords /\ f.envelope = e.index
    BY IndexTypes DEF GoesTo
  <1>2. ASSUME NEW i \in 1 .. Len(bs)
        PROVE  /\ InExtent(os, bs[i])
               /\ HoldsFramesOf(Append(fs, f), bs[i].plaintext, bs[i].index)
    <2>1. InExtent(os, bs[i]) /\ HoldsFramesOf(fs, bs[i].plaintext, bs[i].index)
      BY DescribedEach
    <2>2. bs[i].index < Len(os) /\ bs[i].index \in Nat
      <3>1. bs[i] \in BlockRecords
        BY ElementOfSeq
      <3> QED  BY <2>1, <3>1 DEF InExtent, BlockRecords
    <2>3. bs[i].index # f.envelope
      BY <1>1, <2>2
    <2> QED  BY <1>1, <2>1, <2>3, OtherFramesStay
  <1> QED  BY <1>2, DescribedEach

\* Blocks stay described when one more object is recorded.
LEMMA DescribedAfterSealing ==
    ASSUME NEW fs, NEW os \in Seq(PayloadObjects), NEW b \in PayloadObjects,
           NEW bs \in Seq(BlockRecords), DescribesBlocks(fs, os, bs)
    PROVE  DescribesBlocks(fs, Append(os, b), bs)
  <1> DEFINE cs == Append(os, b)
  <1>1. /\ Len(os) \in Nat /\ Len(cs) = Len(os) + 1
        /\ \A i \in 1 .. Len(os) : cs[i] = os[i]
    BY AppendedTo
  <1> HIDE DEF cs
  <1>2. ASSUME NEW i \in 1 .. Len(bs)
        PROVE  InExtent(cs, bs[i]) /\ HoldsFramesOf(fs, bs[i].plaintext, bs[i].index)
    <2>1. InExtent(os, bs[i]) /\ HoldsFramesOf(fs, bs[i].plaintext, bs[i].index)
      BY DescribedEach
    <2>2. bs[i].index < Len(os) /\ bs[i].index \in Nat
      <3>1. bs[i] \in BlockRecords
        BY ElementOfSeq
      <3> QED  BY <2>1, <3>1 DEF InExtent, BlockRecords
    <2>3. bs[i].index + 1 \in 1 .. Len(os) /\ bs[i].index < Len(cs)
      BY <1>1, <2>2
    <2>4. cs[bs[i].index + 1] = os[bs[i].index + 1]
      BY <1>1, <2>3
    <2> QED  BY <2>1, <2>3, <2>4 DEF InExtent
  <1>3. DescribesBlocks(fs, cs, bs)
    BY <1>2, DescribedEach
  <1> QED  BY <1>3 DEF cs

\* Writing the blocks of a recorded envelope, all of them or the first few.
LEMMA DescribedAfterWriting ==
    ASSUME NEW fs, NEW os \in Seq(PayloadObjects), NEW bs \in Seq(BlockRecords),
           DescribesBlocks(fs, os, bs),
           NEW k \in Nat, k < Len(os), NEW p \in Seq(Nat), HoldsFramesOf(fs, p, k),
           NEW n \in 0 .. Len(block_records(k, p, os[k + 1].extent))
    PROVE  LET cs == bs \o SubSeq(block_records(k, p, os[k + 1].extent), 1, n)
           IN  /\ cs \in Seq(BlockRecords) /\ Len(cs) = Len(bs) + n
               /\ DescribesBlocks(fs, os, cs)
               /\ InBlockOrder(bs) /\ os[k + 1].extent.first = Len(bs) => InBlockOrder(cs)
  <1> DEFINE x == os[k + 1].extent
             recs == block_records(k, p, x)
             part == SubSeq(recs, 1, n)
             cs == bs \o part
  <1>1. x \in Extents
    <2>0. Len(os) \in Nat
      BY LenProperties
    <2>1. k + 1 \in 1 .. Len(os)
      BY <2>0
    <2>2. os[k + 1] \in PayloadObjects
      BY <2>1, ElementOfSeq
    <2> QED  BY <2>2 DEF PayloadObjects
  <1> HIDE DEF x
  <1>2. /\ recs \in Seq(BlockRecords) /\ Len(recs) = x.data + x.parity
        /\ x.first \in Nat /\ x.data \in Nat /\ x.parity \in Nat
        /\ \A i \in 1 .. x.data + x.parity :
             /\ recs[i] \in BlockRecords /\ recs[i].block = x.first + i - 1
             /\ recs[i].data <=> i <= x.data
             /\ recs[i].index = k /\ recs[i].plaintext = p
    BY <1>1, RecordsOf
  <1>3. n \in 0 .. Len(recs)
    BY DEF x
  <1> HIDE DEF recs
  <1>4. n \in Nat /\ Len(bs) \in Nat /\ \A i \in 1 .. n : i \in 1 .. x.data + x.parity
    BY <1>2, <1>3, LenProperties
  <1>5. /\ part \in Seq(BlockRecords) /\ Len(part) = n
        /\ \A i \in 1 .. n : part[i] = recs[i]
    <2>1. \A i \in 1 .. n : recs[i] \in BlockRecords
      BY <1>2, <1>4
    <2> QED  BY <1>2, <1>3, <1>4, <2>1, SubSeqProperties
  <1> HIDE DEF part
  <1>6. /\ cs \in Seq(BlockRecords) /\ Len(cs) = Len(bs) + n
        /\ \A i \in 1 .. Len(bs) + n :
              cs[i] = IF i <= Len(bs) THEN bs[i] ELSE part[i - Len(bs)]
    <2>1. bs \in Seq(BlockRecords) /\ part \in Seq(BlockRecords)
      BY <1>5
    <2> QED  BY <1>5, <2>1, ConcatProperties
  <1> HIDE DEF cs
  <1>7. ASSUME NEW i \in 1 .. Len(cs), ~(i <= Len(bs))
        PROVE  /\ i - Len(bs) \in 1 .. n
               /\ cs[i] = recs[i - Len(bs)]
    <2>1. i - Len(bs) \in 1 .. n
      BY <1>4, <1>6, <1>7
    <2> QED  BY <1>5, <1>6, <1>7, <2>1
  <1>8. ASSUME NEW i \in 1 .. Len(cs)
        PROVE  InExtent(os, cs[i]) /\ HoldsFramesOf(fs, cs[i].plaintext, cs[i].index)
    <2>1. CASE i <= Len(bs)
      <3>1. i \in 1 .. Len(bs) /\ cs[i] = bs[i]
        BY <1>4, <1>6, <2>1
      <3> QED  BY <3>1, DescribedEach
    <2>2. CASE ~(i <= Len(bs))
      <3> DEFINE j == i - Len(bs)
                 r == recs[j]
      <3>1. j \in 1 .. n /\ cs[i] = r
        BY <1>7, <2>2
      <3>2. j \in 1 .. x.data + x.parity
        BY <1>4, <3>1
      <3> HIDE DEF j
      <3>3. /\ r.block = x.first + j - 1
            /\ r.data <=> j <= x.data
            /\ r.index = k /\ r.plaintext = p
        BY <1>2, <3>2
      <3> HIDE DEF r
      <3>4. r.block \in x.first .. next_block_index(x) - 1
        <4>1. /\ r.block = x.first + j - 1
              /\ x.first \in Nat /\ x.data \in Nat /\ x.parity \in Nat
              /\ j \in Int /\ 1 <= j /\ j <= x.data + x.parity
          BY <1>2, <3>2, <3>3
        <4>2. next_block_index(x) = x.first + x.data + x.parity
          BY DEF next_block_index
        <4>3. ASSUME NEW a \in Nat, NEW d \in Nat, NEW y \in Nat, NEW m \in Int,
                     1 <= m, m <= d + y
              PROVE  a + m - 1 \in a .. (a + d + y) - 1
          BY <4>3
        <4> QED  BY <4>1, <4>2, <4>3
      <3>5. j <= x.data <=> r.block < x.first + x.data
        <4>1. r.block = x.first + j - 1 /\ j \in Int /\ x.first \in Nat /\ x.data \in Nat
          BY <1>2, <3>2, <3>3
        <4> QED  BY <4>1, SMTT(40)
      <3>6. r.data <=> r.block < x.first + x.data
        BY <3>3, <3>5
      <3>7. InExtent(os, r)
        BY <3>3, <3>4, <3>6 DEF InExtent, x
      <3> QED  BY <3>1, <3>3, <3>7
    <2> QED  BY <2>1, <2>2
  <1>9. DescribesBlocks(fs, os, cs)
    BY <1>6, <1>8, DescribedEach
  <1>10. ASSUME InBlockOrder(bs), x.first = Len(bs)
         PROVE  InBlockOrder(cs)
    <2>1. ASSUME NEW i \in 1 .. Len(cs)
          PROVE  cs[i].block = i - 1
      <3>1. CASE i <= Len(bs)
        <4>1. i \in 1 .. Len(bs) /\ cs[i] = bs[i]
          BY <1>4, <1>6, <3>1
        <4> QED  BY <1>10, <4>1 DEF InBlockOrder
      <3>2. CASE ~(i <= Len(bs))
        <4> DEFINE j == i - Len(bs)
        <4>1. j \in 1 .. n /\ cs[i] = recs[j] /\ j + Len(bs) = i
          BY <1>4, <1>7, <3>2
        <4>2. j \in 1 .. x.data + x.parity
          BY <1>4, <4>1
        <4> HIDE DEF j
        <4>3. cs[i].block = x.first + j - 1
          BY <1>2, <4>1, <4>2
        <4> QED  BY <1>4, <1>10, <4>1, <4>3
      <3> QED  BY <3>1, <3>2
    <2> QED  BY <2>1 DEF InBlockOrder
  <1> QED  BY <1>6, <1>9, <1>10 DEF cs, part, recs, x

\* All of a sequence.
LEMMA WholeSequence ==
    ASSUME NEW S, NEW s \in Seq(S)
    PROVE  SubSeq(s, 1, Len(s)) = s /\ Len(s) \in 0 .. Len(s)
  BY SubSeqFull, LenProperties
=============================================================================
