---------------------------- MODULE TwoPassProofs ----------------------------
(***************************************************************************)
(* Proofs about the two-pass writer, for any files, any rewriting of them  *)
(* at any moment, any compression whose frames are not empty and any valid *)
(* options: what is emitted follows the plan, and no changed content is    *)
(* archived without being reported.                                        *)
(***************************************************************************)
EXTENDS TwoPassWriter, PayloadFramesProofs

Plans == [frames : Seq(PayloadFrameRecords), objects : Seq(PayloadObjects),
          content : Seq(Bytes), total : Nat]

\* Every variable holds a value of its kind.
TypeOK ==
    /\ pc \in {"plan", "emit", "ok", "err", "io_err"}
    /\ scanned \in [DOMAIN Members -> Versions] /\ file \in [DOMAIN Members -> Versions]
    /\ member \in 1 .. Len(Members) + 1 /\ offset \in Nat
    /\ pushback \in Seq(Bytes) /\ stream_pos \in Nat
    /\ envelope \in Envelopes /\ next_block \in Nat
    /\ plan \in Plans /\ frame \in Nat
    /\ emitted \in Seq(BlockRecords) /\ written \in Seq(Bytes)

\* The bytes pushed back are the next ones of the file being read, and fit the
\* next chunk.
ReadingInPlace ==
    /\ member <= Len(Members) => /\ offset < Members[member]
                                 /\ offset + Len(pushback) <= Members[member]
    /\ member > Len(Members) => pushback = <<>>
    /\ Len(pushback) <= Options.chunk_size
    /\ pc = "ok" => member > Len(Members)

\* Bytes of the file being read are still to be read: its identity will be
\* checked again.
unread == member <= Len(Members) /\ offset + Len(pushback) < Members[member]

\* A byte that is not the scanned one is of a file that is reported, or will be.
Accounted(b) ==
    b.version # scanned[b.file]
      => b.file \in touched /\ (b.file \in noted \/ (b.file = member /\ unread))

ChangesSeen ==
    /\ \A f \in DOMAIN Members : file[f] # scanned[f] => f \in touched
    /\ \A i \in 1 .. Len(pushback) : pushback[i].file = member /\ Accounted(pushback[i])
    /\ \A i \in 1 .. Len(written) : Accounted(written[i])

\* Where object k of a layout starts.
StartOf(os, k) == IF k = 1 THEN 0 ELSE next_block_index(os[k - 1].extent)

\* The objects are laid out one after the other.
LaidOut(os) ==
    \A k \in 1 .. Len(os) :
        /\ payload_object_can_fit(Options, os[k].len)
        /\ os[k] = [index |-> k - 1, len |-> os[k].len,
                    extent |-> object_extent(Options, StartOf(os, k), os[k].len)]

\* The plan, as far as it got: its frames are packed into its objects and none
\* is empty.  Nothing is written before it is complete.
PlanInPlace ==
    /\ LaidOut(plan.objects)
    /\ \A i \in 1 .. Len(plan.frames) : plan.frames[i].len > 0
    /\ pc = "plan" =>
          /\ PackedSoFar(Options, plan.frames, plan.objects, envelope)
          /\ next_block = StartOf(plan.objects, Len(plan.objects) + 1)
          /\ frame = 0 /\ emitted = <<>> /\ written = <<>>
    /\ pc \in {"emit", "ok"} =>
          /\ PackedSoFar(Options, plan.frames, plan.objects, EmptyEnvelope(Len(plan.objects)))
          /\ plan.total = StartOf(plan.objects, Len(plan.objects) + 1)

\* What the emission has packed and sealed is the beginning of the plan, and all
\* that was sealed is written.
EmissionInPlace ==
    /\ pc \in {"emit", "ok"} =>
          /\ frame <= Len(plan.frames) /\ envelope.index <= Len(plan.objects)
          /\ PackedSoFar(Options, SubSeq(plan.frames, 1, frame),
                         SubSeq(plan.objects, 1, envelope.index), envelope)
          /\ next_block = StartOf(plan.objects, envelope.index + 1)
          /\ Len(emitted) = next_block
    /\ pc = "ok" => frame = Len(plan.frames) /\ envelope.index = Len(plan.objects)

\* What is written is described by the plan.
EmittedAsPlanned ==
    InBlockOrder(emitted) /\ DescribesBlocks(plan.frames, plan.objects, emitted)

TwoPassInv ==
    /\ TypeOK /\ ReadingInPlace /\ ChangesSeen
    /\ PlanInPlace /\ EmissionInPlace /\ EmittedAsPlanned

-----------------------------------------------------------------------------
(***************************************************************************)
(* Prefixes                                                                *)
(***************************************************************************)

\* The first n elements of a sequence, and the next one.
LEMMA Prefix ==
    ASSUME NEW S, NEW s \in Seq(S), NEW n \in 0 .. Len(s)
    PROVE  /\ SubSeq(s, 1, n) \in Seq(S) /\ Len(SubSeq(s, 1, n)) = n
           /\ \A i \in 1 .. n : SubSeq(s, 1, n)[i] = s[i]
  <1>1. Len(s) \in Nat /\ n \in Nat /\ n <= Len(s)
    BY LenProperties
  <1>2. \A i \in 1 .. n : s[i] \in S
    BY <1>1, ElementOfSeq
  <1> QED  BY <1>1, <1>2, SubSeqProperties

LEMMA LongerPrefix ==
    ASSUME NEW S, NEW s \in Seq(S), NEW n \in Nat, n < Len(s)
    PROVE  SubSeq(s, 1, n + 1) = Append(SubSeq(s, 1, n), s[n + 1])
  <1> DEFINE p == SubSeq(s, 1, n)
             q == SubSeq(s, 1, n + 1)
             x == s[n + 1]
             r == Append(p, x)
  <1>1. Len(s) \in Nat
    BY LenProperties
  <1>2. n \in 0 .. Len(s) /\ n + 1 \in 0 .. Len(s) /\ n + 1 \in 1 .. Len(s)
    BY <1>1
  <1>3. p \in Seq(S) /\ Len(p) = n /\ \A i \in 1 .. n : p[i] = s[i]
    BY <1>2, Prefix
  <1>4. q \in Seq(S) /\ Len(q) = n + 1 /\ \A i \in 1 .. n + 1 : q[i] = s[i]
    <2> DEFINE m == n + 1
    <2>1. m \in 0 .. Len(s)
      BY <1>2
    <2> HIDE DEF m
    <2>2. /\ SubSeq(s, 1, m) \in Seq(S) /\ Len(SubSeq(s, 1, m)) = m
          /\ \A i \in 1 .. m : SubSeq(s, 1, m)[i] = s[i]
      BY <2>1, Prefix
    <2> QED  BY <2>2 DEF m
  <1>5. x \in S
    BY <1>2, ElementOfSeq
  <1> HIDE DEF p, q, x
  <1>6. /\ r \in Seq(S) /\ Len(r) = n + 1
        /\ \A i \in 1 .. n : r[i] = p[i]
        /\ r[n + 1] = x
    BY <1>3, <1>5, AppendedTo
  <1> HIDE DEF r
  <1>7. \A i \in 1 .. n + 1 : q[i] = r[i]
    <2> TAKE i \in 1 .. n + 1
    <2>1. i \in 1 .. n \/ i = n + 1
      OBVIOUS
    <2> QED  BY <1>3, <1>4, <1>6, <2>1 DEF x
  <1>8. q = [i \in 1 .. n + 1 |-> q[i]] /\ r = [i \in 1 .. n + 1 |-> r[i]]
    BY <1>4, <1>6, SeqDef, LenProperties
  <1>9. q = r
    BY <1>7, <1>8
  <1> QED  BY <1>9 DEF p, q, r, x

-----------------------------------------------------------------------------
(***************************************************************************)
(* Halving                                                                 *)
(***************************************************************************)

\* One turn of the loop that halves a chunk, and the function it computes for
\* every length up to n.
fits(c, m) == payload_object_can_fit(Options, Compress(SubSeq(c, 1, m)))
half_next(c, g, m) == IF m = 0 \/ fits(c, m) THEN m ELSE g[m \div 2]
halves_to(c, g, n) == g = [m \in 0 .. n |-> half_next(c, g, m)]

LEMMA HalfIsLess ==
    ASSUME NEW m \in Nat \ {0}
    PROVE  m \div 2 \in 0 .. m - 1
  OBVIOUS

LEMMA HalvingExists ==
    ASSUME NEW c, NEW n \in Nat
    PROVE  \E g : halves_to(c, g, n)
  <1> DEFINE T == {k \in Nat : ~ \E g : halves_to(c, g, k)}
  <1>1. SUFFICES ASSUME T # {} PROVE FALSE
    OBVIOUS
  <1>2. PICK m \in T : \A k \in T : m <= k
    <2>1. T \subseteq Nat
      OBVIOUS
    <2> HIDE DEF T
    <2> QED  BY <1>1, <2>1, LeastNumber
  <1>3. m \in Nat /\ ~ \E g : halves_to(c, g, m)
    OBVIOUS
  <1>4. CASE m = 0
    <2> DEFINE h == [i \in 0 .. 0 |-> 0]
    <2>1. h = [i \in 0 .. 0 |-> half_next(c, h, i)]
      BY DEF half_next
    <2> QED  BY <1>3, <1>4, <2>1 DEF halves_to
  <1>5. CASE m # 0
    <2>1. m - 1 \in Nat /\ m - 1 \notin T
      BY <1>2, <1>3, <1>5
    <2>2. PICK g : halves_to(c, g, m - 1)
      BY <2>1
    <2>3. \A i \in 0 .. m - 1 : g[i] = half_next(c, g, i)
      BY <2>2 DEF halves_to
    <2> DEFINE h == [i \in 0 .. m |-> IF i = m THEN half_next(c, g, m) ELSE g[i]]
    <2>4. \A i \in 0 .. m : h[i] = half_next(c, h, i)
      <3> TAKE i \in 0 .. m
      <3>1. i = 0 \/ (i \div 2 \in 0 .. m - 1 /\ h[i \div 2] = g[i \div 2])
        <4>1. i = 0 \/ i \div 2 \in 0 .. i - 1
          BY <1>3, HalfIsLess
        <4>2. i = 0 \/ (i \div 2 \in 0 .. m - 1 /\ i \div 2 # m /\ i \div 2 \in 0 .. m)
          BY <1>3, <4>1
        <4> QED  BY <4>2
      <3>2. half_next(c, h, i) = half_next(c, g, i)
        BY <3>1 DEF half_next
      <3> QED  BY <1>3, <2>3, <3>2
    <2>5. h = [i \in 0 .. m |-> h[i]]
      OBVIOUS
    <2>6. h = [i \in 0 .. m |-> half_next(c, h, i)]
      <3> HIDE DEF h
      <3> QED  BY <2>4, <2>5
    <2>7. halves_to(c, h, m)
      <3> HIDE DEF h
      <3> QED  BY <2>6 DEF halves_to
    <2> QED  BY <1>3, <2>7
  <1> QED  BY <1>4, <1>5

\* Halving ends at a length that fits, or at 0.
LEMMA HalvingFits ==
    ASSUME NEW c, NEW n \in Nat, NEW g, halves_to(c, g, n), NEW m \in 0 .. n
    PROVE  g[m] \in 0 .. m /\ (g[m] > 0 => fits(c, g[m]))
  <1> DEFINE good(k) == g[k] \in 0 .. k /\ (g[k] > 0 => fits(c, g[k]))
             T == {k \in 0 .. n : ~good(k)}
  <1>1. SUFFICES ASSUME T # {} PROVE FALSE
    OBVIOUS
  <1>2. PICK l \in T : \A k \in T : l <= k
    <2>1. T \subseteq Nat
      OBVIOUS
    <2> HIDE DEF T
    <2> QED  BY <1>1, <2>1, LeastNumber
  <1>3. l \in 0 .. n /\ ~good(l)
    OBVIOUS
  <1>4. g[l] = half_next(c, g, l)
    BY <1>3 DEF halves_to
  <1>5. l # 0 /\ ~fits(c, l)
    BY <1>3, <1>4 DEF half_next
  <1>6. g[l] = g[l \div 2]
    BY <1>4, <1>5 DEF half_next
  <1>7. l \div 2 \in 0 .. l - 1
    BY <1>3, <1>5, HalfIsLess
  <1> DEFINE k == l \div 2
  <1>8. k \in 0 .. n /\ k \notin T /\ k < l
    BY <1>2, <1>3, <1>7
  <1>9. good(k)
    BY <1>8
  <1> HIDE DEF k
  <1>10. g[l] = g[k]
    BY <1>6 DEF k
  <1> QED  BY <1>3, <1>8, <1>9, <1>10

-----------------------------------------------------------------------------
(***************************************************************************)
(* A planned envelope of the same length holds the same frames             *)
(***************************************************************************)

\* A frame follows the one before it in the same envelope, or starts the next.
LEMMA NextFrame ==
    ASSUME NEW fs \in Seq(PayloadFrameRecords), NEW os, TilesEnvelopes(fs, os),
           NEW j \in 2 .. Len(fs)
    PROVE  /\ j - 1 \in 1 .. Len(fs)
           /\ \/ /\ fs[j].envelope = fs[j - 1].envelope
                 /\ fs[j].offset = fs[j - 1].offset + fs[j - 1].len
              \/ fs[j].envelope = fs[j - 1].envelope + 1
  <1>1. Len(fs) \in Nat /\ DOMAIN fs = 1 .. Len(fs)
    BY LenProperties
  <1>2. j \in DOMAIN fs /\ j # 1 /\ j - 1 \in 1 .. Len(fs)
    BY <1>1
  <1> QED  BY <1>2 DEF TilesEnvelopes, starts_envelope

LEMMA FrameTypes ==
    ASSUME NEW fs \in Seq(PayloadFrameRecords), NEW i \in 1 .. Len(fs)
    PROVE  fs[i].envelope \in Nat /\ fs[i].offset \in Nat /\ fs[i].len \in Nat
  <1>1. fs[i] \in PayloadFrameRecords
    BY ElementOfSeq
  <1> QED  BY <1>1 DEF PayloadFrameRecords

\* Frames are recorded in the order of their envelopes.
LEMMA EnvelopesAscend ==
    ASSUME NEW fs \in Seq(PayloadFrameRecords), NEW os, TilesEnvelopes(fs, os),
           NEW i \in 1 .. Len(fs), NEW j \in 1 .. Len(fs), i <= j
    PROVE  fs[i].envelope <= fs[j].envelope
  <1> DEFINE T == {k \in i .. Len(fs) : ~(fs[i].envelope <= fs[k].envelope)}
  <1>0. Len(fs) \in Nat
    BY LenProperties
  <1>1. SUFFICES ASSUME T # {} PROVE FALSE
    BY <1>0
  <1>2. PICK l \in T : \A k \in T : l <= k
    <2>1. T \subseteq Nat
      BY <1>0
    <2> HIDE DEF T
    <2> QED  BY <1>1, <2>1, LeastNumber
  <1>3. l \in i .. Len(fs) /\ ~(fs[i].envelope <= fs[l].envelope)
    OBVIOUS
  <1>4. l # i
    <2>1. fs[i].envelope \in Nat
      BY FrameTypes
    <2> QED  BY <1>3, <2>1
  <1>5. l \in 2 .. Len(fs) /\ l - 1 \in i .. Len(fs) /\ l - 1 \in 1 .. Len(fs) /\ l - 1 < l
    BY <1>0, <1>3, <1>4
  <1>6. fs[i].envelope <= fs[l - 1].envelope
    BY <1>2, <1>5
  <1>7. fs[l].envelope = fs[l - 1].envelope \/ fs[l].envelope = fs[l - 1].envelope + 1
    BY <1>5, NextFrame
  <1>8. fs[i].envelope \in Nat /\ fs[l - 1].envelope \in Nat
    BY <1>5, FrameTypes
  <1> QED  BY <1>3, <1>6, <1>7, <1>8

\* Within an envelope a frame starts behind every earlier one.
LEMMA OffsetsAscend ==
    ASSUME NEW fs \in Seq(PayloadFrameRecords), NEW os, TilesEnvelopes(fs, os),
           NEW i \in 1 .. Len(fs), NEW j \in 1 .. Len(fs), i < j,
           fs[i].envelope = fs[j].envelope
    PROVE  fs[i].offset + fs[i].len <= fs[j].offset
  <1> DEFINE late(k) == fs[k].envelope = fs[i].envelope
                          => fs[i].offset + fs[i].len <= fs[k].offset
             T == {k \in i + 1 .. Len(fs) : ~late(k)}
  <1>0. Len(fs) \in Nat
    BY LenProperties
  <1>1. SUFFICES ASSUME T # {} PROVE FALSE
    BY <1>0
  <1>2. PICK l \in T : \A k \in T : l <= k
    <2>1. T \subseteq Nat
      BY <1>0
    <2> HIDE DEF T
    <2> QED  BY <1>1, <2>1, LeastNumber
  <1>3. /\ l \in i + 1 .. Len(fs) /\ fs[l].envelope = fs[i].envelope
        /\ ~(fs[i].offset + fs[i].len <= fs[l].offset)
    OBVIOUS
  <1>4. /\ l \in 2 .. Len(fs) /\ l - 1 \in 1 .. Len(fs) /\ i <= l - 1 /\ l - 1 < l
        /\ l - 1 = i \/ l - 1 \in i + 1 .. Len(fs)
    BY <1>0, <1>3
  <1>5. /\ fs[i].envelope \in Nat /\ fs[i].offset \in Nat /\ fs[i].len \in Nat
        /\ fs[l - 1].envelope \in Nat /\ fs[l - 1].offset \in Nat /\ fs[l - 1].len \in Nat
    BY <1>4, FrameTypes
  <1>6. fs[i].envelope <= fs[l - 1].envelope
    BY <1>4, EnvelopesAscend
  <1>7. /\ fs[l - 1].envelope = fs[i].envelope
        /\ fs[l].offset = fs[l - 1].offset + fs[l - 1].len
    <2>1. \/ /\ fs[l].envelope = fs[l - 1].envelope
             /\ fs[l].offset = fs[l - 1].offset + fs[l - 1].len
          \/ fs[l].envelope = fs[l - 1].envelope + 1
      BY <1>4, NextFrame
    <2> QED  BY <1>3, <1>5, <1>6, <2>1
  <1>8. CASE l - 1 = i
    BY <1>3, <1>5, <1>7, <1>8
  <1>9. CASE l - 1 \in i + 1 .. Len(fs)
    <2>1. late(l - 1)
      BY <1>2, <1>4, <1>9
    <2>2. fs[i].offset + fs[i].len <= fs[l - 1].offset
      BY <1>7, <2>1
    <2> QED  BY <1>3, <1>5, <1>7, <2>2, SMTT(40)
  <1> QED  BY <1>4, <1>8, <1>9

\* If no frame is empty, the frame that reaches the end of a sealed envelope is
\* the last one in it.
LEMMA LastOfEnvelope ==
    ASSUME NEW fs \in Seq(PayloadFrameRecords), NEW os, TilesEnvelopes(fs, os),
           Len(os) \in Nat, \A m \in 1 .. Len(fs) : fs[m].len > 0,
           NEW i \in 1 .. Len(fs), fs[i].envelope < Len(os),
           os[fs[i].envelope + 1].len = fs[i].offset + fs[i].len,
           NEW j \in 1 .. Len(fs), i < j
    PROVE  fs[j].envelope # fs[i].envelope
  <1> DEFINE e == fs[i].envelope
             T == {k \in 0 .. Len(fs) - 1 : fs[Len(fs) - k].envelope = e}
  <1>0. Len(fs) \in Nat /\ DOMAIN fs = 1 .. Len(fs)
    BY LenProperties
  <1>1. SUFFICES ASSUME fs[j].envelope = e PROVE FALSE
    OBVIOUS
  <1>2. PICK k \in T : \A m \in T : k <= m
    <2>1. Len(fs) - j \in 0 .. Len(fs) - 1 /\ Len(fs) - (Len(fs) - j) = j
      BY <1>0
    <2>2. Len(fs) - j \in T
      BY <1>1, <2>1
    <2>3. T \subseteq Nat
      BY <1>0
    <2> HIDE DEF T
    <2> QED  BY <2>2, <2>3, LeastNumber
  <1> DEFINE l == Len(fs) - k
  <1>3. k \in 0 .. Len(fs) - 1 /\ l \in 1 .. Len(fs) /\ fs[l].envelope = e
    BY <1>0
  <1>4. l >= j
    <2>1. Len(fs) - j \in 0 .. Len(fs) - 1 /\ Len(fs) - (Len(fs) - j) = j
      BY <1>0
    <2>2. k <= Len(fs) - j
      BY <1>1, <1>2, <2>1
    <2> QED  BY <1>0, <1>3, <2>2
  <1>5. l = Len(fs) \/ fs[l + 1].envelope # e
    <2> SUFFICES ASSUME l # Len(fs), fs[l + 1].envelope = e
                 PROVE  FALSE
      OBVIOUS
    <2>a. ASSUME NEW a \in Nat, NEW b \in 0 .. a - 1, a - b # a
          PROVE  b \in Int /\ b - 1 \in 0 .. a - 1 /\ a - (b - 1) = (a - b) + 1
      BY <2>a
    <2>0. k \in Int /\ k - 1 \in 0 .. Len(fs) - 1 /\ Len(fs) - (k - 1) = (Len(fs) - k) + 1
      <3> HIDE DEF T
      <3> QED  BY <1>0, <1>3, <2>a
    <2>1. k - 1 \in 0 .. Len(fs) - 1 /\ Len(fs) - (k - 1) = l + 1
      BY <2>0
    <2>2. k - 1 \in T
      BY <2>1
    <2>3. k <= k - 1
      BY <1>2, <2>2
    <2> QED  BY <2>0, <2>3
  <1> HIDE DEF l
  <1>6. os[e + 1].len = fs[l].offset + fs[l].len
    <2>1. l \in DOMAIN fs /\ ends_envelope(fs, l) /\ fs[l].envelope < Len(os)
      BY <1>0, <1>3, <1>5 DEF ends_envelope
    <2> QED  BY <1>3, <2>1 DEF TilesEnvelopes
  <1>7. fs[i].offset + fs[i].len <= fs[l].offset
    <2>1. i < l /\ l \in 1 .. Len(fs)
      BY <1>0, <1>3, <1>4
    <2> QED  BY <1>3, <2>1, OffsetsAscend
  <1>8. /\ fs[i].offset \in Nat /\ fs[i].len \in Nat
        /\ fs[l].offset \in Nat /\ fs[l].len \in Nat /\ fs[l].len > 0
    BY <1>3, FrameTypes
  <1>9. fs[l].offset + fs[l].len = fs[i].offset + fs[i].len
    BY <1>6
  <1> QED  BY <1>7, <1>8, <1>9, SMTT(40)

\* A plaintext of all the frames of an envelope among the first n holds all of
\* its frames, if no later one is of it.
LEMMA HeldByPrefix ==
    ASSUME NEW fs \in Seq(PayloadFrameRecords), NEW n \in 0 .. Len(fs), NEW p, NEW k,
           HoldsFramesOf(SubSeq(fs, 1, n), p, k),
           \A j \in n + 1 .. Len(fs) : fs[j].envelope # k
    PROVE  HoldsFramesOf(fs, p, k)
  <1> DEFINE gs == SubSeq(fs, 1, n)
  <1>1. Len(fs) \in Nat /\ DOMAIN fs = 1 .. Len(fs)
    BY LenProperties
  <1>2. gs \in Seq(PayloadFrameRecords) /\ Len(gs) = n /\ \A i \in 1 .. n : gs[i] = fs[i]
    BY Prefix
  <1>3. DOMAIN gs = 1 .. n
    BY <1>2, LenProperties
  <1> HIDE DEF gs
  <1>4. \A i \in DOMAIN gs : i \in DOMAIN fs /\ gs[i] = fs[i]
    BY <1>1, <1>2, <1>3
  <1>5. \A i \in DOMAIN fs : (i \in DOMAIN gs /\ gs[i] = fs[i]) \/ fs[i].envelope # k
    <2> TAKE i \in DOMAIN fs
    <2>1. i \in 1 .. n \/ i \in n + 1 .. Len(fs)
      BY <1>1
    <2> QED  BY <1>2, <1>3, <2>1
  <1>6. \A i \in frames_in(gs, k) : i \in frames_in(fs, k) /\ gs[i] = fs[i]
    BY <1>4 DEF frames_in
  <1>7. \A i \in frames_in(fs, k) : i \in frames_in(gs, k) /\ gs[i] = fs[i]
    BY <1>5 DEF frames_in
  <1>8. {gs[i].frame : i \in frames_in(gs, k)} = {fs[i].frame : i \in frames_in(fs, k)}
    BY <1>6, <1>7
  <1> QED  BY <1>8 DEF HoldsFramesOf, gs

\* The envelope being filled holds all planned frames of the planned envelope
\* whose length it has.
LEMMA PlannedFramesHeld ==
    ASSUME NEW o, NEW fs, NEW os, NEW d, PackedSoFar(o, fs, os, d),
           \A m \in 1 .. Len(fs) : fs[m].len > 0,
           NEW n \in 0 .. Len(fs), NEW e, e.index < Len(os),
           PackedSoFar(o, SubSeq(fs, 1, n), SubSeq(os, 1, e.index), e),
           e.plaintext # <<>>, os[e.index + 1].len = e.len
    PROVE  HoldsFramesOf(fs, e.plaintext, e.index)
  <1> DEFINE gs == SubSeq(fs, 1, n)
  <1>1. /\ fs \in Seq(PayloadFrameRecords) /\ Len(fs) \in Nat /\ Len(os) \in Nat
        /\ TilesEnvelopes(fs, os)
    BY IndexTypes DEF PackedSoFar
  <1>2. Len(gs) = n /\ \A i \in 1 .. n : gs[i] = fs[i]
    BY <1>1, Prefix
  <1>3. Filling(gs, e) /\ (gs = <<>> <=> Len(gs) = 0)
    <2>1. Filling(gs, e)
      BY DEF PackedSoFar
    <2>2. gs \in Seq(PayloadFrameRecords)
      BY <1>1, Prefix
    <2> QED  BY <2>1, <2>2, EmptySeq, LenProperties
  <1> HIDE DEF gs
  <1>4. /\ n # 0 /\ gs[Len(gs)].envelope = e.index
        /\ gs[Len(gs)].offset + gs[Len(gs)].len = e.len
        /\ HoldsFramesOf(gs, e.plaintext, e.index)
    BY <1>2, <1>3 DEF Filling
  <1>5. n \in 1 .. Len(fs) /\ n \in 1 .. n
    BY <1>1, <1>4
  <1>6. fs[n].envelope = e.index /\ fs[n].offset + fs[n].len = e.len
    BY <1>2, <1>4, <1>5
  <1>7. \A j \in n + 1 .. Len(fs) : fs[j].envelope # e.index
    <2> TAKE j \in n + 1 .. Len(fs)
    <2>1. j \in 1 .. Len(fs) /\ n < j
      BY <1>1, <1>5
    <2> QED  BY <1>1, <1>5, <1>6, <2>1, LastOfEnvelope
  <1> QED  BY <1>1, <1>4, <1>7, HeldByPrefix DEF gs

-----------------------------------------------------------------------------
(***************************************************************************)
(* Layout                                                                  *)
(***************************************************************************)

\* What is assumed of the constants.
Assumptions == InputAssumption /\ OptionsAssumption /\ CompressAssumption

\* An object that fits is laid out behind the others.
LEMMA LayoutGrows ==
    ASSUME Assumptions, NEW os \in Seq(PayloadObjects), LaidOut(os),
           NEW first \in Nat, first = StartOf(os, Len(os) + 1),
           NEW e \in Envelopes, e.index = Len(os), payload_object_can_fit(Options, e.len)
    PROVE  LET b  == payload_object(Options, first, e)
               bs == Append(os, b)
           IN  /\ b \in PayloadObjects /\ bs \in Seq(PayloadObjects) /\ LaidOut(bs)
               /\ Len(bs) = Len(os) + 1
               /\ next_block_index(b.extent) = StartOf(bs, Len(bs) + 1)
               /\ next_block_index(b.extent) \in Nat
  <1> DEFINE b  == payload_object(Options, first, e)
             bs == Append(os, b)
  <1>0. ValidOptions(Options)
    BY DEF Assumptions, OptionsAssumption
  <1>1. b \in PayloadObjects /\ b.len = e.len /\ next_block_index(b.extent) \in Nat
    BY <1>0, PlannedObject
  <1>2. b = [index |-> Len(os), len |-> b.len,
             extent |-> object_extent(Options, first, b.len)]
    BY <1>1 DEF payload_object
  <1> HIDE DEF b
  <1>3. /\ Len(os) \in Nat /\ bs \in Seq(PayloadObjects) /\ Len(bs) = Len(os) + 1
        /\ \A i \in 1 .. Len(os) : bs[i] = os[i]
        /\ bs[Len(os) + 1] = b
    BY <1>1, AppendedTo
  <1> HIDE DEF bs
  <1>4. \A k \in 1 .. Len(os) + 1 : StartOf(bs, k) = StartOf(os, k)
    <2> TAKE k \in 1 .. Len(os) + 1
    <2>1. k = 1 \/ k - 1 \in 1 .. Len(os)
      BY <1>3
    <2> QED  BY <1>3, <2>1 DEF StartOf
  <1>5. LaidOut(bs)
    <2> SUFFICES ASSUME NEW k \in 1 .. Len(bs)
                 PROVE  /\ payload_object_can_fit(Options, bs[k].len)
                        /\ bs[k] = [index |-> k - 1, len |-> bs[k].len,
                              extent |-> object_extent(Options, StartOf(bs, k), bs[k].len)]
      BY DEF LaidOut
    <2>0. k \in 1 .. Len(os) + 1
      BY <1>3
    <2>1. CASE k \in 1 .. Len(os)
      <3>1. bs[k] = os[k] /\ StartOf(bs, k) = StartOf(os, k)
        BY <1>3, <1>4, <2>0, <2>1
      <3> QED  BY <2>1, <3>1 DEF LaidOut
    <2>2. CASE k = Len(os) + 1
      <3>1. bs[k] = b /\ StartOf(bs, k) = first /\ k - 1 = Len(os)
        BY <1>3, <1>4, <2>0, <2>2
      <3> QED  BY <1>1, <1>2, <3>1
    <2> QED  BY <1>3, <2>0, <2>1, <2>2
  <1>6. StartOf(bs, Len(bs) + 1) = next_block_index(b.extent)
    <2>1. Len(bs) + 1 # 1 /\ (Len(bs) + 1) - 1 = Len(os) + 1
      BY <1>3
    <2> QED  BY <1>3, <2>1 DEF StartOf
  <1> QED  BY <1>1, <1>3, <1>5, <1>6 DEF b, bs

\* An envelope of the planned length, sealed where the plan says, is the planned
\* object.
LEMMA PlannedAgain ==
    ASSUME NEW os \in Seq(PayloadObjects), LaidOut(os),
           NEW e \in Envelopes, e.index < Len(os), os[e.index + 1].len = e.len
    PROVE  /\ payload_object(Options, StartOf(os, e.index + 1), e) = os[e.index + 1]
           /\ payload_object_can_fit(Options, e.len)
           /\ next_block_index(os[e.index + 1].extent) = StartOf(os, (e.index + 1) + 1)
           /\ os[e.index + 1] \in PayloadObjects
           /\ e.index + 1 \in 1 .. Len(os)
           /\ os[e.index + 1].extent.first = StartOf(os, e.index + 1)
  <1> DEFINE k == e.index + 1
  <1>1. /\ e.index \in Nat /\ k \in 1 .. Len(os) /\ k - 1 = e.index
        /\ k + 1 # 1 /\ (k + 1) - 1 = k
    BY LenProperties DEF Envelopes
  <1>2. os[k].len = e.len
    OBVIOUS
  <1> HIDE DEF k
  <1>3. /\ payload_object_can_fit(Options, os[k].len)
        /\ os[k] = [index |-> k - 1, len |-> os[k].len,
                    extent |-> object_extent(Options, StartOf(os, k), os[k].len)]
    BY <1>1 DEF LaidOut
  <1>4. os[k] \in PayloadObjects
    BY <1>1, ElementOfSeq
  <1>5. payload_object(Options, StartOf(os, k), e) = os[k]
    BY <1>1, <1>2, <1>3 DEF payload_object
  <1>6. os[k].extent = object_extent(Options, StartOf(os, k), os[k].len)
    BY <1>3
  <1>7. os[k].extent.first = StartOf(os, k)
    BY <1>6 DEF object_extent
  <1> QED  BY <1>1, <1>2, <1>3, <1>4, <1>5, <1>7 DEF StartOf, k

-----------------------------------------------------------------------------
(***************************************************************************)
(* Chunks                                                                  *)
(***************************************************************************)

\* The chunk: the bytes pushed back, then the file as it is now.
LEMMA ChunkShape ==
    ASSUME Assumptions, TypeOK, ReadingInPlace, reading
    PROVE  /\ member \in DOMAIN Members /\ Members[member] \in Nat /\ member \in Nat \ {0}
           /\ Len(pushback) \in Nat /\ Options.chunk_size \in Nat
           /\ chunk \in Seq(Bytes) /\ Len(chunk) \in Nat
           /\ Len(pushback) <= Len(chunk) /\ Len(chunk) <= Options.chunk_size
           /\ offset + Len(chunk) <= Members[member]
           /\ \A i \in 1 .. Len(chunk) :
                \/ i \in 1 .. Len(pushback) /\ chunk[i] = pushback[i]
                \/ /\ chunk[i] = [file |-> member, version |-> file[member]]
                   /\ Len(pushback) < Len(chunk)
  <1>1. Options.chunk_size \in Nat
    BY DEF Assumptions, OptionsAssumption, ValidOptions, ValidRequest, OptionFields
  <1>2. /\ member \in 1 .. Len(Members) /\ offset < Members[member]
        /\ offset + Len(pushback) <= Members[member]
        /\ Len(pushback) <= Options.chunk_size
    BY LenProperties DEF TypeOK, ReadingInPlace, reading, Assumptions, InputAssumption
  <1>3. /\ member \in DOMAIN Members /\ Members[member] \in Nat /\ member \in Nat \ {0}
        /\ offset \in Nat /\ pushback \in Seq(Bytes) /\ Len(pushback) \in Nat
        /\ file[member] \in Versions
    <2>1. Members \in Seq(Nat \ {0})
      BY DEF Assumptions, InputAssumption
    <2>2. DOMAIN Members = 1 .. Len(Members) /\ Members[member] \in Nat \ {0}
      BY <1>2, <2>1, LenProperties, ElementOfSeq
    <2>3. file \in [DOMAIN Members -> Versions]
      BY DEF TypeOK
    <2> QED  BY <1>2, <2>2, <2>3, LenProperties DEF TypeOK
  <1> DEFINE n == chunk_limit - Len(pushback)
             b == [file |-> member, version |-> file[member]]
             fresh == [i \in 1 .. n |-> b]
  <1>4. /\ chunk_limit \in Nat /\ offset + chunk_limit <= Members[member]
        /\ chunk_limit <= Options.chunk_size /\ Len(pushback) <= chunk_limit
    <2>1. chunk_limit = IF Members[member] - offset < Options.chunk_size
                        THEN Members[member] - offset ELSE Options.chunk_size
      BY DEF chunk_limit
    <2> QED  BY <1>1, <1>2, <1>3, <2>1
  <1>5. n \in Nat /\ Len(pushback) + n = chunk_limit
    BY <1>3, <1>4
  <1>6. b \in Bytes
    BY <1>3 DEF Bytes
  <1>c. chunk = pushback \o fresh
    BY DEF chunk
  <1> HIDE DEF n, b
  <1>7. fresh \in Seq(Bytes) /\ Len(fresh) = n /\ \A i \in 1 .. n : fresh[i] = b
    <2>1. fresh \in [1 .. n -> Bytes]
      BY <1>6
    <2> QED  BY <1>5, <2>1, SeqDef
  <1> HIDE DEF fresh
  <1>8. /\ chunk \in Seq(Bytes) /\ Len(chunk) = Len(pushback) + n
        /\ \A i \in 1 .. Len(pushback) + n :
             chunk[i] = IF i <= Len(pushback) THEN pushback[i] ELSE fresh[i - Len(pushback)]
    BY <1>3, <1>7, <1>c, ConcatProperties, ZenonT(60)
  <1>9. ASSUME NEW i \in 1 .. Len(chunk)
        PROVE  \/ i \in 1 .. Len(pushback) /\ chunk[i] = pushback[i]
               \/ chunk[i] = b /\ Len(pushback) < Len(chunk)
    <2>1. CASE i <= Len(pushback)
      BY <1>3, <1>5, <1>8, <2>1
    <2>2. CASE ~(i <= Len(pushback))
      <3>1. i - Len(pushback) \in 1 .. n /\ Len(pushback) < Len(chunk)
        BY <1>3, <1>5, <1>8, <2>2
      <3> QED  BY <1>7, <1>8, <2>2, <3>1
    <2> QED  BY <2>1, <2>2
  <1> QED  BY <1>1, <1>3, <1>4, <1>5, <1>8, <1>9 DEF b

\* The part of the chunk that becomes a frame, and the rest.
LEMMA ChunkTaken ==
    ASSUME Assumptions, TypeOK, ReadingInPlace, reading
    PROVE  LET rest == SubSeq(chunk, chunk_len + 1, Len(chunk))
           IN  /\ chunk_len \in 0 .. Len(chunk) /\ chunk_len \in Nat
               /\ packed \in Seq(Bytes) /\ Len(packed) = chunk_len
               /\ \A i \in 1 .. chunk_len : packed[i] = chunk[i] /\ i \in 1 .. Len(chunk)
               /\ rest \in Seq(Bytes) /\ Len(rest) = Len(chunk) - chunk_len
               /\ \A i \in 1 .. Len(rest) : /\ chunk_len + i \in 1 .. Len(chunk)
                                            /\ rest[i] = chunk[chunk_len + i]
               /\ chunk_len > 0 => /\ frame_len \in Nat \ {0}
                                   /\ payload_object_can_fit(Options, frame_len)
  <1>1. /\ chunk \in Seq(Bytes) /\ Len(chunk) \in Nat /\ Options.chunk_size \in Nat
        /\ Len(chunk) <= Options.chunk_size
    BY ChunkShape
  <1>2. chunk_len \in 0 .. Len(chunk) /\ (chunk_len > 0 => fits(chunk, chunk_len))
    <2> DEFINE g == CHOOSE f : halves_to(chunk, f, Options.chunk_size)
    <2>1. chunk_len = g[Len(chunk)]
      BY DEF chunk_len, halves_to, half_next, fits
    <2>2. halves_to(chunk, g, Options.chunk_size)
      BY <1>1, HalvingExists
    <2> HIDE DEF g
    <2>3. Len(chunk) \in 0 .. Options.chunk_size
      BY <1>1
    <2>4. g[Len(chunk)] \in 0 .. Len(chunk)
            /\ (g[Len(chunk)] > 0 => fits(chunk, g[Len(chunk)]))
      BY <1>1, <2>2, <2>3, HalvingFits
    <2> QED  BY <2>1, <2>4
  <1> DEFINE n == chunk_len
             c == chunk
             p == SubSeq(c, 1, n)
             rest == SubSeq(c, n + 1, Len(c))
  <1>3. p = packed /\ Compress(p) = frame_len
    BY DEF packed, frame_len
  <1> HIDE DEF n, c
  <1>4. n \in 0 .. Len(c) /\ n \in Nat /\ c \in Seq(Bytes) /\ Len(c) \in Nat
    BY <1>1, <1>2 DEF n, c
  <1>5. p \in Seq(Bytes) /\ Len(p) = n /\ \A i \in 1 .. n : p[i] = c[i] /\ i \in 1 .. Len(c)
    BY <1>4, Prefix
  <1>6. /\ rest \in Seq(Bytes) /\ Len(rest) = Len(c) - n
        /\ \A i \in 1 .. Len(rest) : n + i \in 1 .. Len(c) /\ rest[i] = c[n + i]
    <2>1. \A i \in n + 1 .. Len(c) : c[i] \in Bytes
      <3>1. \A i \in n + 1 .. Len(c) : i \in 1 .. Len(c)
        BY <1>4
      <3> QED  BY <1>4, <3>1, ElementOfSeq
    <2> DEFINE m == n + 1
    <2>2. m \in Nat /\ m <= Len(c) + 1
      BY <1>4
    <2> HIDE DEF m
    <2>3. /\ SubSeq(c, m, Len(c)) \in Seq(Bytes)
          /\ Len(SubSeq(c, m, Len(c))) = IF m <= Len(c) THEN Len(c) - m + 1 ELSE 0
          /\ \A i \in 1 .. Len(c) - m + 1 : SubSeq(c, m, Len(c))[i] = c[m + i - 1]
      <3>1. \A i \in m .. Len(c) : c[i] \in Bytes
        BY <2>1 DEF m
      <3> QED  BY <1>4, <2>2, <3>1, SubSeqProperties
    <2>4. Len(SubSeq(c, m, Len(c))) = Len(c) - n
      BY <1>4, <2>3 DEF m
    <2>5. ASSUME NEW i \in 1 .. Len(c) - n
          PROVE  n + i \in 1 .. Len(c) /\ m + i - 1 = n + i /\ i \in 1 .. Len(c) - m + 1
      BY <1>4 DEF m
    <2> QED  BY <2>3, <2>4, <2>5 DEF m
  <1>7. ASSUME n > 0
        PROVE  Compress(p) \in Nat \ {0}
    <2>1. n \in 1 .. Options.chunk_size
      BY <1>1, <1>4, <1>7 DEF c
    <2>2. p \in [1 .. n -> Bytes]
      BY <1>5, SeqDef, LenProperties, ElementOfSeq
    <2> HIDE DEF p
    <2> QED  BY <2>1, <2>2 DEF Assumptions, CompressAssumption
  <1>8. n > 0 => payload_object_can_fit(Options, Compress(p))
    BY <1>2 DEF n, c, fits
  <1> HIDE DEF p, rest
  <1> QED  BY <1>3, <1>4, <1>5, <1>6, <1>7, <1>8 DEF n, c, rest

-----------------------------------------------------------------------------
(***************************************************************************)
(* Reading on                                                              *)
(***************************************************************************)

USE DEF vars, pass, disk, output

LEMMA Below ==
    ASSUME NEW a \in Nat, NEW b \in Nat, a <= b, a # b
    PROVE  a < b
  OBVIOUS

\* Where the pass stands after a chunk: in the same file, with what was not
\* packed pushed back, or at the start of the next one.
LEMMA Advances ==
    ASSUME Assumptions, TypeOK, ReadingInPlace, reading, chunk_len > 0, advance
    PROVE  /\ member' \in 1 .. Len(Members) + 1 /\ offset' \in Nat
           /\ pushback' \in Seq(Bytes) /\ stream_pos' \in Nat
           /\ member' <= Len(Members) => /\ offset' < Members[member']
                                         /\ offset' + Len(pushback') <= Members[member']
           /\ member' > Len(Members) => pushback' = <<>>
           /\ Len(pushback') <= Options.chunk_size
           /\ \A i \in 1 .. Len(pushback') : \E j \in 1 .. Len(chunk) : pushback'[i] = chunk[j]
           /\ \/ member' = member /\ offset' + Len(pushback') = offset + Len(chunk)
              \/ /\ offset + Len(chunk) = Members[member]
                 /\ member' # member /\ pushback' = <<>>
  <1>1. /\ member \in DOMAIN Members /\ Members[member] \in Nat /\ member \in Nat \ {0}
        /\ Options.chunk_size \in Nat
        /\ Len(chunk) \in Nat /\ Len(chunk) <= Options.chunk_size
        /\ offset + Len(chunk) <= Members[member]
    BY ChunkShape
  <1> DEFINE rest == SubSeq(chunk, chunk_len + 1, Len(chunk))
  <1>2. /\ chunk_len \in 0 .. Len(chunk) /\ chunk_len \in Nat
        /\ rest \in Seq(Bytes) /\ Len(rest) = Len(chunk) - chunk_len
        /\ \A i \in 1 .. Len(rest) : /\ chunk_len + i \in 1 .. Len(chunk)
                                     /\ rest[i] = chunk[chunk_len + i]
    BY ChunkTaken
  <1> DEFINE done == offset + chunk_len = Members[member]
  <1>3. /\ offset' = IF done THEN 0 ELSE offset + chunk_len
        /\ member' = IF done THEN member + 1 ELSE member
        /\ pushback' = rest
        /\ stream_pos' = stream_pos + chunk_len
    BY DEF advance
  <1> HIDE DEF rest
  <1>4. /\ offset \in Nat /\ stream_pos \in Nat /\ offset < Members[member]
        /\ member <= Len(Members)
    BY DEF TypeOK, reading
  <1>5. /\ Len(Members) \in Nat /\ DOMAIN Members = 1 .. Len(Members)
        /\ \A i \in 1 .. Len(Members) : Members[i] \in Nat \ {0}
    <2>1. Members \in Seq(Nat \ {0})
      BY DEF Assumptions, InputAssumption
    <2> QED  BY <2>1, LenProperties, ElementOfSeq
  <1>6. \A i \in 1 .. Len(pushback') : \E j \in 1 .. Len(chunk) : pushback'[i] = chunk[j]
    BY <1>2, <1>3
  <1>7. pushback' \in Seq(Bytes) /\ stream_pos' \in Nat /\ Len(pushback') = Len(chunk) - chunk_len
    BY <1>2, <1>3, <1>4
  <1>8. Len(pushback') <= Options.chunk_size
    BY <1>1, <1>2, <1>7
  <1>9. CASE done
    <2>1. Len(chunk) = chunk_len
      BY <1>1, <1>2, <1>4, <1>9
    <2>2. Len(pushback') = 0 /\ offset + Len(chunk) = Members[member]
      BY <1>1, <1>2, <1>7, <1>9, <2>1
    <2>3. pushback' = <<>>
      BY <1>7, <2>2, EmptySeq
    <2>4. offset' = 0 /\ member' = member + 1
      BY <1>3, <1>9
    <2>5. member' \in 1 .. Len(Members) + 1 /\ member' # member
      BY <1>1, <1>4, <1>5, <2>4
    <2>6. ASSUME member' <= Len(Members)
          PROVE  offset' < Members[member'] /\ offset' + Len(pushback') <= Members[member']
      <3>1. member' \in 1 .. Len(Members)
        BY <1>5, <2>5, <2>6
      <3>2. Members[member'] \in Nat \ {0}
        BY <1>5, <3>1
      <3> QED  BY <2>2, <2>4, <3>2
    <2> QED  BY <1>6, <1>7, <1>8, <2>2, <2>3, <2>4, <2>5, <2>6
  <1>10. CASE ~done
    <2>1. offset' = offset + chunk_len /\ member' = member
      BY <1>3, <1>10
    <2>2. offset + chunk_len < Members[member]
      <3>1. offset + chunk_len <= Members[member] /\ offset + chunk_len # Members[member]
        BY <1>1, <1>2, <1>4, <1>10
      <3>2. offset + chunk_len \in Nat
        BY <1>2, <1>4
      <3> QED  BY <1>1, <3>1, <3>2, Below
    <2>3. offset' \in Nat /\ offset' + Len(pushback') = offset + Len(chunk)
      BY <1>1, <1>2, <1>4, <1>7, <2>1
    <2>4. member' \in 1 .. Len(Members) + 1 /\ ~(member' > Len(Members))
      BY <1>1, <1>4, <1>5, <2>1
    <2> QED  BY <1>1, <1>6, <1>7, <1>8, <2>1, <2>2, <2>3, <2>4
  <1> QED  BY <1>9, <1>10

\* Noting never forgets, and after the last byte of a file that was touched it
\* has noted the file.
LEMMA Notes ==
    ASSUME note_changes
    PROVE  /\ noted \subseteq noted'
           /\ /\ member \in touched
              /\ offset + Len(chunk) = Members[member] /\ Len(chunk) > Len(pushback)
              => member \in noted'
  BY DEF note_changes

\* Whatever a chunk was read from, its bytes and those packed before stay
\* accounted for.
LEMMA ChunkAccounted ==
    ASSUME Assumptions, TypeOK, ReadingInPlace, ChangesSeen, reading, chunk_len > 0,
           advance, note_changes, UNCHANGED disk,
           written' = written \/ written' = written \o packed
    PROVE  ChangesSeen'
  <1>1. /\ member \in DOMAIN Members /\ Members[member] \in Nat
        /\ Len(pushback) \in Nat /\ chunk \in Seq(Bytes) /\ Len(chunk) \in Nat
        /\ Len(pushback) <= Len(chunk)
        /\ offset + Len(chunk) <= Members[member]
        /\ \A i \in 1 .. Len(chunk) :
             \/ i \in 1 .. Len(pushback) /\ chunk[i] = pushback[i]
             \/ /\ chunk[i] = [file |-> member, version |-> file[member]]
                /\ Len(pushback) < Len(chunk)
    BY ChunkShape
  <1>2. /\ member' <= Len(Members) => /\ offset' < Members[member']
                                      /\ offset' + Len(pushback') <= Members[member']
        /\ \A i \in 1 .. Len(pushback') : \E j \in 1 .. Len(chunk) : pushback'[i] = chunk[j]
        /\ \/ member' = member /\ offset' + Len(pushback') = offset + Len(chunk)
           \/ /\ offset + Len(chunk) = Members[member]
              /\ member' # member /\ pushback' = <<>>
    BY Advances
  <1>3. /\ noted \subseteq noted'
        /\ /\ member \in touched
           /\ offset + Len(chunk) = Members[member] /\ Len(chunk) > Len(pushback)
           => member \in noted'
    BY Notes
  <1>4. /\ scanned' = scanned /\ file' = file /\ touched' = touched
        /\ offset \in Nat /\ member <= Len(Members) /\ offset < Members[member]
    BY DEF TypeOK, reading
  <1>5. ASSUME offset + Len(chunk) < Members[member]
        PROVE  member' = member /\ unread'
    <2>1. member' = member /\ offset' + Len(pushback') = offset + Len(chunk)
      BY <1>1, <1>2, <1>4, <1>5
    <2> QED  BY <1>4, <1>5, <2>1 DEF unread
  <1>6. ASSUME NEW b, Accounted(b)
        PROVE  Accounted(b)'
    <2> SUFFICES ASSUME b.version # scanned[b.file]
                 PROVE  /\ b.file \in touched
                        /\ b.file \in noted' \/ (b.file = member /\ member' = member /\ unread')
      BY <1>4 DEF Accounted
    <2>1. b.file \in touched
      BY <1>6 DEF Accounted
    <2> SUFFICES ASSUME b.file \notin noted'
                 PROVE  b.file = member /\ member' = member /\ unread'
      BY <2>1
    <2>2. b.file = member /\ offset + Len(pushback) < Members[member]
      BY <1>3, <1>6 DEF Accounted, unread
    <2>3. offset + Len(chunk) < Members[member]
      <3>1. CASE Len(chunk) > Len(pushback)
        <4>1. offset + Len(chunk) # Members[member]
          BY <1>3, <2>1, <2>2, <3>1
        <4>2. offset + Len(chunk) \in Nat
          BY <1>1, <1>4
        <4> QED  BY <1>1, <4>1, <4>2, Below
      <3>2. CASE Len(chunk) = Len(pushback)
        BY <2>2, <3>2
      <3> QED  BY <1>1, <3>1, <3>2
    <2> QED  BY <1>5, <2>2, <2>3
  <1>7. ASSUME NEW i \in 1 .. Len(chunk), NEW b, b = chunk[i]
        PROVE  b.file = member /\ Accounted(b)'
    <2>1. CASE i \in 1 .. Len(pushback) /\ chunk[i] = pushback[i]
      <3>1. b.file = member /\ Accounted(b)
        BY <1>7, <2>1 DEF ChangesSeen
      <3> QED  BY <1>6, <3>1
    <2>2. CASE /\ chunk[i] = [file |-> member, version |-> file[member]]
               /\ Len(pushback) < Len(chunk)
      <3>1. b.file = member /\ b.version = file[member]
        BY <1>7, <2>2
      <3> SUFFICES ASSUME b.version # scanned[b.file]
                   PROVE  /\ b.file \in touched
                          /\ b.file \in noted' \/ (member' = member /\ unread')
        BY <1>4, <3>1 DEF Accounted
      <3>2. member \in touched
        BY <1>1, <3>1 DEF ChangesSeen
      <3>3. CASE offset + Len(chunk) < Members[member]
        BY <1>5, <3>1, <3>2, <3>3
      <3>4. CASE offset + Len(chunk) = Members[member]
        BY <1>1, <1>3, <2>2, <3>1, <3>2, <3>4
      <3> QED  BY <1>1, <1>4, <3>3, <3>4
    <2> QED  BY <1>1, <1>7, <2>1, <2>2
  <1>8. \A f \in DOMAIN Members : file'[f] # scanned'[f] => f \in touched'
    BY <1>4 DEF ChangesSeen
  <1>9. ASSUME NEW i \in 1 .. Len(pushback')
        PROVE  pushback'[i].file = member' /\ Accounted(pushback[i])'
    <2>1. PICK b : b = pushback'[i]
      OBVIOUS
    <2>2. b.file = member /\ Accounted(b)'
      BY <1>2, <1>7, <2>1
    <2>3. member' = member
      BY <1>2
    <2>4. Accounted(pushback[i])'
      BY <2>1, <2>2 DEF Accounted
    <2> QED  BY <2>1, <2>2, <2>3, <2>4
  <1>10. ASSUME NEW i \in 1 .. Len(written')
         PROVE  Accounted(written[i])'
    <2>0. written \in Seq(Bytes) /\ Len(written) \in Nat
      BY LenProperties DEF TypeOK
    <2>1. PICK b : b = written'[i]
      OBVIOUS
    <2>2. CASE i \in 1 .. Len(written) /\ b = written[i]
      <3>1. Accounted(b)
        BY <2>2 DEF ChangesSeen
      <3>2. Accounted(b)'
        BY <1>6, <3>1
      <3> QED  BY <2>1, <3>2 DEF Accounted
    <2>3. CASE \E j \in 1 .. Len(chunk) : b = chunk[j]
      <3>1. Accounted(b)'
        BY <1>7, <2>3
      <3> QED  BY <2>1, <3>1 DEF Accounted
    <2>4. CASE written' = written
      BY <2>1, <2>2, <2>4
    <2>5. CASE written' = written \o packed
      <3>1. /\ packed \in Seq(Bytes) /\ Len(packed) = chunk_len /\ chunk_len \in Nat
            /\ \A k \in 1 .. chunk_len : packed[k] = chunk[k] /\ k \in 1 .. Len(chunk)
        BY ChunkTaken
      <3>a. written \o packed \in Seq(Bytes) /\ Len(written \o packed) = Len(written) + Len(packed)
            /\ \A k \in 1 .. Len(written) + Len(packed) :
                 (written \o packed)[k] = IF k <= Len(written) THEN written[k]
                                          ELSE packed[k - Len(written)]
        BY <2>0, <3>1, ConcatProperties
      <3>2. /\ Len(written') = Len(written) + chunk_len
            /\ \A k \in 1 .. Len(written) + chunk_len :
                 written'[k] = IF k <= Len(written) THEN written[k]
                               ELSE packed[k - Len(written)]
        BY <2>5, <3>1, <3>a
      <3>3. CASE i <= Len(written)
        <4>1. i \in 1 .. Len(written) /\ i \in 1 .. Len(written) + chunk_len
          BY <2>0, <3>1, <3>2, <3>3
        <4> QED  BY <2>1, <2>2, <3>2, <3>3, <4>1
      <3>4. CASE ~(i <= Len(written))
        <4>1. i - Len(written) \in 1 .. chunk_len /\ i \in 1 .. Len(written) + chunk_len
          BY <2>0, <3>1, <3>2, <3>4
        <4>2. b = packed[i - Len(written)]
          BY <2>1, <3>2, <3>4, <4>1
        <4> QED  BY <2>3, <3>1, <4>1, <4>2
      <3> QED  BY <3>3, <3>4
    <2> QED  BY <2>4, <2>5
  <1> QED  BY <1>8, <1>9, <1>10 DEF ChangesSeen

\* The steps that pack a chunk, and what the others leave alone.
Packing == PlanChunk \/ (EmitChunk /\ matches_frame)

LEMMA PackingReads ==
    ASSUME Packing
    PROVE  /\ reading /\ chunk_len > 0 /\ advance /\ note_changes
           /\ UNCHANGED <<disk, pc>> /\ pc \in {"plan", "emit"}
           /\ written' = written \/ written' = written \o packed
  BY DEF Packing, PlanChunk, EmitChunk

LEMMA Effects ==
    ASSUME [Next]_vars
    PROVE  \/ Packing \/ BeginEmission \/ FileChanges
           \/ /\ UNCHANGED <<disk, member, offset, pushback, stream_pos, written, frame>>
              /\ noted \subseteq noted'
  <1>1. note_changes => noted \subseteq noted'
    BY DEF note_changes
  <1> QED  BY <1>1 DEF Next, Writer, ByteTooLarge, SourceFails, PlanChunk, PlanFinalFlush,
                       BeginEmission, EmitChunk, EnvelopeMismatch, EmitFinalFlush, SinkFails,
                       Finish, Finished, FileChanges, Packing

\* No step loses track of a change.
LEMMA ChangesStep ==
    ASSUME Assumptions, TwoPassInv, [Next]_vars
    PROVE  ChangesSeen'
  <1>0. TypeOK /\ ReadingInPlace /\ ChangesSeen /\ PlanInPlace
    BY DEF TwoPassInv
  <1>1. CASE Packing
    BY <1>0, <1>1, PackingReads, ChunkAccounted
  <1>2. CASE BeginEmission
    <2>1. pushback' = <<>> /\ written' = <<>> /\ UNCHANGED disk
      BY <1>0, <1>2 DEF BeginEmission, PlanInPlace
    <2> QED  BY <1>0, <2>1 DEF ChangesSeen
  <1>3. CASE FileChanges
    <2>1. /\ UNCHANGED <<scanned, noted, member, offset, pushback, written>>
          /\ touched \subseteq touched'
      BY <1>3 DEF FileChanges
    <2>2. \A f \in DOMAIN Members : file'[f] # scanned'[f] => f \in touched'
      <3>1. PICK g \in DOMAIN Members, v \in Versions :
               /\ file' = [file EXCEPT ![g] = v]
               /\ touched' = touched \cup {g}
        BY <1>3 DEF FileChanges
      <3>2. file \in [DOMAIN Members -> Versions]
        BY <1>0 DEF TypeOK
      <3>3. \A f \in DOMAIN Members : f = g \/ file'[f] = file[f]
        BY <3>1, <3>2
      <3> QED  BY <1>0, <2>1, <3>1, <3>3 DEF ChangesSeen
    <2>3. unread' = unread
      BY <2>1 DEF unread
    <2>5. \A i \in 1 .. Len(pushback') : pushback'[i].file = member' /\ Accounted(pushback[i])'
      BY <1>0, <2>1, <2>3 DEF ChangesSeen, Accounted
    <2>6. \A i \in 1 .. Len(written') : Accounted(written[i])'
      BY <1>0, <2>1, <2>3 DEF ChangesSeen, Accounted
    <2> QED  BY <2>2, <2>5, <2>6 DEF ChangesSeen
  <1>4. CASE /\ UNCHANGED <<disk, member, offset, pushback, written>>
             /\ noted \subseteq noted'
    <2>1. unread' = unread
      BY <1>4 DEF unread
    <2>2. \A f \in DOMAIN Members : file'[f] # scanned'[f] => f \in touched'
      BY <1>0, <1>4 DEF ChangesSeen
    <2>3. \A i \in 1 .. Len(pushback') : pushback'[i].file = member' /\ Accounted(pushback[i])'
      BY <1>0, <1>4, <2>1 DEF ChangesSeen, Accounted
    <2>4. \A i \in 1 .. Len(written') : Accounted(written[i])'
      BY <1>0, <1>4, <2>1 DEF ChangesSeen, Accounted
    <2> QED  BY <2>2, <2>3, <2>4 DEF ChangesSeen
  <1> QED  BY <1>1, <1>2, <1>3, <1>4, Effects

\* The pass stays in place.
LEMMA ReadingStep ==
    ASSUME Assumptions, TwoPassInv, [Next]_vars
    PROVE  /\ ReadingInPlace'
           /\ member' \in 1 .. Len(Members) + 1 /\ offset' \in Nat
           /\ pushback' \in Seq(Bytes) /\ stream_pos' \in Nat
  <1>0. TypeOK /\ ReadingInPlace /\ Options.chunk_size \in Nat
    BY DEF TwoPassInv, Assumptions, OptionsAssumption, ValidOptions, ValidRequest, OptionFields
  <1>1. CASE Packing
    <2>1. /\ reading /\ chunk_len > 0 /\ advance
          /\ pc' # "ok"
      BY <1>1, PackingReads
    <2>2. /\ member' \in 1 .. Len(Members) + 1 /\ offset' \in Nat
          /\ pushback' \in Seq(Bytes) /\ stream_pos' \in Nat
          /\ member' <= Len(Members) => /\ offset' < Members[member']
                                        /\ offset' + Len(pushback') <= Members[member']
          /\ member' > Len(Members) => pushback' = <<>>
          /\ Len(pushback') <= Options.chunk_size
      BY <1>0, <2>1, Advances
    <2> QED  BY <2>1, <2>2 DEF ReadingInPlace
  <1>2. CASE BeginEmission
    <2>1. /\ member' = 1 /\ offset' = 0 /\ pushback' = <<>> /\ stream_pos' = 0 /\ pc' = "emit"
      BY <1>2 DEF BeginEmission
    <2>2. /\ Len(Members) \in Nat
          /\ \A i \in 1 .. Len(Members) : Members[i] \in Nat \ {0}
      <3>1. Members \in Seq(Nat \ {0})
        BY DEF Assumptions, InputAssumption
      <3> QED  BY <3>1, LenProperties, ElementOfSeq
    <2>3. 1 <= Len(Members) => Members[1] \in Nat \ {0}
      BY <2>2
    <2>4. pushback' \in Seq(Bytes) /\ Len(pushback') = 0
      BY <2>1
    <2>5. 1 \in 1 .. Len(Members) + 1
      BY <2>2
    <2> QED  BY <1>0, <2>1, <2>3, <2>4, <2>5 DEF ReadingInPlace
  <1>3. CASE UNCHANGED <<member, offset, pushback, stream_pos>>
    <2>1. pc' = "ok" => member > Len(Members)
      <3>1. pc' = "ok" => pc = "ok" \/ ~reading
        BY DEF Next, Writer, ByteTooLarge, SourceFails, PlanChunk, PlanFinalFlush,
               BeginEmission, EmitChunk, EnvelopeMismatch, EmitFinalFlush, SinkFails,
               Finish, Finished, FileChanges
      <3>2. ~reading => member > Len(Members)
        <4>1. Len(Members) \in Nat /\ member \in Nat
          BY <1>0, LenProperties DEF Assumptions, InputAssumption, TypeOK
        <4> QED  BY <1>0, <4>1 DEF ReadingInPlace, reading
      <3> QED  BY <1>0, <3>1, <3>2 DEF ReadingInPlace
    <2> QED  BY <1>0, <1>3, <2>1 DEF ReadingInPlace, TypeOK
  <1>4. FileChanges => UNCHANGED <<member, offset, pushback, stream_pos>>
    BY DEF FileChanges
  <1> QED  BY <1>1, <1>2, <1>3, <1>4, Effects

-----------------------------------------------------------------------------
(***************************************************************************)
(* Packing and sealing                                                     *)
(***************************************************************************)

\* A chunk that fits becomes a frame that is not empty, in any envelope with
\* room for it.
LEMMA ChunkPacked ==
    ASSUME Assumptions, TypeOK, ReadingInPlace, reading, chunk_len > 0,
           NEW fs, NEW os, NEW e, PackedSoFar(Options, fs, os, e),
           ~payload_envelope_needs_flush(Options, e, frame_len)
    PROVE  LET f == payload_frame_metadata(Len(fs), e, this_chunk, frame_len)
           IN  /\ f \in PayloadFrameRecords /\ f.len > 0
               /\ PackedSoFar(Options, Append(fs, f), os,
                              extend_envelope(e, Len(fs), frame_len))
  <1> DEFINE f == payload_frame_metadata(Len(fs), e, this_chunk, frame_len)
             a == this_chunk.offset = 0
             z == this_chunk.offset + this_chunk.size = this_chunk.group
             t == this_chunk.start + this_chunk.offset
  <1>1. /\ frame_len \in Nat \ {0} /\ payload_object_can_fit(Options, frame_len)
        /\ chunk_len \in Nat /\ member - 1 \in Nat
    BY ChunkTaken, ChunkShape
  <1>2. Len(fs) \in Nat /\ e.index \in Nat /\ e.len \in Nat
    BY IndexTypes
  <1>3. this_chunk.member = member - 1 /\ this_chunk.size = chunk_len /\ t \in Nat
    <2>1. stream_pos \in Nat /\ offset \in Nat
      BY DEF TypeOK
    <2>2. t = (stream_pos - offset) + offset
      BY DEF this_chunk
    <2>3. (stream_pos - offset) + offset = stream_pos
      BY <2>1
    <2> QED  BY <2>1, <2>2, <2>3 DEF this_chunk
  <1>4. f = [frame |-> Len(fs), envelope |-> e.index, member |-> member - 1,
             offset |-> e.len, len |-> frame_len, size |-> chunk_len,
             first |-> a, last |-> z, tar_offset |-> t]
    BY <1>3 DEF payload_frame_metadata
  <1>5. a \in BOOLEAN /\ z \in BOOLEAN
    OBVIOUS
  <1> HIDE DEF f, a, z, t
  <1>6. /\ f \in PayloadFrameRecords /\ f.len = frame_len
        /\ f.frame = Len(fs) /\ f.envelope = e.index /\ f.offset = e.len
    BY <1>1, <1>2, <1>3, <1>4, <1>5 DEF PayloadFrameRecords
  <1>7. GoesTo(fs, e, f)
    BY <1>6 DEF GoesTo
  <1>8. PackedSoFar(Options, Append(fs, f), os, extend_envelope(e, Len(fs), f.len))
    BY <1>1, <1>6, <1>7, PackingKeeps
  <1> QED  BY <1>1, <1>6, <1>8 DEF f

\* The envelope the frame goes to has room for it.
LEMMA BaseHasRoom ==
    /\ ~payload_envelope_needs_flush(Options, base, frame_len)
    /\ needs_flush => envelope.plaintext # <<>>
  BY DEF base, needs_flush, payload_envelope_needs_flush, EmptyEnvelope

\* Sealing an envelope in the planning pass.
LEMMA PlanSeals ==
    ASSUME Assumptions, TwoPassInv, pc = "plan", envelope.plaintext # <<>>
    PROVE  LET os == Append(plan.objects, object)
           IN  /\ os \in Seq(PayloadObjects) /\ LaidOut(os) /\ Len(os) = Len(plan.objects) + 1
               /\ next_block_index(object.extent) = StartOf(os, Len(os) + 1)
               /\ next_block_index(object.extent) \in Nat
               /\ PackedSoFar(Options, plan.frames, os, EmptyEnvelope(envelope.index + 1))
  <1>1. /\ PackedSoFar(Options, plan.frames, plan.objects, envelope)
        /\ next_block = StartOf(plan.objects, Len(plan.objects) + 1)
        /\ LaidOut(plan.objects) /\ next_block \in Nat
    BY DEF TwoPassInv, PlanInPlace, TypeOK
  <1>2. /\ plan.objects \in Seq(PayloadObjects) /\ envelope.index = Len(plan.objects)
        /\ envelope \in Envelopes /\ payload_object_can_fit(Options, envelope.len)
    BY <1>1 DEF PackedSoFar
  <1>3. ValidOptions(Options)
    BY DEF Assumptions, OptionsAssumption
  <1>4. object = payload_object(Options, next_block, envelope)
    BY DEF object
  <1>5. PackedSoFar(Options, plan.frames, Append(plan.objects, object),
                    EmptyEnvelope(envelope.index + 1))
    BY <1>1, <1>3, <1>4, SealingKeeps
  <1> QED  BY <1>1, <1>2, <1>4, <1>5, LayoutGrows

\* Sealing an envelope in the emission pass, when it is the planned one: some or
\* all of its blocks are written.
LEMMA EmissionSeals ==
    ASSUME Assumptions, TwoPassInv, pc = "emit", envelope.plaintext # <<>>, matches_object
    PROVE  /\ envelope.index \in Nat /\ envelope.index + 1 <= Len(plan.objects)
           /\ Len(sealed_blocks) \in Nat
           /\ next_block_index(object.extent)
                = StartOf(plan.objects, (envelope.index + 1) + 1)
           /\ next_block_index(object.extent) = Len(emitted) + Len(sealed_blocks)
           /\ PackedSoFar(Options, SubSeq(plan.frames, 1, frame),
                          SubSeq(plan.objects, 1, envelope.index + 1),
                          EmptyEnvelope(envelope.index + 1))
           /\ SubSeq(sealed_blocks, 1, Len(sealed_blocks)) = sealed_blocks
           /\ \A n \in 0 .. Len(sealed_blocks) :
                LET bs == emitted \o SubSeq(sealed_blocks, 1, n)
                IN  /\ bs \in Seq(BlockRecords) /\ Len(bs) = Len(emitted) + n
                    /\ InBlockOrder(bs)
                    /\ DescribesBlocks(plan.frames, plan.objects, bs)
  <1> DEFINE fs == plan.frames
             os == plan.objects
             k  == envelope.index
             gs == SubSeq(fs, 1, frame)
             hs == SubSeq(os, 1, k)
             x  == os[k + 1].extent
  <1>1. /\ PackedSoFar(Options, fs, os, EmptyEnvelope(Len(os)))
        /\ LaidOut(os) /\ \A i \in 1 .. Len(fs) : fs[i].len > 0
        /\ PackedSoFar(Options, gs, hs, envelope)
        /\ next_block = StartOf(os, k + 1) /\ Len(emitted) = next_block
        /\ frame \in Nat /\ frame <= Len(fs) /\ next_block \in Nat
        /\ emitted \in Seq(BlockRecords)
        /\ InBlockOrder(emitted) /\ DescribesBlocks(fs, os, emitted)
    BY DEF TwoPassInv, PlanInPlace, EmissionInPlace, EmittedAsPlanned, TypeOK
  <1>2. k < Len(os) /\ os[k + 1].len = envelope.len
    BY DEF matches_object
  <1>3. /\ fs \in Seq(PayloadFrameRecords) /\ os \in Seq(PayloadObjects)
        /\ Len(fs) \in Nat /\ Len(os) \in Nat
    BY <1>1, IndexTypes
  <1>4. k \in Nat /\ envelope.plaintext \in Seq(Nat) /\ envelope \in Envelopes
    BY DEF TwoPassInv, TypeOK, Envelopes
  <1>5. /\ payload_object(Options, next_block, envelope) = os[k + 1]
        /\ next_block_index(x) = StartOf(os, (k + 1) + 1)
        /\ os[k + 1] \in PayloadObjects
        /\ x.first = next_block
    BY <1>1, <1>2, <1>3, <1>4, PlannedAgain
  <1>6. object = os[k + 1] /\ sealed_blocks = block_records(k, envelope.plaintext, x)
    BY <1>5 DEF object, sealed_blocks
  <1>7. x \in Extents
    BY <1>5 DEF PayloadObjects
  <1>8. HoldsFramesOf(fs, envelope.plaintext, k)
    <2>1. frame \in 0 .. Len(fs)
      BY <1>1, <1>3
    <2> QED  BY <1>1, <1>2, <2>1, PlannedFramesHeld
  <1>9. PackedSoFar(Options, gs, SubSeq(os, 1, k + 1), EmptyEnvelope(k + 1))
    <2>1. ValidOptions(Options)
      BY DEF Assumptions, OptionsAssumption
    <2>2. PackedSoFar(Options, gs, Append(hs, payload_object(Options, next_block, envelope)),
                      EmptyEnvelope(k + 1))
      BY <1>1, <2>1, SealingKeeps
    <2>3. SubSeq(os, 1, k + 1) = Append(hs, os[k + 1])
      BY <1>2, <1>3, <1>4, LongerPrefix
    <2> QED  BY <1>5, <2>2, <2>3
  <1> HIDE DEF x, gs, hs
  <1>10. /\ sealed_blocks \in Seq(BlockRecords) /\ Len(sealed_blocks) = x.data + x.parity
         /\ x.first \in Nat /\ x.data \in Nat /\ x.parity \in Nat
    BY <1>4, <1>6, <1>7, RecordsOf
  <1>11. next_block_index(x) = Len(emitted) + Len(sealed_blocks)
    <2>1. next_block_index(x) = x.first + x.data + x.parity
      BY DEF next_block_index
    <2> QED  BY <1>1, <1>5, <1>10, <2>1
  <1>12. ASSUME NEW n \in 0 .. Len(sealed_blocks)
         PROVE  LET bs == emitted \o SubSeq(sealed_blocks, 1, n)
                IN  /\ bs \in Seq(BlockRecords) /\ Len(bs) = Len(emitted) + n
                    /\ InBlockOrder(bs)
                    /\ DescribesBlocks(fs, os, bs)
    <2> DEFINE bs == emitted \o SubSeq(sealed_blocks, 1, n)
    <2>1. n \in 0 .. Len(block_records(k, envelope.plaintext, os[k + 1].extent))
      BY <1>6 DEF x
    <2>2. /\ bs \in Seq(BlockRecords) /\ Len(bs) = Len(emitted) + n
          /\ DescribesBlocks(fs, os, bs)
          /\ InBlockOrder(emitted) /\ os[k + 1].extent.first = Len(emitted) => InBlockOrder(bs)
      BY <1>1, <1>2, <1>3, <1>4, <1>6, <1>8, <2>1, DescribedAfterWriting, ZenonT(60) DEF x
    <2> QED  BY <1>1, <1>5, <2>2 DEF x
  <1>13. SubSeq(sealed_blocks, 1, Len(sealed_blocks)) = sealed_blocks
    BY <1>10, WholeSequence
  <1>14. Len(sealed_blocks) \in Nat /\ k + 1 <= Len(os)
    BY <1>2, <1>3, <1>4, <1>10
  <1> QED  BY <1>4, <1>5, <1>6, <1>9, <1>11, <1>12, <1>13, <1>14 DEF x, gs

-----------------------------------------------------------------------------
(***************************************************************************)
(* The steps of the two passes                                             *)
(***************************************************************************)

\* What the steps below change.
OutputTypes ==
    /\ envelope \in Envelopes /\ next_block \in Nat /\ plan \in Plans /\ frame \in Nat
    /\ emitted \in Seq(BlockRecords) /\ written \in Seq(Bytes)

OutputInPlace == OutputTypes /\ PlanInPlace /\ EmissionInPlace /\ EmittedAsPlanned

\* Nothing is packed at the beginning of a pass.
LEMMA NothingPacked ==
    /\ PackedSoFar(Options, <<>>, <<>>, EmptyEnvelope(0))
    /\ EmptyEnvelope(0).index = 0 /\ EmptyEnvelope(0) \in Envelopes
  <1> DEFINE e == EmptyEnvelope(0)
             fs == << >>
  <1>1. e.index = 0 /\ e.plaintext = <<>> /\ e.len = 0 /\ e \in Envelopes
    BY DEF EmptyEnvelope, Envelopes
  <1> HIDE DEF e
  <1>2. frames_in(fs, e.index) = {}
    BY DEF frames_in
  <1>3. HoldsFramesOf(fs, e.plaintext, e.index)
    <2>1. {fs[i].frame : i \in frames_in(fs, e.index)} = {}
      BY <1>2
    <2>2. {e.plaintext[i] : i \in DOMAIN e.plaintext} = {}
      BY <1>1
    <2>3. \A i \in 2 .. Len(e.plaintext) : e.plaintext[i] = e.plaintext[i - 1] + 1
      BY <1>1
    <2> QED  BY <2>1, <2>2, <2>3 DEF HoldsFramesOf
  <1>4. Filling(fs, e)
    BY <1>1, <1>3 DEF Filling
  <1>5. TilesEnvelopes(fs, << >>)
    BY DEF TilesEnvelopes
  <1>6. PackedSoFar(Options, fs, << >>, e)
    BY <1>1, <1>4, <1>5 DEF PackedSoFar
  <1> QED  BY <1>1, <1>6 DEF e

\* The fields of a plan.
LEMMA PlanFields ==
    ASSUME NEW p \in Plans
    PROVE  /\ p.frames \in Seq(PayloadFrameRecords) /\ p.objects \in Seq(PayloadObjects)
           /\ p.content \in Seq(Bytes) /\ p.total \in Nat
           /\ Len(p.frames) \in Nat /\ Len(p.objects) \in Nat
  <1>1. /\ p.frames \in Seq(PayloadFrameRecords) /\ p.objects \in Seq(PayloadObjects)
        /\ p.content \in Seq(Bytes) /\ p.total \in Nat
    BY DEF Plans
  <1> QED  BY <1>1, LenProperties

LEMMA NothingEmitted ==
    ASSUME NEW fs, NEW os
    PROVE  InBlockOrder(<<>>) /\ DescribesBlocks(fs, os, <<>>)
  BY DEF InBlockOrder, DescribesBlocks

LEMMA PlanChunkStep ==
    ASSUME Assumptions, TwoPassInv, PlanChunk
    PROVE  OutputInPlace'
  <1> DEFINE fs == plan.frames
             os == IF needs_flush THEN Append(plan.objects, object) ELSE plan.objects
             f  == payload_frame_metadata(Len(fs), base, this_chunk, frame_len)
  <1>1. /\ TypeOK /\ ReadingInPlace /\ plan \in Plans /\ frame = 0
        /\ emitted = <<>> /\ written = <<>>
        /\ pc = "plan" /\ reading /\ chunk_len > 0
        /\ \A i \in 1 .. Len(fs) : fs[i].len > 0
    BY DEF TwoPassInv, TypeOK, PlanInPlace, PlanChunk
  <1>2. /\ plan' = [plan EXCEPT !.objects = os, !.frames = Append(@, f),
                                !.content = @ \o packed]
        /\ next_block' = IF needs_flush THEN next_block_index(object.extent) ELSE next_block
        /\ envelope' = extend_envelope(base, Len(fs), frame_len)
        /\ UNCHANGED <<pc, frame, emitted, written>>
    BY DEF PlanChunk
  <1>3. /\ os \in Seq(PayloadObjects) /\ LaidOut(os)
        /\ next_block' = StartOf(os, Len(os) + 1) /\ next_block' \in Nat
        /\ PackedSoFar(Options, fs, os, base)
    <2>1. CASE needs_flush
      <3>1. envelope.plaintext # <<>> /\ base = EmptyEnvelope(envelope.index + 1)
        BY <2>1, BaseHasRoom DEF base
      <3>2. os = Append(plan.objects, object) /\ next_block' = next_block_index(object.extent)
        BY <1>2, <2>1
      <3> HIDE DEF os
      <3> QED  BY <1>1, <3>1, <3>2, PlanSeals
    <2>2. CASE ~needs_flush
      <3>1. base = envelope /\ os = plan.objects /\ next_block' = next_block
        BY <1>2, <2>2 DEF base
      <3>2. plan.objects \in Seq(PayloadObjects)
        BY <1>1, PlanFields
      <3> HIDE DEF os
      <3> QED  BY <1>1, <3>1, <3>2 DEF TwoPassInv, PlanInPlace, TypeOK
    <2> QED  BY <2>1, <2>2
  <1> HIDE DEF os
  <1>4. /\ f \in PayloadFrameRecords /\ f.len > 0
        /\ PackedSoFar(Options, Append(fs, f), os, extend_envelope(base, Len(fs), frame_len))
    BY <1>1, <1>3, BaseHasRoom, ChunkPacked
  <1> HIDE DEF f
  <1>5. /\ plan.frames \in Seq(PayloadFrameRecords) /\ plan.content \in Seq(Bytes)
        /\ plan.total \in Nat /\ packed \in Seq(Bytes)
    BY <1>1, PlanFields, ChunkTaken
  <1>6. /\ Append(fs, f) \in Seq(PayloadFrameRecords) /\ Len(fs) \in Nat
        /\ Len(Append(fs, f)) = Len(fs) + 1
        /\ \A i \in 1 .. Len(fs) : Append(fs, f)[i] = fs[i]
        /\ Append(fs, f)[Len(fs) + 1] = f
    BY <1>4, <1>5, AppendedTo
  <1>7. plan.content \o packed \in Seq(Bytes)
    BY <1>5, ConcatProperties
  <1>8. /\ plan' \in Plans /\ plan'.frames = Append(fs, f) /\ plan'.objects = os
    BY <1>1, <1>2, <1>3, <1>6, <1>7 DEF Plans
  <1>9. \A i \in 1 .. Len(plan'.frames) : plan'.frames[i].len > 0
    <2> TAKE i \in 1 .. Len(plan'.frames)
    <2>1. i \in 1 .. Len(fs) \/ i = Len(fs) + 1
      BY <1>6, <1>8
    <2> QED  BY <1>1, <1>4, <1>6, <1>8, <2>1
  <1>10. PackedSoFar(Options, plan'.frames, plan'.objects, envelope')
    BY <1>2, <1>4, <1>8
  <1>11. envelope' \in Envelopes
    BY <1>10 DEF PackedSoFar
  <1>12. emitted' = <<>> /\ written' = <<>> /\ frame' = 0 /\ pc' = "plan"
    BY <1>1, <1>2
  <1>13. OutputTypes'
    BY <1>3, <1>8, <1>11, <1>12 DEF OutputTypes
  <1>14. PlanInPlace'
    BY <1>3, <1>8, <1>9, <1>10, <1>12 DEF PlanInPlace
  <1>15. EmissionInPlace'
    BY <1>12 DEF EmissionInPlace
  <1>16. EmittedAsPlanned'
    BY <1>12, NothingEmitted DEF EmittedAsPlanned
  <1> QED  BY <1>13, <1>14, <1>15, <1>16 DEF OutputInPlace

LEMMA PlanFlushStep ==
    ASSUME Assumptions, TwoPassInv, PlanFinalFlush
    PROVE  OutputInPlace'
  <1> DEFINE fs == plan.frames
             os == Append(plan.objects, object)
  <1>1. /\ plan \in Plans /\ frame = 0 /\ emitted = <<>> /\ written = <<>>
        /\ pc = "plan" /\ envelope.plaintext # <<>>
        /\ \A i \in 1 .. Len(fs) : fs[i].len > 0
    BY DEF TwoPassInv, TypeOK, PlanInPlace, PlanFinalFlush
  <1>2. /\ plan' = [plan EXCEPT !.objects = os]
        /\ next_block' = next_block_index(object.extent)
        /\ envelope' = EmptyEnvelope(envelope.index + 1)
        /\ UNCHANGED <<pc, frame, emitted, written>>
    BY DEF PlanFinalFlush
  <1>3. /\ os \in Seq(PayloadObjects) /\ LaidOut(os)
        /\ next_block' = StartOf(os, Len(os) + 1) /\ next_block' \in Nat
        /\ PackedSoFar(Options, fs, os, envelope')
    BY <1>1, <1>2, PlanSeals
  <1> HIDE DEF os
  <1>4. plan' \in Plans /\ plan'.frames = fs /\ plan'.objects = os
    BY <1>1, <1>2, <1>3 DEF Plans
  <1>5. envelope' \in Envelopes
    BY <1>3 DEF PackedSoFar
  <1>6. emitted' = <<>> /\ written' = <<>> /\ frame' = 0 /\ pc' = "plan"
    BY <1>1, <1>2
  <1>7. OutputTypes'
    BY <1>3, <1>4, <1>5, <1>6 DEF OutputTypes
  <1>8. PlanInPlace'
    BY <1>1, <1>3, <1>4, <1>6 DEF PlanInPlace
  <1>9. EmissionInPlace' /\ EmittedAsPlanned'
    BY <1>6, NothingEmitted DEF EmissionInPlace, EmittedAsPlanned
  <1> QED  BY <1>7, <1>8, <1>9 DEF OutputInPlace

\* The plan is complete, and the emission starts from nothing.
LEMMA BeginStep ==
    ASSUME Assumptions, TwoPassInv, BeginEmission
    PROVE  OutputInPlace'
  <1> DEFINE fs == plan.frames
             os == plan.objects
  <1>1. /\ plan \in Plans /\ frame = 0 /\ emitted = <<>> /\ written = <<>>
        /\ pc = "plan" /\ envelope.plaintext = <<>> /\ next_block \in Nat
        /\ next_block = StartOf(os, Len(os) + 1) /\ LaidOut(os)
        /\ PackedSoFar(Options, fs, os, envelope)
        /\ \A i \in 1 .. Len(fs) : fs[i].len > 0
    BY DEF TwoPassInv, TypeOK, PlanInPlace, BeginEmission
  <1>2. /\ plan' = [plan EXCEPT !.total = next_block]
        /\ next_block' = 0 /\ envelope' = EmptyEnvelope(0) /\ pc' = "emit"
        /\ UNCHANGED <<frame, emitted, written>>
    BY DEF BeginEmission
  <1>3. envelope = EmptyEnvelope(Len(os))
    <2>1. envelope \in Envelopes /\ envelope.index = Len(os) /\ envelope.len = 0
      BY <1>1 DEF PackedSoFar, Filling
    <2> QED  BY <1>1, <2>1 DEF Envelopes, EmptyEnvelope
  <1>4. /\ plan' \in Plans /\ plan'.frames = fs /\ plan'.objects = os
        /\ plan'.total = next_block
    BY <1>1, <1>2 DEF Plans
  <1>5. fs \in Seq(PayloadFrameRecords) /\ os \in Seq(PayloadObjects)
        /\ Len(fs) \in Nat /\ Len(os) \in Nat
    BY <1>1, PlanFields
  <1>6. SubSeq(fs, 1, 0) = <<>> /\ SubSeq(os, 1, 0) = <<>>
    <2>1. 0 \in 0 .. Len(fs) /\ 0 \in 0 .. Len(os)
      BY <1>5
    <2>2. /\ SubSeq(fs, 1, 0) \in Seq(PayloadFrameRecords) /\ Len(SubSeq(fs, 1, 0)) = 0
          /\ SubSeq(os, 1, 0) \in Seq(PayloadObjects) /\ Len(SubSeq(os, 1, 0)) = 0
      BY <1>5, <2>1, Prefix
    <2> QED  BY <2>2, EmptySeq
  <1>7. envelope'.index = 0 /\ envelope' \in Envelopes
    BY <1>2, NothingPacked
  <1> HIDE DEF fs, os
  <1>8. /\ PackedSoFar(Options, SubSeq(fs, 1, frame'), SubSeq(os, 1, envelope'.index), envelope')
        /\ frame' = 0 /\ emitted' = <<>> /\ written' = <<>>
    BY <1>1, <1>2, <1>6, <1>7, NothingPacked
  <1>9. StartOf(os, envelope'.index + 1) = 0
    BY <1>7 DEF StartOf
  <1>10. OutputTypes'
    BY <1>2, <1>4, <1>7, <1>8 DEF OutputTypes
  <1>11. PlanInPlace'
    BY <1>1, <1>2, <1>3, <1>4 DEF PlanInPlace
  <1>12. EmissionInPlace'
    BY <1>2, <1>4, <1>5, <1>7, <1>8, <1>9 DEF EmissionInPlace
  <1>13. EmittedAsPlanned'
    BY <1>8, NothingEmitted DEF EmittedAsPlanned
  <1> QED  BY <1>10, <1>11, <1>12, <1>13 DEF OutputInPlace

\* What the emission pass starts from at each of its steps.
LEMMA EmissionFacts ==
    ASSUME TwoPassInv, pc = "emit"
    PROVE  /\ TypeOK /\ ReadingInPlace /\ plan \in Plans /\ LaidOut(plan.objects)
           /\ \A i \in 1 .. Len(plan.frames) : plan.frames[i].len > 0
           /\ PackedSoFar(Options, plan.frames, plan.objects, EmptyEnvelope(Len(plan.objects)))
           /\ plan.total = StartOf(plan.objects, Len(plan.objects) + 1)
           /\ frame \in Nat /\ frame <= Len(plan.frames)
           /\ envelope \in Envelopes /\ envelope.index \in Nat
           /\ envelope.index <= Len(plan.objects)
           /\ PackedSoFar(Options, SubSeq(plan.frames, 1, frame),
                          SubSeq(plan.objects, 1, envelope.index), envelope)
           /\ next_block \in Nat /\ next_block = StartOf(plan.objects, envelope.index + 1)
           /\ emitted \in Seq(BlockRecords) /\ Len(emitted) = next_block
           /\ InBlockOrder(emitted) /\ DescribesBlocks(plan.frames, plan.objects, emitted)
           /\ written \in Seq(Bytes)
  BY DEF TwoPassInv, TypeOK, PlanInPlace, EmissionInPlace, EmittedAsPlanned, Envelopes

\* The blocks after an envelope was sealed in the emission pass.
LEMMA AllEmitted ==
    ASSUME Assumptions, TwoPassInv, pc = "emit", envelope.plaintext # <<>>, matches_object
    PROVE  LET bs == emitted \o sealed_blocks
           IN  /\ bs \in Seq(BlockRecords) /\ Len(bs) = next_block_index(object.extent)
               /\ next_block_index(object.extent) \in Nat
               /\ InBlockOrder(bs) /\ DescribesBlocks(plan.frames, plan.objects, bs)
  <1> DEFINE n == Len(sealed_blocks)
  <1>1. /\ n \in Nat /\ SubSeq(sealed_blocks, 1, n) = sealed_blocks
        /\ next_block_index(object.extent) = Len(emitted) + n
        /\ \A m \in 0 .. n :
             LET bs == emitted \o SubSeq(sealed_blocks, 1, m)
             IN  /\ bs \in Seq(BlockRecords) /\ Len(bs) = Len(emitted) + m
                 /\ InBlockOrder(bs)
                 /\ DescribesBlocks(plan.frames, plan.objects, bs)
    BY EmissionSeals
  <1>2. Len(emitted) \in Nat
    BY EmissionFacts, LenProperties
  <1> HIDE DEF n
  <1>3. n \in 0 .. n /\ Len(emitted) + n \in Nat
    BY <1>1, <1>2
  <1> QED  BY <1>1, <1>3

\* The state of the emission after a step that leaves the plan as it is.
LEMMA EmissionKept ==
    ASSUME TwoPassInv, pc = "emit", UNCHANGED plan, pc' \in {"emit", "err", "io_err"},
           OutputTypes', InBlockOrder(emitted'),
           DescribesBlocks(plan.frames, plan.objects, emitted'),
           pc' = "emit" =>
              /\ frame' <= Len(plan.frames) /\ envelope'.index <= Len(plan.objects)
              /\ PackedSoFar(Options, SubSeq(plan.frames, 1, frame'),
                             SubSeq(plan.objects, 1, envelope'.index), envelope')
              /\ next_block' = StartOf(plan.objects, envelope'.index + 1)
              /\ Len(emitted') = next_block'
    PROVE  OutputInPlace'
  <1>1. PlanInPlace'
    BY EmissionFacts DEF PlanInPlace
  <1>2. EmissionInPlace'
    BY DEF EmissionInPlace
  <1>3. EmittedAsPlanned'
    BY DEF EmittedAsPlanned
  <1> QED  BY <1>1, <1>2, <1>3 DEF OutputInPlace

LEMMA EmitFlushStep ==
    ASSUME Assumptions, TwoPassInv, EmitFinalFlush
    PROVE  OutputInPlace'
  <1>1. /\ pc = "emit" /\ envelope.plaintext # <<>> /\ matches_object
        /\ emitted' = emitted \o sealed_blocks
        /\ next_block' = next_block_index(object.extent)
        /\ envelope' = EmptyEnvelope(envelope.index + 1)
        /\ UNCHANGED <<pc, plan, frame, written>>
    BY DEF EmitFinalFlush
  <1>2. /\ emitted' \in Seq(BlockRecords) /\ Len(emitted') = next_block' /\ next_block' \in Nat
        /\ InBlockOrder(emitted') /\ DescribesBlocks(plan.frames, plan.objects, emitted')
    BY <1>1, AllEmitted
  <1>3. /\ envelope.index \in Nat /\ envelope.index + 1 <= Len(plan.objects)
        /\ next_block' = StartOf(plan.objects, (envelope.index + 1) + 1)
        /\ PackedSoFar(Options, SubSeq(plan.frames, 1, frame),
                       SubSeq(plan.objects, 1, envelope.index + 1), envelope')
    BY <1>1, EmissionSeals
  <1>4. envelope'.index = envelope.index + 1 /\ envelope' \in Envelopes
    BY <1>1, <1>3 DEF EmptyEnvelope, Envelopes
  <1>5. OutputTypes'
    BY <1>1, <1>2, <1>4, EmissionFacts DEF OutputTypes
  <1>6. frame' <= Len(plan.frames)
    BY <1>1, EmissionFacts
  <1> QED  BY <1>1, <1>2, <1>3, <1>4, <1>5, <1>6, EmissionKept

LEMMA SinkStep ==
    ASSUME Assumptions, TwoPassInv, SinkFails
    PROVE  OutputInPlace'
  <1>1. /\ pc = "emit" /\ envelope.plaintext # <<>> /\ matches_object /\ pc' = "io_err"
        /\ UNCHANGED <<plan, frame, written, envelope, next_block>>
    BY DEF SinkFails
  <1>2. PICK n \in 0 .. Len(sealed_blocks) - 1 :
          emitted' = emitted \o SubSeq(sealed_blocks, 1, n)
    BY DEF SinkFails
  <1>3. /\ Len(sealed_blocks) \in Nat
        /\ \A m \in 0 .. Len(sealed_blocks) :
             LET bs == emitted \o SubSeq(sealed_blocks, 1, m)
             IN  /\ bs \in Seq(BlockRecords)
                 /\ InBlockOrder(bs)
                 /\ DescribesBlocks(plan.frames, plan.objects, bs)
    BY <1>1, EmissionSeals
  <1>4. n \in 0 .. Len(sealed_blocks)
    BY <1>3
  <1>5. /\ emitted' \in Seq(BlockRecords)
        /\ InBlockOrder(emitted') /\ DescribesBlocks(plan.frames, plan.objects, emitted')
    BY <1>2, <1>3, <1>4
  <1>6. OutputTypes'
    BY <1>1, <1>5, EmissionFacts DEF OutputTypes
  <1> QED  BY <1>1, <1>5, <1>6, EmissionKept

\* A chunk of the emission pass: the envelope before it is sealed if it has to
\* be, then the frame is packed if it is the planned one.
LEMMA EmitChunkStep ==
    ASSUME Assumptions, TwoPassInv, EmitChunk
    PROVE  OutputInPlace'
  <1> DEFINE fs == plan.frames
             os == plan.objects
             gs == SubSeq(fs, 1, frame)
             f  == payload_frame_metadata(frame, base, this_chunk, frame_len)
  <1>1. /\ pc = "emit" /\ reading /\ chunk_len > 0 /\ UNCHANGED plan
        /\ needs_flush => matches_object
        /\ emitted' = IF needs_flush THEN emitted \o sealed_blocks ELSE emitted
        /\ next_block' = IF needs_flush THEN next_block_index(object.extent) ELSE next_block
        /\ \/ /\ matches_frame /\ envelope' = extend_envelope(base, frame, frame_len)
              /\ written' = written \o packed /\ frame' = frame + 1 /\ UNCHANGED pc
           \/ pc' = "err" /\ envelope' = base /\ UNCHANGED <<written, frame>>
    BY DEF EmitChunk
  <1>2. /\ TypeOK /\ ReadingInPlace /\ plan \in Plans /\ frame \in Nat /\ frame <= Len(fs)
        /\ written \in Seq(Bytes)
    BY <1>1, EmissionFacts
  <1>3. /\ emitted' \in Seq(BlockRecords) /\ Len(emitted') = next_block' /\ next_block' \in Nat
        /\ InBlockOrder(emitted') /\ DescribesBlocks(fs, os, emitted')
        /\ base.index <= Len(os) /\ base \in Envelopes
        /\ next_block' = StartOf(os, base.index + 1)
        /\ PackedSoFar(Options, gs, SubSeq(os, 1, base.index), base)
    <2>1. CASE needs_flush
      <3>1. envelope.plaintext # <<>> /\ matches_object
            /\ base = EmptyEnvelope(envelope.index + 1)
        BY <1>1, <2>1, BaseHasRoom DEF base
      <3>2. emitted' = emitted \o sealed_blocks /\ next_block' = next_block_index(object.extent)
        BY <1>1, <2>1
      <3>3. /\ emitted' \in Seq(BlockRecords) /\ Len(emitted') = next_block'
            /\ next_block' \in Nat
            /\ InBlockOrder(emitted') /\ DescribesBlocks(fs, os, emitted')
        BY <1>1, <3>1, <3>2, AllEmitted
      <3>4. /\ envelope.index \in Nat /\ envelope.index + 1 <= Len(os)
            /\ next_block' = StartOf(os, (envelope.index + 1) + 1)
            /\ PackedSoFar(Options, gs, SubSeq(os, 1, envelope.index + 1), base)
        BY <1>1, <3>1, <3>2, EmissionSeals
      <3>5. base.index = envelope.index + 1 /\ base \in Envelopes
        BY <3>1, <3>4 DEF EmptyEnvelope, Envelopes
      <3> QED  BY <3>3, <3>4, <3>5
    <2>2. CASE ~needs_flush
      <3>1. base = envelope /\ emitted' = emitted /\ next_block' = next_block
        BY <1>1, <2>2 DEF base
      <3> QED  BY <1>1, <3>1, EmissionFacts
    <2> QED  BY <2>1, <2>2
  <1>4. CASE pc' = "err" /\ envelope' = base /\ UNCHANGED <<written, frame>>
    <2>1. OutputTypes'
      BY <1>1, <1>2, <1>3, <1>4 DEF OutputTypes
    <2> QED  BY <1>1, <1>3, <1>4, <2>1, EmissionKept
  <1>5. CASE /\ matches_frame /\ envelope' = extend_envelope(base, frame, frame_len)
             /\ written' = written \o packed /\ frame' = frame + 1 /\ UNCHANGED pc
    <2>1. /\ fs \in Seq(PayloadFrameRecords) /\ Len(fs) \in Nat
      BY <1>2, PlanFields
    <2>2. frame < Len(fs) /\ fs[frame + 1] = f
      BY <1>5 DEF matches_frame
    <2>3. Len(gs) = frame
      <3>1. frame \in 0 .. Len(fs)
        BY <1>2, <2>1
      <3> QED  BY <2>1, <3>1, Prefix
    <2>4. PackedSoFar(Options, Append(gs, f), SubSeq(os, 1, base.index), envelope')
      <3> DEFINE hs == SubSeq(os, 1, base.index)
      <3>1. PackedSoFar(Options, gs, hs, base)
        BY <1>3
      <3> HIDE DEF hs, gs
      <3>2. PackedSoFar(Options, Append(gs, payload_frame_metadata(Len(gs), base, this_chunk,
                                                                   frame_len)),
                        hs, extend_envelope(base, Len(gs), frame_len))
        BY <1>1, <1>2, <3>1, BaseHasRoom, ChunkPacked
      <3> QED  BY <1>5, <2>3, <3>2 DEF hs
    <2>5. SubSeq(fs, 1, frame + 1) = Append(gs, f)
      BY <1>2, <2>1, <2>2, LongerPrefix
    <2>6. envelope'.index = base.index
      BY <1>3, <1>5 DEF extend_envelope, Envelopes
    <2>7. written' \in Seq(Bytes)
      <3>1. packed \in Seq(Bytes)
        BY <1>1, <1>2, ChunkTaken
      <3> QED  BY <1>2, <1>5, <3>1, ConcatProperties
    <2>8. envelope' \in Envelopes
      BY <2>4 DEF PackedSoFar
    <2>9. frame' \in Nat /\ frame' <= Len(fs)
      BY <1>2, <1>5, <2>1, <2>2
    <2>10. OutputTypes'
      BY <1>1, <1>2, <1>3, <2>7, <2>8, <2>9 DEF OutputTypes
    <2>11. PackedSoFar(Options, SubSeq(fs, 1, frame'), SubSeq(os, 1, envelope'.index), envelope')
      BY <1>5, <2>4, <2>5, <2>6
    <2>12. pc' = "emit" /\ envelope'.index <= Len(os)
           /\ next_block' = StartOf(os, envelope'.index + 1)
      BY <1>1, <1>3, <1>5, <2>6
    <2> QED  BY <1>1, <1>3, <2>9, <2>10, <2>11, <2>12, EmissionKept
  <1> QED  BY <1>1, <1>4, <1>5

\* The end of the emission, and the steps that change nothing of it.
LEMMA FinishStep ==
    ASSUME TwoPassInv, Finish
    PROVE  OutputInPlace'
  <1>1. /\ pc = "emit" /\ UNCHANGED <<plan, frame, emitted, written, envelope, next_block>>
        /\ pc' = "err" \/ (/\ pc' = "ok" /\ frame = Len(plan.frames)
                           /\ envelope.index = Len(plan.objects))
    BY DEF Finish
  <1>2. TypeOK /\ PlanInPlace /\ EmissionInPlace /\ EmittedAsPlanned
    BY DEF TwoPassInv
  <1>3. OutputTypes'
    BY <1>1, <1>2 DEF OutputTypes, TypeOK
  <1>4. PlanInPlace'
    BY <1>1, <1>2 DEF PlanInPlace
  <1>5. EmissionInPlace'
    BY <1>1, <1>2 DEF EmissionInPlace
  <1>6. EmittedAsPlanned'
    BY <1>1, <1>2 DEF EmittedAsPlanned
  <1> QED  BY <1>3, <1>4, <1>5, <1>6 DEF OutputInPlace

LEMMA QuietStep ==
    ASSUME TwoPassInv, UNCHANGED <<plan, frame, emitted, written, envelope, next_block>>,
           pc' = pc \/ pc' \in {"err", "io_err"}
    PROVE  OutputInPlace'
  <1>2. TypeOK /\ PlanInPlace /\ EmissionInPlace /\ EmittedAsPlanned
    BY DEF TwoPassInv
  <1>3. OutputTypes'
    BY <1>2 DEF OutputTypes, TypeOK
  <1>4. PlanInPlace'
    BY <1>2 DEF PlanInPlace
  <1>5. EmissionInPlace'
    BY <1>2 DEF EmissionInPlace
  <1>6. EmittedAsPlanned'
    BY <1>2 DEF EmittedAsPlanned
  <1> QED  BY <1>3, <1>4, <1>5, <1>6 DEF OutputInPlace

-----------------------------------------------------------------------------
(***************************************************************************)
(* The inductive invariant                                                 *)
(***************************************************************************)

LEMMA OutputStep ==
    ASSUME Assumptions, TwoPassInv, [Next]_vars
    PROVE  OutputInPlace'
  <1>1. ByteTooLarge \/ SourceFails \/ EnvelopeMismatch \/ FileChanges \/ Finished
          \/ UNCHANGED vars
        => /\ UNCHANGED <<plan, frame, emitted, written, envelope, next_block>>
           /\ pc' = pc \/ pc' \in {"err", "io_err"}
    BY DEF ByteTooLarge, SourceFails, EnvelopeMismatch, FileChanges, Finished
  <1> QED  BY <1>1, QuietStep, FinishStep, EmitChunkStep, SinkStep, EmitFlushStep, BeginStep,
              PlanFlushStep, PlanChunkStep DEF Next, Writer

LEMMA TwoPassInit ==
    ASSUME Assumptions, Init
    PROVE  TwoPassInv
  <1>1. /\ pc = "plan" /\ scanned \in [DOMAIN Members -> Versions] /\ file = scanned
        /\ touched = {} /\ noted = {} /\ member = 1 /\ offset = 0 /\ pushback = <<>>
        /\ stream_pos = 0 /\ envelope = EmptyEnvelope(0) /\ next_block = 0
        /\ plan = NoPlanYet /\ frame = 0 /\ emitted = <<>> /\ written = <<>>
    BY DEF Init
  <1>2. /\ Len(Members) \in Nat /\ \A i \in 1 .. Len(Members) : Members[i] \in Nat \ {0}
        /\ Options.chunk_size \in Nat
    <2>1. Members \in Seq(Nat \ {0})
      BY DEF Assumptions, InputAssumption
    <2> QED  BY <2>1, LenProperties, ElementOfSeq
             DEF Assumptions, OptionsAssumption, ValidOptions, ValidRequest, OptionFields
  <1>3. /\ plan \in Plans /\ plan.frames = <<>> /\ plan.objects = <<>>
    BY <1>1 DEF NoPlanYet, Plans
  <1>4. TypeOK
    <2>1. 1 \in 1 .. Len(Members) + 1
      BY <1>2
    <2> QED  BY <1>1, <1>3, <2>1, NothingPacked DEF TypeOK
  <1>5. ReadingInPlace
    <2>1. 1 <= Len(Members) => Members[1] \in Nat \ {0}
      BY <1>2
    <2>2. Len(pushback) = 0
      BY <1>1
    <2> QED  BY <1>1, <1>2, <2>1, <2>2 DEF ReadingInPlace
  <1>6. ChangesSeen
    BY <1>1 DEF ChangesSeen
  <1>7. PlanInPlace
    <2>1. StartOf(plan.objects, Len(plan.objects) + 1) = 0
      BY <1>3 DEF StartOf
    <2> QED  BY <1>1, <1>3, <2>1, NothingPacked DEF PlanInPlace, LaidOut
  <1>8. EmissionInPlace /\ EmittedAsPlanned
    BY <1>1, NothingEmitted DEF EmissionInPlace, EmittedAsPlanned
  <1> QED  BY <1>4, <1>5, <1>6, <1>7, <1>8 DEF TwoPassInv

LEMMA TwoPassStep ==
    ASSUME Assumptions, TwoPassInv, [Next]_vars
    PROVE  TwoPassInv'
  <1>1. OutputTypes' /\ PlanInPlace' /\ EmissionInPlace' /\ EmittedAsPlanned'
    BY OutputStep DEF OutputInPlace
  <1>2. /\ ReadingInPlace'
        /\ member' \in 1 .. Len(Members) + 1 /\ offset' \in Nat
        /\ pushback' \in Seq(Bytes) /\ stream_pos' \in Nat
    BY ReadingStep
  <1>3. ChangesSeen'
    BY ChangesStep
  <1>4. /\ pc' \in {"plan", "emit", "ok", "err", "io_err"}
    BY DEF TwoPassInv, TypeOK, Next, Writer, ByteTooLarge, SourceFails, PlanChunk,
           PlanFinalFlush, BeginEmission, EmitChunk, EnvelopeMismatch, EmitFinalFlush,
           SinkFails, Finish, Finished, FileChanges
  <1>5. scanned' \in [DOMAIN Members -> Versions] /\ file' \in [DOMAIN Members -> Versions]
    <2>0. scanned \in [DOMAIN Members -> Versions] /\ file \in [DOMAIN Members -> Versions]
      BY DEF TwoPassInv, TypeOK
    <2>1. CASE FileChanges
      BY <2>0, <2>1 DEF FileChanges
    <2>2. CASE UNCHANGED <<scanned, file>>
      BY <2>0, <2>2
    <2>3. Packing \/ BeginEmission => UNCHANGED <<scanned, file>>
      BY PackingReads DEF BeginEmission
    <2> QED  BY <2>1, <2>2, <2>3, Effects
  <1>6. TypeOK'
    BY <1>1, <1>2, <1>4, <1>5 DEF TypeOK, OutputTypes
  <1> QED  BY <1>1, <1>2, <1>3, <1>6 DEF TwoPassInv

-----------------------------------------------------------------------------
(***************************************************************************)
(* Theorems                                                                *)
(***************************************************************************)

\* The inductive invariant of the two-pass writer: the plan, how far either pass
\* has got in it, and where every changed byte is.
THEOREM TwoPassAlways ==
    ASSUME Assumptions
    PROVE  Spec => []TwoPassInv
  <1>1. TwoPassInv /\ [Next]_vars => TwoPassInv'
    BY TwoPassStep
  <1>2. Init => TwoPassInv
    BY TwoPassInit
  <1> QED  BY <1>1, <1>2, PTL DEF Spec

\* Whatever happens to the files between and during the passes, the blocks that
\* emit_payload_stream writes are the beginning of the plan, described by the
\* index built from it, and a success has written all of them.
THEOREM EmissionAlwaysFollows ==
    ASSUME Assumptions
    PROVE  Spec => []EmissionFollowsPlan
  <1>1. TwoPassInv => EmissionFollowsPlan
    <2> SUFFICES ASSUME TwoPassInv
                 PROVE  EmissionFollowsPlan
      OBVIOUS
    <2>1. InBlockOrder(emitted) /\ DescribesBlocks(plan.frames, plan.objects, emitted)
      BY DEF TwoPassInv, EmittedAsPlanned
    <2>2. ASSUME pc = "ok"
          PROVE  /\ Len(emitted) = plan.total /\ frame = Len(plan.frames)
                 /\ TilesEnvelopes(plan.frames, plan.objects)
      <3>1. PlanInPlace /\ EmissionInPlace
        BY DEF TwoPassInv
      <3>2. /\ PackedSoFar(Options, plan.frames, plan.objects,
                           EmptyEnvelope(Len(plan.objects)))
            /\ plan.total = StartOf(plan.objects, Len(plan.objects) + 1)
        BY <2>2, <3>1 DEF PlanInPlace
      <3>3. /\ frame = Len(plan.frames) /\ envelope.index = Len(plan.objects)
            /\ Len(emitted) = StartOf(plan.objects, envelope.index + 1)
        BY <2>2, <3>1 DEF EmissionInPlace
      <3> QED  BY <3>2, <3>3 DEF PackedSoFar
    <2> QED  BY <2>1, <2>2 DEF EmissionFollowsPlan
  <1> QED  BY <1>1, TwoPassAlways, PTL

\* A file that was archived with content other than the scanned one is always
\* reported (os_input.rs): the identity check after the last byte cannot miss a
\* change that any byte packed before it shows.
THEOREM ChangesAlwaysNoted ==
    ASSUME Assumptions
    PROVE  Spec => []ChangesAreNoted
  <1>1. Assumptions /\ TwoPassInv => ChangesAreNoted
    <2> SUFFICES ASSUME Assumptions, TwoPassInv, pc = "ok"
                 PROVE  \A i \in DOMAIN written :
                          written[i].version # scanned[written[i].file]
                            => written[i].file \in noted
      BY DEF ChangesAreNoted
    <2>1. member > Len(Members) /\ written \in Seq(Bytes) /\ member \in 1 .. Len(Members) + 1
      BY DEF TwoPassInv, TypeOK, ReadingInPlace
    <2>2. Len(Members) \in Nat
      BY LenProperties DEF Assumptions, InputAssumption
    <2>3. ~unread
      BY <2>1, <2>2 DEF unread
    <2>4. \A i \in DOMAIN written : Accounted(written[i])
      BY <2>1, LenProperties DEF TwoPassInv, ChangesSeen
    <2> QED  BY <2>3, <2>4 DEF Accounted
  <1> QED  BY <1>1, TwoPassAlways, PTL
=============================================================================
