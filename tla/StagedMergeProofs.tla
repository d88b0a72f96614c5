------------------------- MODULE StagedMergeProofs -------------------------
(***************************************************************************)
(* Proofs about the merge of a staged tree into the output, for any tree,  *)
(* any output, any options and any number of steps of other processes: a   *)
(* success has put every entry in place, a failure half-way has an outside *)
(* reason, and no file is lost that was neither to be overwritten nor      *)
(* appeared after its name had been checked.                               *)
(*                                                                         *)
(* What a step does to the output is said once, by which paths it leaves   *)
(* as they are.  Entries that have not been moved are left alone, so what  *)
(* was checked of them stays true while nobody else is at work; entries    *)
(* that have been moved are left alone because whatever is below a moved   *)
(* directory has been moved with it.                                       *)
(***************************************************************************)
EXTENDS StagedMerge, SequenceTheorems, TLAPS

-----------------------------------------------------------------------------
(***************************************************************************)
(* Paths and trees                                                         *)
(***************************************************************************)

\* An entry of the output, and the output.
Node(n) == n \in [kind : {n.kind}, of : {n.of}, final : {n.final}]
Tree(t) == t = [p \in DOMAIN t |-> t[p]] /\ \A p \in DOMAIN t : Node(t[p])

\* The path p has the same entry in both trees, but for its modification time.
Same(t, u, p) ==
    /\ p \in DOMAIN t <=> p \in DOMAIN u
    /\ p \in DOMAIN t => u[p].kind = t[p].kind /\ u[p].of = t[p].of

\* The modification time is a field of its own.
LEMMA NodeExcept ==
    ASSUME NEW n, Node(n), NEW v, v = [n EXCEPT !.final = FALSE]
    PROVE  Node(v) /\ v.kind = n.kind /\ v.of = n.of /\ v.final = FALSE
  <1>1. v \in [kind : {n.kind}, of : {n.of}, final : {FALSE}]
    BY DEF Node
  <1> QED  BY <1>1 DEF Node

\* A new entry changes nothing of a directory but its modification time.
LEMMA EnteredSame ==
    ASSUME NEW t, Tree(t), NEW q
    PROVE  /\ Tree(entered(t, q)) /\ DOMAIN entered(t, q) = DOMAIN t
           /\ \A p : Same(t, entered(t, q), p)
           /\ \A p \in DOMAIN t : p # q => entered(t, q)[p] = t[p]
  <1>1. CASE q \in DOMAIN t
    <2>1. entered(t, q) = [t EXCEPT ![q] = [t[q] EXCEPT !.final = FALSE]]
      BY <1>1 DEF entered
    <2> DEFINE v == [t[q] EXCEPT !.final = FALSE]
    <2>2. Node(v) /\ v.kind = t[q].kind /\ v.of = t[q].of
      BY <1>1, NodeExcept DEF Tree
    <2>3. DOMAIN entered(t, q) = DOMAIN t /\ entered(t, q) = [p \in DOMAIN t |-> entered(t, q)[p]]
      BY <2>1 DEF Tree
    <2>4. \A p \in DOMAIN t : entered(t, q)[p] = IF p = q THEN v ELSE t[p]
      BY <2>1 DEF Tree
    <2> HIDE DEF v
    <2> QED  BY <2>2, <2>3, <2>4 DEF Tree, Same
  <1>2. CASE q \notin DOMAIN t
    BY <1>2 DEF entered, Same
  <1> QED  BY <1>1, <1>2

\* Another entry.
LEMMA WithSame ==
    ASSUME NEW t, Tree(t), NEW q, NEW kind
    PROVE  /\ Tree(with(t, q, theirs(kind))) /\ DOMAIN with(t, q, theirs(kind)) = DOMAIN t \cup {q}
           /\ \A p : p # q => Same(t, with(t, q, theirs(kind)), p)
           /\ with(t, q, theirs(kind))[q] = theirs(kind)
  BY DEF Tree, Node, Same, with, theirs

\* One entry less.
LEMMA WithoutSame ==
    ASSUME NEW t, Tree(t), NEW q
    PROVE  /\ Tree(without(t, q)) /\ DOMAIN without(t, q) = DOMAIN t \ {q}
           /\ \A p : p # q => Same(t, without(t, q), p)
           /\ \A p \in DOMAIN t : p # q => without(t, q)[p] = t[p]
  BY DEF Tree, Node, Same, without

\* Two changes that leave a path alone.
LEMMA SameTwice ==
    ASSUME NEW t, NEW u, NEW v, NEW p, Same(t, u, p), Same(u, v, p)
    PROVE  Same(t, v, p)
  BY DEF Same

\* The beginning of a path.
LEMMA Beginning ==
    ASSUME NEW q \in Seq(Nat), NEW n \in Nat, n <= Len(q)
    PROVE  /\ SubSeq(q, 1, n) \in Seq(Nat) /\ Len(SubSeq(q, 1, n)) = n
           /\ \A i \in 1 .. n : SubSeq(q, 1, n)[i] = q[i]
  <1>1. \A i \in 1 .. n : q[i] \in Nat
    BY ElementOfSeq
  <1>2. /\ SubSeq(q, 1, n) \in Seq(Nat)
        /\ Len(SubSeq(q, 1, n)) = IF 1 <= n THEN n - 1 + 1 ELSE 0
        /\ \A i \in 1 .. n - 1 + 1 : SubSeq(q, 1, n)[i] = q[1 + i - 1]
    BY <1>1, SubSeqProperties
  <1> QED  BY <1>2

\* A path is below its parent, and below whatever its parent is below.
LEMMA BelowParent ==
    ASSUME NEW q \in Seq(Nat), q # <<>>
    PROVE  /\ parent(q) \in Seq(Nat) /\ Len(parent(q)) = Len(q) - 1
           /\ below(parent(q), q)
           /\ \A p \in Seq(Nat) : below(p, parent(q)) => below(p, q)
  <1>1. Len(q) \in Nat /\ Len(q) > 0
    BY EmptySeq, LenProperties
  <1>2. parent(q) \in Seq(Nat) /\ Len(parent(q)) = Len(q) - 1
    <2>1. Len(q) - 1 \in Nat /\ Len(q) - 1 <= Len(q)
      BY <1>1
    <2>2. SubSeq(q, 1, Len(q) - 1) \in Seq(Nat) /\ Len(SubSeq(q, 1, Len(q) - 1)) = Len(q) - 1
      BY <2>1, Beginning, Zenon
    <2> QED  BY <2>2 DEF parent
  <1>3. ASSUME NEW p \in Seq(Nat), below(p, parent(q))
        PROVE  below(p, q)
    <2>1. Len(p) \in Nat /\ Len(p) < Len(q) - 1 /\ SubSeq(parent(q), 1, Len(p)) = p
      BY <1>2, <1>3, LenProperties DEF below
    <2>2. SubSeq(q, 1, Len(p)) = SubSeq(SubSeq(q, 1, Len(q) - 1), 1, Len(p))
      <3>1. Len(p) <= Len(q) /\ Len(p) <= Len(parent(q))
        BY <1>1, <1>2, <2>1
      <3>2. /\ SubSeq(q, 1, Len(p)) \in Seq(Nat) /\ Len(SubSeq(q, 1, Len(p))) = Len(p)
            /\ \A i \in 1 .. Len(p) : SubSeq(q, 1, Len(p))[i] = q[i]
        BY <2>1, <3>1, Beginning, Zenon
      <3>3. /\ SubSeq(parent(q), 1, Len(p)) \in Seq(Nat) /\ Len(SubSeq(parent(q), 1, Len(p))) = Len(p)
            /\ \A i \in 1 .. Len(p) : SubSeq(parent(q), 1, Len(p))[i] = parent(q)[i]
        BY <1>2, <2>1, <3>1, Beginning, Zenon
      <3>4. \A i \in 1 .. Len(p) : parent(q)[i] = q[i]
        BY <1>1, <2>1, Beginning DEF parent
      <3>5. \A i \in 1 .. Len(p) : SubSeq(q, 1, Len(p))[i] = SubSeq(parent(q), 1, Len(p))[i]
        BY <3>2, <3>3, <3>4
      <3>6. SubSeq(q, 1, Len(p)) = SubSeq(parent(q), 1, Len(p))
        BY <3>2, <3>3, <3>5, SeqEqual
      <3> QED  BY <3>6 DEF parent
    <2> QED  BY <2>1, <2>2 DEF below, parent
  <1> QED  BY <1>1, <1>2, <1>3 DEF below, parent

-----------------------------------------------------------------------------
(***************************************************************************)
(* The invariant                                                           *)
(***************************************************************************)

Merging == {"merge", "move"}
dir(k) == staged[k].kind = "dir"
at(k) == staged[k].path

TypeInv ==
    /\ staged \in Staged /\ Tree(output) /\ next \in Nat \ {0} /\ others \in Nat
    /\ moved \subseteq DOMAIN staged /\ merged \subseteq directories
    /\ pc \in {"stream", "snapshot", "inspect", "root", "preflight", "finalize", "end"} \cup Merging
    /\ pc # "end" => result = "open"

\* Nothing is moved before all names are checked, and what is being moved has not been.
Order ==
    /\ pc \in {"stream", "snapshot"} => merged = {}
    /\ pc \in {"stream", "snapshot", "inspect", "root"} => next = 1
    /\ pc \in {"stream", "snapshot", "inspect", "root", "preflight"} => moved = {}
    /\ pc = "move" => next \in DOMAIN staged \ moved

\* A directory stays: those to get their metadata, and the output itself.
DirectoriesStay ==
    /\ \A p \in merged : is_dir(p)
    /\ pc \in {"preflight"} \cup Merging => is_dir(<<>>)

\* What is moved stays where it was moved to, and all below it with it.
MovedStays ==
    /\ \A k \in moved : exists(at(k)) /\ output[at(k)].kind = staged[k].kind /\ output[at(k)].of = "ours"
    /\ \A j \in moved, k \in DOMAIN staged : at(j) = parent(at(k)) => k \in moved

\* An entry behind the walk is moved, or is a directory that was there.
Behind(k) == k \in moved \/ (dir(k) /\ is_dir(at(k)))
BehindTheWalk ==
    /\ pc \in Merging => \A k \in DOMAIN staged : k < next => Behind(k)
    /\ pc = "finalize" => \A k \in DOMAIN staged : Behind(k)

\* With nobody else at work: what is moved has its archived times, and a directory that was
\* not moved was there when the output was looked at.
Alone ==
    others = 0 =>
        /\ \A k \in moved : output[at(k)].final
        /\ pc \in {"inspect", "root", "preflight", "finalize"} \cup Merging =>
              \A k \in DOMAIN staged \ moved : dir(k) /\ is_dir(at(k)) => at(k) \in merged

\* With nobody else at work: the check of a name stays true.
Clear(k) ==
    exists(at(k)) => IF dir(k) THEN is_dir(at(k)) ELSE ~is_dir(at(k)) /\ options.overwrite
StaysClear ==
    others = 0 =>
        /\ pc = "preflight" => \A k \in DOMAIN staged : k < next => Clear(k)
        /\ pc \in Merging => \A k \in DOMAIN staged \ moved : Clear(k)
        /\ pc = "move" /\ dir(next) => ~exists(at(next))

\* A file in the way of another that is not to be overwritten came after the check.
CameLate(k) == ~dir(k) /\ exists(at(k)) => options.overwrite \/ at(k) \in late
InTheWay ==
    /\ pc = "preflight" => \A k \in DOMAIN staged : k < next => CameLate(k)
    /\ pc \in Merging => \A k \in DOMAIN staged \ moved : CameLate(k)

Inv ==
    /\ TypeInv /\ Order /\ DirectoriesStay /\ MovedStays /\ BehindTheWalk
    /\ Alone /\ StaysClear /\ InTheWay /\ MergeIsExact

-----------------------------------------------------------------------------
(***************************************************************************)
(* What a step does to the output                                          *)
(***************************************************************************)

\* What read_dir_sorted finds.
Entry == [path : Seq(Nat) \ {<<>>}, kind : STRING, closed : BOOLEAN]

\* What is assumed of a staged tree, as the other lemmas use it.
LEMMA StagedFacts ==
    ASSUME TreeAssumption, staged \in Staged
    PROVE  /\ staged \in Seq(Entry) /\ Len(staged) \in Nat /\ DOMAIN staged = 1 .. Len(staged)
           /\ \A k \in DOMAIN staged : staged[k] \in Entry /\ at(k) \in Seq(Nat) /\ at(k) # <<>>
           /\ \A j, k \in DOMAIN staged : at(j) = at(k) => j = k
           /\ \A k \in DOMAIN staged :
                 \/ parent(at(k)) = <<>>
                 \/ \E j \in DOMAIN staged : at(j) = parent(at(k)) /\ j < k /\ dir(j)
  <1>1. staged \in Seq(Entry) /\ Len(staged) \in Nat /\ DOMAIN staged = 1 .. Len(staged)
    BY DEF TreeAssumption, Entry
  <1>2. \A k \in DOMAIN staged : staged[k] \in Entry
    BY <1>1
  <1>3. \A k \in DOMAIN staged : at(k) \in Seq(Nat) /\ at(k) # <<>>
    BY <1>2 DEF Entry, at
  <1>4. \A j, k \in DOMAIN staged : at(j) = at(k) => j = k
    BY DEF TreeAssumption, at
  <1>5. ASSUME NEW k \in DOMAIN staged, parent(at(k)) # <<>>
        PROVE  \E j \in DOMAIN staged : at(j) = parent(at(k)) /\ j < k /\ dir(j)
    <2>1. PICK j \in DOMAIN staged : at(j) = parent(at(k))
      BY <1>5 DEF TreeAssumption, at
    <2>2. below(at(j), at(k))
      BY <1>3, <2>1, BelowParent
    <2>3. j < k /\ dir(j)
      BY <2>2 DEF TreeAssumption, at, dir
    <2> QED  BY <2>1, <2>3
  <1> QED  BY <1>1, <1>2, <1>3, <1>4, <1>5

\* The entry behind p in the tree that is moved.
LEMMA OfSubtree ==
    ASSUME TreeAssumption, staged \in Staged, NEW e, NEW k \in subtree(e)
    PROVE  k \in DOMAIN staged /\ (CHOOSE j \in subtree(e) : staged[j].path = at(k)) = k
  <1>1. k \in DOMAIN staged /\ \A j \in subtree(e) : staged[j].path = at(k) => j = k
    BY StagedFacts DEF subtree, at
  <1>2. \E j \in subtree(e) : staged[j].path = at(k)
    BY DEF at
  <1> QED  BY <1>1, <1>2

\* The same for the whole tree.
LEMMA OfStaged ==
    ASSUME TreeAssumption, staged \in Staged, NEW k \in DOMAIN staged
    PROVE  (CHOOSE j \in DOMAIN staged : staged[j].path = at(k)) = k
  BY StagedFacts DEF at

\* An entry that was moved has its archived metadata.
LEMMA OursIsNode ==
    ASSUME NEW e
    PROVE  Node(ours(e)) /\ ours(e).kind = e.kind /\ ours(e).of = "ours" /\ ours(e).final
  BY DEF Node, ours

\* An entry of another process.
LEMMA TheirsIsNode ==
    ASSUME NEW kind
    PROVE  Node(theirs(kind)) /\ theirs(kind).kind = kind /\ theirs(kind).of = "theirs"
  BY DEF Node, theirs

\* The whole staged tree becomes the output.
LEMMA RootEffect ==
    ASSUME TreeAssumption, TypeInv, RenameRoot, pc' # "end"
    PROVE  /\ Tree(output')
           /\ \A k \in DOMAIN staged : at(k) \in DOMAIN output' /\ output'[at(k)] = ours(staged[k])
  <1> DEFINE new(p) == IF p = <<>> THEN theirs("dir")
                       ELSE ours(staged[CHOOSE k \in DOMAIN staged : staged[k].path = p])
  <1>1. output' = [p \in paths \cup {<<>>} |-> new(p)]
    BY DEF RenameRoot, Fail
  <1>2. \A p \in paths \cup {<<>>} : Node(new(p))
    BY OursIsNode, TheirsIsNode
  <1>3. ASSUME NEW k \in DOMAIN staged
        PROVE  at(k) \in paths /\ new(at(k)) = ours(staged[k])
    BY OfStaged, StagedFacts DEF TypeInv, at, paths
  <1> HIDE DEF new
  <1>4. Tree(output')
    BY <1>1, <1>2 DEF Tree
  <1> QED  BY <1>1, <1>3, <1>4

\* A file that is to be overwritten goes, and nothing else.
LEMMA MergeEffect ==
    ASSUME TreeAssumption, TypeInv, Merge, output' # output
    PROVE  /\ ~dir(next) /\ options.overwrite /\ exists(at(next)) /\ ~is_dir(at(next))
           /\ next <= Len(staged) /\ next \notin moved /\ pc' = "move"
           /\ Tree(output') /\ DOMAIN output' = DOMAIN output \ {at(next)}
           /\ \A p : p # at(next) => Same(output, output', p)
           /\ \A p \in DOMAIN output' : p # parent(at(next)) => output'[p] = output[p]
  <1>1. /\ ~dir(next) /\ options.overwrite /\ exists(at(next)) /\ ~is_dir(at(next))
        /\ ~(next > Len(staged)) /\ next \notin moved /\ pc' = "move"
        /\ output' = entered(without(output, at(next)), parent(at(next)))
    BY DEF Merge, Fail, Keep, dir, at, entry
  <1> DEFINE t == without(output, at(next))
  <1>2. /\ Tree(t) /\ DOMAIN t = DOMAIN output \ {at(next)}
        /\ \A p : p # at(next) => Same(output, t, p)
        /\ \A p \in DOMAIN output : p # at(next) => t[p] = output[p]
    BY WithoutSame DEF TypeInv
  <1> HIDE DEF t
  <1>3. /\ Tree(entered(t, parent(at(next)))) /\ DOMAIN entered(t, parent(at(next))) = DOMAIN t
        /\ \A p : Same(t, entered(t, parent(at(next))), p)
        /\ \A p \in DOMAIN t : p # parent(at(next)) => entered(t, parent(at(next)))[p] = t[p]
    BY <1>2, EnteredSame
  <1>4. output' = entered(t, parent(at(next)))
    BY <1>1 DEF t
  <1>5. next <= Len(staged)
    BY <1>1, StagedFacts DEF TypeInv
  <1> QED  BY <1>1, <1>2, <1>3, <1>4, <1>5, SameTwice

\* An entry is moved with all below it; what is not moved with it stays.
LEMMA MoveEffect ==
    ASSUME TreeAssumption, TypeInv, next \in DOMAIN staged, Move, renames(entry)
    PROVE  /\ moved' = moved \cup subtree(entry) /\ next \in subtree(entry)
           /\ subtree(entry) \subseteq DOMAIN staged
           /\ next' = next + 1 /\ pc' = "merge" /\ UNCHANGED <<input, others, merged, late, result>>
           /\ Tree(output')
           /\ \A k \in subtree(entry) : at(k) \in DOMAIN output' /\ output'[at(k)] = ours(staged[k])
           /\ \A p : (\A k \in subtree(entry) : p # at(k)) =>
                 /\ Same(output, output', p)
                 /\ p \in DOMAIN output /\ p # parent(at(next)) => output'[p] = output[p]
  <1> DEFINE S == {staged[k].path : k \in subtree(entry)}
             t == entered(output, parent(entry.path))
             new(p) == IF \E k \in subtree(entry) : staged[k].path = p
                       THEN ours(staged[CHOOSE k \in subtree(entry) : staged[k].path = p])
                       ELSE t[p]
  <1>1. /\ output' = [p \in DOMAIN output \cup S |-> new(p)]
        /\ moved' = moved \cup subtree(entry) /\ next' = next + 1 /\ pc' = "merge"
        /\ UNCHANGED <<input, others, merged, late, result>>
    BY DEF Move, Keep
  <1>2. next \in subtree(entry) /\ subtree(entry) \subseteq DOMAIN staged
    BY DEF subtree, entry
  <1>3. /\ Tree(t) /\ DOMAIN t = DOMAIN output /\ \A p : Same(output, t, p)
        /\ \A p \in DOMAIN output : p # parent(at(next)) => t[p] = output[p]
    BY EnteredSame DEF TypeInv, at, entry
  <1>4. \A k \in subtree(entry) : at(k) \in S /\ new(at(k)) = ours(staged[k])
    BY OfSubtree DEF TypeInv, at
  <1>5. \A p : (\A k \in subtree(entry) : p # at(k)) => p \notin S /\ new(p) = t[p]
    BY DEF at
  <1>6. \A p \in S : \E k \in subtree(entry) : p = at(k)
    BY DEF at
  <1> HIDE DEF S, t, new
  <1>7. \A p \in DOMAIN output \cup S : Node(new(p))
    BY <1>3, <1>4, <1>5, <1>6, OursIsNode DEF Tree
  <1>8. Tree(output')
    BY <1>1, <1>7 DEF Tree
  <1>9. \A k \in subtree(entry) : at(k) \in DOMAIN output' /\ output'[at(k)] = ours(staged[k])
    BY <1>1, <1>4
  <1>10. ASSUME NEW p, \A k \in subtree(entry) : p # at(k)
         PROVE  /\ Same(output, output', p)
                /\ p \in DOMAIN output /\ p # parent(at(next)) => output'[p] = output[p]
    <2>1. p \notin S /\ new(p) = t[p]
      BY <1>5, <1>10
    <2>2. p \in DOMAIN output' <=> p \in DOMAIN output
      BY <1>1, <2>1
    <2>3. p \in DOMAIN output => output'[p] = t[p]
      BY <1>1, <2>1
    <2> QED  BY <1>3, <2>2, <2>3 DEF Same
  <1> QED  BY <1>1, <1>2, <1>8, <1>9, <1>10

\* Only directories get their metadata again.
LEMMA FinalizeEffect ==
    ASSUME TypeInv, Finalize, result' = "ok"
    PROVE  /\ Tree(output') /\ \A p : Same(output, output', p)
           /\ \A p \in DOMAIN output : p \in merged /\ ~options.content => output'[p].final
           /\ \A p \in DOMAIN output : output[p].final => output'[p].final
  <1> DEFINE new(p) == IF p \in merged /\ ~options.content THEN [output[p] EXCEPT !.final = TRUE] ELSE output[p]
  <1>1. output' = [p \in DOMAIN output |-> new(p)]
    BY DEF Finalize, Fail
  <1>2. ASSUME NEW p \in DOMAIN output
        PROVE  /\ Node(new(p)) /\ new(p).kind = output[p].kind /\ new(p).of = output[p].of
               /\ p \in merged /\ ~options.content => new(p).final
               /\ output[p].final => new(p).final
    <2>1. Node(output[p])
      BY DEF TypeInv, Tree
    <2>2. CASE p \in merged /\ ~options.content
      <3>1. new(p) \in [kind : {output[p].kind}, of : {output[p].of}, final : {TRUE}]
        BY <2>1, <2>2 DEF Node
      <3> HIDE DEF new
      <3> QED  BY <3>1 DEF Node
    <2>3. CASE ~(p \in merged /\ ~options.content)
      BY <2>1, <2>3
    <2> QED  BY <2>2, <2>3
  <1> HIDE DEF new
  <1>3. Tree(output')
    BY <1>1, <1>2 DEF Tree
  <1> QED  BY <1>1, <1>2, <1>3 DEF Same

\* Another process makes a file or a directory.
LEMMA MakesEffect ==
    ASSUME TypeInv, NEW p, NEW kind, OtherMakes(p, kind)
    PROVE  /\ Tree(output') /\ DOMAIN output' = DOMAIN output \cup {p} /\ p \notin DOMAIN output
           /\ \A q : q # p => Same(output, output', q)
           /\ others' \in Nat \ {0} /\ pc # "end"
           /\ late' = IF checked(p) THEN late \cup {p} ELSE late
           /\ UNCHANGED <<input, merged, pc, next, moved, lost, result>>
  <1> DEFINE t == IF p = <<>> THEN output ELSE entered(output, parent(p))
  <1>1. Tree(t) /\ DOMAIN t = DOMAIN output /\ \A q : Same(output, t, q)
    BY EnteredSame DEF TypeInv, Same
  <1>2. output' = with(t, p, theirs(kind))
    BY DEF OtherMakes
  <1> HIDE DEF t
  <1>3. Tree(output') /\ DOMAIN output' = DOMAIN t \cup {p} /\ \A q : q # p => Same(t, output', q)
    BY <1>1, <1>2, WithSame
  <1>4. /\ p \notin DOMAIN output /\ others' \in Nat \ {0} /\ pc # "end"
        /\ UNCHANGED <<input, merged, pc, next, moved, lost, result>>
    BY DEF OtherMakes, TypeInv, exists
  <1>5. late' = IF checked(p) THEN late \cup {p} ELSE late
    BY DEF OtherMakes
  <1>6. \A q : q # p => Same(output, output', q)
    BY <1>1, <1>3, SameTwice
  <1> QED  BY <1>1, <1>3, <1>4, <1>5, <1>6

\* Another process removes a file of its own.
LEMMA RemovesEffect ==
    ASSUME TypeInv, NEW p, OtherRemoves(p)
    PROVE  /\ Tree(output') /\ DOMAIN output' = DOMAIN output \ {p} /\ p \in DOMAIN output
           /\ output[p].of = "theirs" /\ output[p].kind = "file"
           /\ \A q : q # p => Same(output, output', q)
           /\ others' \in Nat \ {0} /\ pc # "end"
           /\ UNCHANGED <<input, merged, pc, next, moved, late, lost, result>>
  <1> DEFINE t == without(output, p)
  <1>1. Tree(t) /\ DOMAIN t = DOMAIN output \ {p} /\ \A q : q # p => Same(output, t, q)
    BY WithoutSame DEF TypeInv
  <1>2. output' = entered(t, parent(p))
    BY DEF OtherRemoves
  <1> HIDE DEF t
  <1>3. Tree(output') /\ DOMAIN output' = DOMAIN t /\ \A q : Same(t, output', q)
    BY <1>1, <1>2, EnteredSame
  <1> QED  BY <1>1, <1>3, SameTwice DEF OtherRemoves, TypeInv, exists

-----------------------------------------------------------------------------
(***************************************************************************)
(* Every step keeps the invariant                                          *)
(***************************************************************************)

\* Nothing has happened yet.
LEMMA InitInv ==
    ASSUME Init PROVE Inv
  <1>1. output = [p \in DOMAIN before |-> theirs(before[p])]
    BY DEF Init
  <1>2. DOMAIN output = DOMAIN before /\ \A p \in DOMAIN output : Node(output[p])
    BY <1>1, TheirsIsNode
  <1>3. Tree(output)
    BY <1>1, <1>2 DEF Tree
  <1> QED  BY <1>3 DEF Init, Inv, TypeInv, Order, DirectoriesStay, MovedStays, BehindTheWalk, Alone,
                       StaysClear, InTheWay, MergeIsExact, Merging

\* The steps before anything is moved: they look, and fail without a trace.
LEMMA LookInv ==
    ASSUME TreeAssumption, Inv, Stream \/ Snapshot \/ Inspect
    PROVE  Inv'
  <1>1. /\ UNCHANGED <<output, staged, options, moved, late, lost, next, others>>
        /\ moved = {} /\ next = 1 /\ pc \in {"stream", "snapshot", "inspect"}
        /\ \/ result' = "open" /\ pc' \in {"snapshot", "inspect", "root", "preflight"}
           \/ result' = "err" /\ pc' = "end"
    BY DEF Inv, TypeInv, Order, Stream, Snapshot, Inspect, Fail, Keep, input
  <1>2. /\ merged' \subseteq directories /\ \A p \in merged' : is_dir(p)
        /\ pc' = "snapshot" => merged' = {}
        /\ pc' = "preflight" => is_dir(<<>>)
        /\ pc = "inspect" => merged' = merged
        /\ pc' = "inspect" => merged' = {p \in directories : is_dir(p)}
        /\ pc' \in {"root", "preflight"} => pc = "inspect"
    BY DEF Inv, TypeInv, Order, DirectoriesStay, Stream, Snapshot, Inspect, Fail, Keep, input
  <1>3. TypeInv'
    BY <1>1, <1>2 DEF Inv, TypeInv, directories, Merging
  <1>4. Order'
    BY <1>1, <1>2 DEF Order, Merging
  <1>5. DirectoriesStay'
    BY <1>1, <1>2 DEF DirectoriesStay, is_dir, exists, Merging
  <1>6. MovedStays' /\ BehindTheWalk'
    BY <1>1 DEF MovedStays, BehindTheWalk, Merging
  <1>7. Alone'
    <2>1. SUFFICES ASSUME others = 0, pc' \in {"inspect", "root", "preflight"},
                          NEW k \in DOMAIN staged, dir(k), is_dir(at(k))
                   PROVE  at(k) \in merged'
      BY <1>1 DEF Alone, dir, at, is_dir, exists, Merging
    <2>2. at(k) \in directories
      BY <2>1 DEF dir, at, directories
    <2>3. CASE pc' = "inspect"
      BY <1>2, <2>1, <2>2, <2>3
    <2>4. CASE pc' \in {"root", "preflight"}
      BY <1>1, <1>2, <2>1, <2>4 DEF Inv, Alone
    <2> QED  BY <2>1, <2>3, <2>4
  <1>8. StaysClear' /\ InTheWay'
    <2>1. Len(staged) \in Nat /\ DOMAIN staged = 1 .. Len(staged)
      BY StagedFacts DEF Inv, TypeInv
    <2> QED  BY <1>1, <2>1 DEF StaysClear, InTheWay, Merging
  <1>9. MergeIsExact'
    BY <1>1 DEF Inv, MergeIsExact, paths
  <1> QED  BY <1>3, <1>4, <1>5, <1>6, <1>7, <1>8, <1>9 DEF Inv

\* The staged tree becomes the output as a whole, or nothing happens.
LEMMA RootInv ==
    ASSUME TreeAssumption, Inv, RenameRoot
    PROVE  Inv'
  <1>1. /\ UNCHANGED <<staged, options, merged, late, lost, next, others>>
        /\ moved = {} /\ next = 1 /\ next \in Nat /\ others \in Nat /\ staged \in Staged
    BY DEF Inv, TypeInv, Order, RenameRoot, Keep, input
  <1>2. CASE pc' = "end"
    <2>1. UNCHANGED <<output, moved>> /\ result' = "err"
      BY <1>2 DEF RenameRoot, Fail
    <2>2. TypeInv' /\ Order' /\ DirectoriesStay'
      BY <1>1, <1>2, <2>1 DEF Inv, TypeInv, Order, DirectoriesStay, directories, is_dir, exists, Merging
    <2>3. MovedStays' /\ BehindTheWalk' /\ Alone' /\ StaysClear' /\ InTheWay'
      BY <1>1, <1>2, <2>1 DEF MovedStays, BehindTheWalk, Alone, StaysClear, InTheWay, Merging
    <2>4. MergeIsExact'
      BY <1>1, <2>1 DEF Inv, MergeIsExact, paths
    <2> QED  BY <2>2, <2>3, <2>4 DEF Inv
  <1>3. CASE pc' # "end"
    <2>1. pc' = "finalize" /\ moved' = DOMAIN staged /\ result' = "open"
      BY <1>3 DEF RenameRoot, Fail, Inv, TypeInv
    <2>2. /\ Tree(output')
          /\ \A k \in DOMAIN staged : /\ at(k) \in DOMAIN output' /\ output'[at(k)].kind = staged[k].kind
                                      /\ output'[at(k)].of = "ours" /\ output'[at(k)].final
      BY <1>3, RootEffect, OursIsNode DEF Inv
    <2>3. TypeInv' /\ Order'
      BY <1>1, <2>1, <2>2 DEF Inv, TypeInv, Order, directories, Merging
    <2>4. DirectoriesStay'
      BY <1>1, <2>1, <2>2 DEF Inv, TypeInv, DirectoriesStay, is_dir, exists, Merging, directories, at
    <2>5. MovedStays' /\ BehindTheWalk'
      BY <1>1, <2>1, <2>2 DEF MovedStays, BehindTheWalk, Behind, at, exists, Merging
    <2>6. Alone' /\ StaysClear' /\ InTheWay'
      BY <1>1, <2>1, <2>2 DEF Alone, StaysClear, InTheWay, at, Merging
    <2>7. MergeIsExact'
      BY <1>1, <2>1 DEF Inv, MergeIsExact, paths
    <2> QED  BY <2>3, <2>4, <2>5, <2>6, <2>7 DEF Inv
  <1> QED  BY <1>2, <1>3

\* A name is checked.
LEMMA PreflightInv ==
    ASSUME TreeAssumption, Inv, Preflight
    PROVE  Inv'
  <1>1. /\ UNCHANGED <<output, staged, options, merged, moved, late, lost, others>>
        /\ moved = {} /\ pc = "preflight" /\ next \in Nat \ {0} /\ others \in Nat /\ staged \in Staged
        /\ is_dir(<<>>)
    BY DEF Inv, TypeInv, Order, DirectoriesStay, Preflight, Keep, input
  <1>2. Len(staged) \in Nat /\ DOMAIN staged = 1 .. Len(staged)
    BY <1>1, StagedFacts
  <1>3. \/ pc' = "merge" /\ next' = 1 /\ next > Len(staged) /\ result' = "open"
        \/ pc' = "preflight" /\ next' = next + 1 /\ next \in DOMAIN staged /\ clear /\ result' = "open"
        \/ pc' = "end" /\ next' = next /\ result' = "err"
    BY <1>1, <1>2 DEF Preflight, Fail, Inv, TypeInv
  <1>4. TypeInv' /\ Order'
    BY <1>1, <1>3 DEF Inv, TypeInv, Order, directories, Merging
  <1>5. DirectoriesStay'
    BY <1>1, <1>3 DEF Inv, DirectoriesStay, is_dir, exists, Merging
  <1>6. MovedStays' /\ BehindTheWalk'
    BY <1>1, <1>2, <1>3 DEF MovedStays, BehindTheWalk, Merging
  <1>7. Alone'
    BY <1>1, <1>3 DEF Inv, Alone, dir, at, is_dir, exists, Merging
  <1>8. clear => Clear(next) /\ CameLate(next)
    BY DEF clear, Clear, CameLate, dir, at, entry
  <1>9. /\ others = 0 => \A k \in DOMAIN staged : k < next => Clear(k)
        /\ \A k \in DOMAIN staged : k < next => CameLate(k)
    BY <1>1 DEF Inv, StaysClear, InTheWay
  <1>10. pc' # "end" =>
            /\ others = 0 => \A k \in DOMAIN staged : k < next' \/ pc' = "merge" => Clear(k)
            /\ \A k \in DOMAIN staged : k < next' \/ pc' = "merge" => CameLate(k)
    BY <1>1, <1>2, <1>3, <1>8, <1>9
  <1>11. \A k \in DOMAIN staged : (Clear(k) <=> Clear(k)') /\ (CameLate(k) <=> CameLate(k)')
    BY <1>1 DEF Clear, CameLate, dir, at, is_dir, exists
  <1>12. StaysClear'
    BY <1>1, <1>3, <1>10, <1>11 DEF StaysClear, Merging
  <1>13. InTheWay'
    BY <1>1, <1>3, <1>10, <1>11 DEF InTheWay, Merging
  <1>14. MergeIsExact'
    BY <1>1, <1>3 DEF Inv, MergeIsExact, paths
  <1> QED  BY <1>4, <1>5, <1>6, <1>7, <1>12, <1>13, <1>14 DEF Inv

\* Where the walk has come to: an entry that is passed over, one that is to be moved, the end,
\* or something else than the check had found.
LEMMA MergeCases ==
    ASSUME TreeAssumption, Inv, Merge
    PROVE  /\ UNCHANGED <<staged, options, merged, moved, late, others>>
           /\ \/ /\ pc' = "finalize" /\ next > Len(staged)
                 /\ UNCHANGED <<output, next, result, lost>>
              \/ /\ pc' = "merge" /\ next \in DOMAIN staged /\ Behind(next) /\ next' = next + 1
                 /\ UNCHANGED <<output, result, lost>>
              \/ /\ pc' = "move" /\ next \in DOMAIN staged \ moved /\ dir(next) /\ ~exists(at(next))
                 /\ UNCHANGED <<output, next, result, lost>>
              \/ /\ pc' = "move" /\ next \in DOMAIN staged \ moved /\ ~dir(next)
                 /\ ~(options.overwrite /\ exists(at(next)))
                 /\ UNCHANGED <<output, next, result, lost>>
              \/ /\ pc' = "move" /\ next \in DOMAIN staged \ moved /\ output' # output
                 /\ lost' \subseteq lost \cup {at(next)} /\ UNCHANGED <<next, result>>
              \/ /\ pc' = "end" /\ result' = "err" /\ next \in DOMAIN staged \ moved /\ ~Clear(next)
                 /\ UNCHANGED <<output, next, lost>>
  <1>1. /\ UNCHANGED <<staged, options, merged, moved, late, others>>
        /\ next \in Nat \ {0} /\ staged \in Staged
    BY DEF Inv, TypeInv, Merge, Keep, input
  <1>2. Len(staged) \in Nat /\ DOMAIN staged = 1 .. Len(staged)
    BY <1>1, StagedFacts
  <1>3. output' = output => lost' = lost
    BY DEF Merge
  <1>4. CASE output' = output
    <2>1. \/ next > Len(staged) /\ pc' = "finalize" /\ UNCHANGED <<next, result>>
          \/ next \in DOMAIN staged /\ Behind(next) /\ next' = next + 1 /\ pc' = pc /\ result' = result
          \/ next \in DOMAIN staged \ moved /\ dir(next) /\ ~exists(at(next)) /\ pc' = "move" /\ UNCHANGED <<next, result>>
          \/ next \in DOMAIN staged \ moved /\ ~Clear(next) /\ Fail /\ UNCHANGED next
          \/ next \in DOMAIN staged \ moved /\ ~dir(next) /\ ~(options.overwrite /\ exists(at(next)))
             /\ pc' = "move" /\ UNCHANGED <<next, result>>
          \/ next \in DOMAIN staged \ moved /\ options.overwrite /\ exists(at(next)) /\ ~dir(next) /\ ~is_dir(at(next))
             /\ output' = entered(without(output, at(next)), parent(at(next)))
      <3>1. CASE next > Len(staged)
        BY <3>1 DEF Merge
      <3>2. CASE ~(next > Len(staged)) /\ next \in moved
        <4>1. next' = next + 1 /\ UNCHANGED <<pc, result>>
          BY <3>2 DEF Merge
        <4>2. next \in DOMAIN staged
          BY <1>1, <1>2, <3>2
        <4> QED  BY <3>2, <4>1, <4>2 DEF Behind
      <3>3. CASE ~(next > Len(staged)) /\ next \notin moved /\ dir(next)
        <4>1. next \in DOMAIN staged \ moved
          BY <1>1, <1>2, <3>3
        <4>2. IF ~exists(at(next)) THEN pc' = "move" /\ UNCHANGED <<next, result>>
              ELSE IF is_dir(at(next)) THEN next' = next + 1 /\ UNCHANGED <<pc, result>>
              ELSE Fail /\ UNCHANGED next
          BY <3>3 DEF Merge, dir, at, entry
        <4> QED  BY <3>3, <4>1, <4>2 DEF Behind, Clear
      <3>4. CASE ~(next > Len(staged)) /\ next \notin moved /\ ~dir(next)
        <4>1. next \in DOMAIN staged \ moved
          BY <1>1, <1>2, <3>4
        <4>2. IF options.overwrite /\ exists(at(next))
              THEN IF is_dir(at(next)) THEN Fail /\ UNCHANGED next
                   ELSE output' = entered(without(output, at(next)), parent(at(next)))
              ELSE pc' = "move" /\ UNCHANGED <<next, result>>
          BY <3>4 DEF Merge, dir, at, entry
        <4> QED  BY <3>4, <4>1, <4>2 DEF Clear
      <3> QED  BY <3>1, <3>2, <3>3, <3>4
    <2>2. exists(at(next)) => output' # entered(without(output, at(next)), parent(at(next)))
      <3>1. Tree(output)
        BY DEF Inv, TypeInv
      <3>2. DOMAIN entered(without(output, at(next)), parent(at(next))) = DOMAIN output \ {at(next)}
        BY <3>1, WithoutSame, EnteredSame
      <3> QED  BY <1>4, <3>2 DEF exists
    <2> QED  BY <1>1, <1>3, <1>4, <2>1, <2>2 DEF Fail, Merge
  <1>5. CASE output' # output
    <2>1. next \in DOMAIN staged \ moved /\ pc' = "move" /\ DOMAIN output' = DOMAIN output \ {at(next)}
      BY <1>1, <1>2, <1>5, MergeEffect DEF Inv
    <2>2. UNCHANGED <<next, result>>
      BY <1>5 DEF Merge, Fail
    <2>3. lost' \subseteq lost \cup {at(next)}
      BY <2>1 DEF Merge
    <2> QED  BY <1>1, <1>5, <2>1, <2>2, <2>3
  <1> QED  BY <1>4, <1>5

\* merge_staged_dir keeps the invariant: where nothing is removed.
LEMMA MergeLooksInv ==
    ASSUME TreeAssumption, Inv, Merge, output' = output
    PROVE  Inv'
  <1>1. /\ UNCHANGED <<output, staged, options, merged, moved, late, others, lost>>
        /\ pc = "merge" /\ next \in Nat \ {0} /\ others \in Nat /\ staged \in Staged /\ result = "open"
    BY MergeCases DEF Inv, TypeInv, Merge
  <1>2. Len(staged) \in Nat /\ DOMAIN staged = 1 .. Len(staged)
    BY <1>1, StagedFacts
  <1>3. \/ pc' = "finalize" /\ next > Len(staged) /\ UNCHANGED <<next, result>>
        \/ pc' = "merge" /\ next \in DOMAIN staged /\ Behind(next) /\ next' = next + 1 /\ UNCHANGED result
        \/ /\ pc' = "move" /\ next \in DOMAIN staged \ moved /\ UNCHANGED <<next, result>>
           /\ dir(next) => ~exists(at(next))
        \/ pc' = "end" /\ result' = "err" /\ next \in DOMAIN staged \ moved /\ ~Clear(next) /\ UNCHANGED next
    BY MergeCases
  <1>4. TypeInv' /\ Order'
    <2>1. next' = next \/ next' = next + 1
      BY <1>3
    <2>2. next' \in Nat \ {0}
      BY <1>1, <2>1
    <2>3. pc' \in {"finalize", "merge", "move", "end"} /\ (pc' # "end" => result' = "open")
      BY <1>1, <1>3
    <2>4. TypeInv'
      BY <1>1, <2>2, <2>3 DEF Inv, TypeInv, directories, Merging
    <2>5. Order'
      BY <1>1, <1>3 DEF Order
    <2> QED  BY <2>4, <2>5
  <1>5. DirectoriesStay'
    BY <1>1, <1>3 DEF Inv, DirectoriesStay, is_dir, exists, Merging
  <1>6. MovedStays'
    BY <1>1 DEF Inv, MovedStays, exists, at
  <1>7. BehindTheWalk'
    <2>1. \A k \in DOMAIN staged : Behind(k) <=> Behind(k)'
      BY <1>1 DEF Behind, dir, at, is_dir, exists
    <2>2. \A k \in DOMAIN staged : k < next => Behind(k)
      BY <1>1 DEF Inv, BehindTheWalk, Merging
    <2>3. pc' = "finalize" => \A k \in DOMAIN staged : Behind(k)
      BY <1>1, <1>2, <1>3, <2>2
    <2>4. pc' \in Merging => \A k \in DOMAIN staged : k < next' => Behind(k)
      <3>1. CASE pc' = "merge"
        BY <1>1, <1>2, <1>3, <2>2, <3>1
      <3>2. CASE pc' = "move"
        <4>1. next' = next
          BY <1>3, <3>2
        <4> QED  BY <2>2, <4>1
      <3> QED  BY <3>1, <3>2 DEF Merging
    <2> QED  BY <1>1, <2>1, <2>3, <2>4 DEF BehindTheWalk
  <1>8. Alone'
    BY <1>1, <1>3 DEF Inv, Alone, dir, at, is_dir, exists, Merging
  <1>9. /\ \A k \in DOMAIN staged : (Clear(k) <=> Clear(k)') /\ (CameLate(k) <=> CameLate(k)')
        /\ others = 0 => \A k \in DOMAIN staged \ moved : Clear(k)
        /\ \A k \in DOMAIN staged \ moved : CameLate(k)
    BY <1>1 DEF Inv, StaysClear, InTheWay, Clear, CameLate, dir, at, is_dir, exists, Merging
  <1>10. StaysClear'
    <2>1. pc' = "move" /\ dir(next)' => ~exists(at(next))'
      BY <1>1, <1>3 DEF dir, at, exists
    <2> QED  BY <1>1, <1>3, <1>9, <2>1 DEF StaysClear, Merging
  <1>11. InTheWay'
    BY <1>1, <1>3, <1>9 DEF InTheWay, Merging
  <1>12. MergeIsExact'
    <2>1. result' = "err" => others' > 0
      BY <1>1, <1>3, <1>9
    <2>2. result' # "ok"
      BY <1>1, <1>3
    <2>3. (lost \subseteq late \cup (IF options.overwrite THEN paths ELSE {}))'
      BY <1>1 DEF Inv, MergeIsExact, paths
    <2> QED  BY <2>1, <2>2, <2>3 DEF MergeIsExact, half_merged_for_a_reason
  <1> QED  BY <1>4, <1>5, <1>6, <1>7, <1>8, <1>10, <1>11, <1>12 DEF Inv

\* The same, where a file is removed that is to be overwritten.
LEMMA MergeRemovesInv ==
    ASSUME TreeAssumption, Inv, Merge, output' # output
    PROVE  Inv'
  <1>1. /\ UNCHANGED <<staged, options, merged, moved, late, others, next, result>>
        /\ pc = "merge" /\ pc' = "move" /\ result = "open" /\ next \in DOMAIN staged \ moved
        /\ next \in Nat \ {0} /\ others \in Nat /\ staged \in Staged /\ lost' \subseteq lost \cup {at(next)}
    BY MergeCases DEF Inv, TypeInv, Merge
  <1>2. /\ ~dir(next) /\ options.overwrite /\ exists(at(next)) /\ ~is_dir(at(next))
        /\ Tree(output') /\ DOMAIN output' = DOMAIN output \ {at(next)}
        /\ \A p : p # at(next) => Same(output, output', p)
        /\ \A p \in DOMAIN output' : p # parent(at(next)) => output'[p] = output[p]
    BY MergeEffect DEF Inv
  <1>3. /\ Len(staged) \in Nat /\ DOMAIN staged = 1 .. Len(staged)
        /\ \A k \in DOMAIN staged : at(k) # <<>>
        /\ \A k \in DOMAIN staged : k # next => at(k) # at(next)
    BY <1>1, StagedFacts
  <1>4. /\ \A p : is_dir(p) => is_dir(p)'
        /\ \A k \in DOMAIN staged : is_dir(at(k)) <=> is_dir(at(k))'
        /\ \A k \in DOMAIN staged : k # next => (exists(at(k)) <=> exists(at(k))')
        /\ ~exists(at(next))'
        /\ \A k \in DOMAIN staged : dir(k) <=> dir(k)'
    BY <1>1, <1>2, <1>3 DEF is_dir, exists, Same, at, dir
  <1>5. TypeInv' /\ Order'
    BY <1>1, <1>2 DEF Inv, TypeInv, Order, directories, Merging
  <1>6. DirectoriesStay'
    BY <1>1, <1>4 DEF Inv, DirectoriesStay, Merging
  <1>7. MovedStays'
    <2>1. \A k \in moved : k # next /\ k \in DOMAIN staged
      BY <1>1 DEF Inv, TypeInv
    <2> QED  BY <1>1, <1>2, <1>3, <2>1 DEF Inv, MovedStays, exists, at, Same
  <1>8. BehindTheWalk'
    BY <1>1, <1>4 DEF Inv, BehindTheWalk, Behind, at, Merging
  <1>9. Alone'
    <2>1. ASSUME NEW k \in moved
          PROVE  output'[at(k)] = output[at(k)]
      <3>1. k # next /\ k \in DOMAIN staged /\ exists(at(k)) /\ at(k) # parent(at(next))
        BY <1>1 DEF Inv, TypeInv, MovedStays
      <3> QED  BY <1>2, <1>3, <3>1 DEF exists
    <2> QED  BY <1>1, <1>4, <2>1 DEF Inv, Alone, at, Merging
  <1>10. /\ \A k \in DOMAIN staged : Clear(k) => Clear(k)'
         /\ \A k \in DOMAIN staged : CameLate(k) => CameLate(k)'
    BY <1>1, <1>2, <1>4 DEF Clear, CameLate, at
  <1>11. StaysClear'
    BY <1>1, <1>2, <1>4, <1>10 DEF Inv, StaysClear, Merging
  <1>12. InTheWay'
    BY <1>1, <1>10 DEF Inv, InTheWay, Merging
  <1>13. MergeIsExact'
    <2>1. at(next) \in paths
      BY <1>1 DEF at, paths
    <2> QED  BY <1>1, <1>2, <2>1 DEF Inv, MergeIsExact, paths
  <1> QED  BY <1>5, <1>6, <1>7, <1>8, <1>9, <1>11, <1>12, <1>13 DEF Inv

\* What has been moved has its place, and a directory its descendants with it.
LEMMA ParentMoved ==
    ASSUME TreeAssumption, Inv, next \in DOMAIN staged,
           NEW j \in moved \cup subtree(entry), NEW k \in DOMAIN staged, at(j) = parent(at(k))
    PROVE  k \in moved \cup subtree(entry)
  <1>1. CASE j \in moved
    BY <1>1 DEF Inv, MovedStays
  <1>2. CASE j \in subtree(entry)
    <2>1. j \in DOMAIN staged /\ (at(j) = at(next) \/ below(at(next), at(j)))
      BY <1>2 DEF subtree, at, entry
    <2>2. at(k) \in Seq(Nat) /\ at(k) # <<>> /\ at(next) \in Seq(Nat)
      BY StagedFacts DEF Inv, TypeInv
    <2>3. below(at(next), at(k))
      BY <2>1, <2>2, BelowParent
    <2> QED  BY <2>3 DEF subtree, at, entry
  <1> QED  BY <1>1, <1>2

\* The rename of an entry keeps the invariant.
LEMMA MoveSucceedsInv ==
    ASSUME TreeAssumption, Inv, Move, renames(entry)
    PROVE  Inv'
  <1>1. /\ next \in DOMAIN staged \ moved /\ next \in Nat \ {0} /\ others \in Nat /\ staged \in Staged
        /\ pc = "move" /\ result = "open" /\ moved \subseteq DOMAIN staged
    BY DEF Inv, TypeInv, Order, Move
  <1> DEFINE new == subtree(entry)
  <1>2. /\ moved' = moved \cup new /\ next \in new /\ new \subseteq DOMAIN staged
        /\ next' = next + 1 /\ pc' = "merge"
        /\ UNCHANGED <<staged, options, before, others, merged, late, result>>
        /\ Tree(output')
        /\ \A k \in new : at(k) \in DOMAIN output' /\ output'[at(k)] = ours(staged[k])
        /\ \A p : (\A k \in new : p # at(k)) =>
              /\ Same(output, output', p)
              /\ p \in DOMAIN output /\ p # parent(at(next)) => output'[p] = output[p]
    BY <1>1, MoveEffect DEF Inv, input
  <1>3. \A j \in moved', k \in DOMAIN staged : at(j) = parent(at(k)) => k \in moved'
    BY <1>1, <1>2, ParentMoved
  <1> HIDE DEF new
  <1>4. /\ Len(staged) \in Nat /\ DOMAIN staged = 1 .. Len(staged)
        /\ \A k \in DOMAIN staged : at(k) # <<>>
        /\ \A j, k \in DOMAIN staged : at(j) = at(k) => j = k
    BY <1>1, StagedFacts
  <1>5. \A k \in new : /\ at(k) \in DOMAIN output' /\ output'[at(k)].kind = staged[k].kind
                       /\ output'[at(k)].of = "ours" /\ output'[at(k)].final
    BY <1>2, OursIsNode
  <1>6. \A k \in DOMAIN staged \ new : Same(output, output', at(k))
    BY <1>2, <1>4
  <1>7. \A p : (\A k \in new : p # at(k)) /\ is_dir(p) => is_dir(p)'
    BY <1>2 DEF is_dir, exists, Same
  <1>8. \A k \in DOMAIN staged : dir(k) /\ is_dir(at(k)) => is_dir(at(k))'
    BY <1>2, <1>5, <1>6 DEF dir, is_dir, exists, Same, at
  <1>9. TypeInv' /\ Order'
    <2>1. next' = next + 1 /\ moved' \subseteq DOMAIN staged
      BY <1>1, <1>2, Zenon
    <2>2. TypeInv'
      <3>1. next' \in Nat \ {0}
        BY <1>1, <2>1
      <3> QED  BY <1>1, <1>2, <2>1, <3>1 DEF Inv, TypeInv, directories, Merging
    <2>3. Order'
      BY <1>2 DEF Order
    <2> QED  BY <2>2, <2>3
  <1>10. DirectoriesStay'
    <2>1. \A p \in merged : \E k \in DOMAIN staged : dir(k) /\ p = at(k)
      BY DEF Inv, TypeInv, directories, dir, at
    <2>2. \A p \in merged : is_dir(p)'
      BY <1>2, <1>8, <2>1 DEF Inv, DirectoriesStay, is_dir, exists, at
    <2>3. is_dir(<<>>)'
      BY <1>1, <1>2, <1>4, <1>7 DEF Inv, DirectoriesStay, Merging
    <2> QED  BY <1>2, <2>2, <2>3 DEF DirectoriesStay
  <1>11. MovedStays'
    <2>1. ASSUME NEW k \in moved'
          PROVE  at(k) \in DOMAIN output' /\ output'[at(k)].kind = staged[k].kind /\ output'[at(k)].of = "ours"
      <3>1. CASE k \in new
        BY <1>5, <3>1
      <3>2. CASE k \in moved \ new
        BY <1>1, <1>6, <3>2 DEF Inv, MovedStays, exists, Same
      <3> QED  BY <1>2, <3>1, <3>2
    <2> QED  BY <1>2, <1>3, <2>1 DEF MovedStays, exists, at
  <1>12. BehindTheWalk'
    <2>1. \A k \in DOMAIN staged : k < next => Behind(k)
      BY <1>1 DEF Inv, BehindTheWalk, Merging
    <2>2. \A k \in DOMAIN staged : Behind(k) => Behind(k)'
      BY <1>2, <1>8 DEF Behind, dir, at
    <2>3. \A k \in DOMAIN staged : k < next + 1 => k < next \/ k \in moved'
      BY <1>1, <1>2, <1>4
    <2>4. \A k \in DOMAIN staged : k < next' => Behind(k)'
      BY <1>2, <2>1, <2>2, <2>3 DEF Behind
    <2> QED  BY <1>2, <2>4 DEF BehindTheWalk, Merging
  <1>13. Alone'
    <2>1. SUFFICES ASSUME others = 0
                   PROVE  /\ \A k \in moved' : output'[at(k)].final
                          /\ \A k \in DOMAIN staged \ moved' : dir(k) /\ is_dir(at(k))' => at(k) \in merged
      BY <1>2 DEF Alone, dir, at
    <2>2. ASSUME NEW k \in moved'
          PROVE  output'[at(k)].final
      <3>1. CASE k \in new
        BY <1>5, <3>1
      <3>2. CASE k \in moved \ new
        <4>1. at(k) # parent(at(next)) /\ exists(at(k)) /\ output[at(k)].final
          BY <1>1, <2>1, <3>2 DEF Inv, MovedStays, Alone
        <4>2. \A j \in new : at(k) # at(j)
          BY <1>1, <1>2, <1>4, <3>2
        <4> QED  BY <1>2, <4>1, <4>2 DEF exists
      <3> QED  BY <1>2, <3>1, <3>2
    <2>3. ASSUME NEW k \in DOMAIN staged \ moved', dir(k), is_dir(at(k))'
          PROVE  at(k) \in merged
      <3>1. is_dir(at(k)) /\ k \notin moved
        BY <1>2, <1>6, <2>3 DEF is_dir, exists, Same, at
      <3> QED  BY <1>1, <2>1, <2>3, <3>1 DEF Inv, Alone, Merging
    <2> QED  BY <2>2, <2>3
  <1>14. \A k \in DOMAIN staged \ moved' : (Clear(k) => Clear(k)') /\ (CameLate(k) => CameLate(k)')
    BY <1>2, <1>6 DEF Clear, CameLate, dir, is_dir, exists, Same, at
  <1>15. StaysClear'
    BY <1>1, <1>2, <1>14 DEF Inv, StaysClear, Merging
  <1>16. InTheWay'
    BY <1>1, <1>2, <1>14 DEF Inv, InTheWay, Merging
  <1>17. MergeIsExact'
    <2>1. \/ lost' = lost
          \/ lost' = lost \cup {at(next)} /\ exists(at(next)) /\ output[at(next)].kind # "dir"
      BY DEF Move, at, entry
    <2>2. exists(at(next)) /\ output[at(next)].kind # "dir" => ~dir(next)
      BY DEF renames, is_dir, dir, at, entry
    <2>3. CameLate(next)
      BY <1>1 DEF Inv, InTheWay, Merging
    <2>4. at(next) \in paths
      BY <1>1 DEF at, paths
    <2>5. lost' \subseteq late \cup (IF options.overwrite THEN paths ELSE {})
      BY <2>1, <2>2, <2>3, <2>4 DEF Inv, MergeIsExact, CameLate
    <2>6. paths' = paths
      BY <1>2 DEF paths
    <2> QED  BY <1>1, <1>2, <2>5, <2>6 DEF MergeIsExact
  <1> QED  BY <1>9, <1>10, <1>11, <1>12, <1>13, <1>15, <1>16, <1>17 DEF Inv

\* A rename only fails with a read-only directory in the tree, or another process at work.
LEMMA MoveFailsInv ==
    ASSUME TreeAssumption, Inv, Move, ~renames(entry)
    PROVE  Inv'
  <1>1. /\ UNCHANGED <<output, staged, options, merged, moved, late, lost, others, next>>
        /\ pc = "move" /\ pc' = "end" /\ result' = "err"
        /\ next \in DOMAIN staged \ moved /\ others \in Nat /\ staged \in Staged
    BY DEF Inv, TypeInv, Order, Move, Fail, Keep, input
  <1>2. TypeInv' /\ Order' /\ DirectoriesStay'
    BY <1>1 DEF Inv, TypeInv, Order, DirectoriesStay, directories, is_dir, exists, Merging
  <1>3. MovedStays'
    BY <1>1 DEF Inv, MovedStays, exists, at
  <1>4. BehindTheWalk' /\ StaysClear' /\ InTheWay'
    BY <1>1 DEF BehindTheWalk, StaysClear, InTheWay, Merging
  <1>5. Alone'
    BY <1>1 DEF Inv, Alone, at, Merging
  <1>6. half_merged_for_a_reason
    <2>1. SUFFICES ASSUME others = 0, \A k \in DOMAIN staged : ~refuses(staged[k])
                   PROVE  FALSE
      BY <1>1 DEF half_merged_for_a_reason
    <2>2. is_dir(parent(at(next)))
      <3>1. CASE parent(at(next)) = <<>>
        BY <1>1, <3>1 DEF Inv, DirectoriesStay, Merging
      <3>2. CASE parent(at(next)) # <<>>
        <4>1. PICK j \in DOMAIN staged : at(j) = parent(at(next)) /\ j < next
          BY <1>1, <3>2, StagedFacts
        <4>2. j \notin moved
          BY <1>1, <4>1 DEF Inv, MovedStays
        <4>3. Behind(j)
          BY <1>1, <4>1 DEF Inv, BehindTheWalk, Merging
        <4> QED  BY <4>1, <4>2, <4>3 DEF Behind
      <3> QED  BY <3>1, <3>2
    <2>3. Clear(next) /\ (dir(next) => ~exists(at(next)))
      BY <1>1, <2>1 DEF Inv, StaysClear, Merging
    <2>4. renames(entry)
      BY <1>1, <2>1, <2>2, <2>3 DEF renames, Clear, dir, at, entry
    <2> QED  BY <2>4
  <1>7. MergeIsExact'
    BY <1>1, <1>6 DEF Inv, MergeIsExact, paths, half_merged_for_a_reason, refuses
  <1> QED  BY <1>2, <1>3, <1>4, <1>5, <1>7 DEF Inv

\* The directories that were there get their metadata: they are all still there.
LEMMA FinalizeInv ==
    ASSUME TreeAssumption, Inv, Finalize
    PROVE  Inv'
  <1>1. /\ UNCHANGED <<staged, options, merged, moved, late, lost, others, next>>
        /\ pc = "finalize" /\ others \in Nat /\ staged \in Staged
    BY DEF Inv, TypeInv, Finalize, Keep, input
  <1>2. pc' = "end" /\ result' = "ok"
    BY DEF Inv, DirectoriesStay, Finalize
  <1>3. /\ Tree(output') /\ \A p : Same(output, output', p)
        /\ \A p \in DOMAIN output : p \in merged /\ ~options.content => output'[p].final
        /\ \A p \in DOMAIN output : output[p].final => output'[p].final
    BY <1>2, FinalizeEffect DEF Inv
  <1>4. TypeInv' /\ Order'
    BY <1>1, <1>2, <1>3 DEF Inv, TypeInv, Order, directories, Merging
  <1>5. DirectoriesStay'
    BY <1>1, <1>2, <1>3 DEF Inv, DirectoriesStay, is_dir, exists, Same, Merging
  <1>6. MovedStays'
    BY <1>1, <1>3 DEF Inv, MovedStays, exists, at, Same
  <1>7. BehindTheWalk' /\ StaysClear' /\ InTheWay'
    BY <1>2 DEF BehindTheWalk, StaysClear, InTheWay, Merging
  <1>8. Alone'
    BY <1>1, <1>2, <1>3 DEF Inv, Alone, MovedStays, exists, at, Merging
  <1>9. ASSUME NEW k \in DOMAIN staged
        PROVE  /\ at(k) \in DOMAIN output' /\ output'[at(k)].kind = staged[k].kind
               /\ dir(k) \/ output'[at(k)].of = "ours"
               /\ output'[at(k)].final \/ options.content \/ others > 0
    <2>1. k \in moved \/ (dir(k) /\ is_dir(at(k)))
      BY <1>1 DEF Inv, BehindTheWalk, Behind
    <2>2. CASE k \in moved
      <3>1. exists(at(k)) /\ output[at(k)].kind = staged[k].kind /\ output[at(k)].of = "ours"
        BY <2>2 DEF Inv, MovedStays
      <3>2. others = 0 => output[at(k)].final
        BY <2>2 DEF Inv, Alone
      <3> QED  BY <1>1, <1>3, <3>1, <3>2 DEF exists, Same
    <2>3. CASE k \notin moved /\ dir(k) /\ is_dir(at(k))
      <3>1. others = 0 => at(k) \in merged
        BY <1>1, <2>3 DEF Inv, Alone
      <3> QED  BY <1>1, <1>3, <2>3, <3>1 DEF is_dir, exists, Same, dir
    <2> QED  BY <2>1, <2>2, <2>3
  <1>10. MergeIsExact'
    <2>1. (lost \subseteq late \cup (IF options.overwrite THEN paths ELSE {}))'
      BY <1>1 DEF Inv, MergeIsExact, paths
    <2> QED  BY <1>1, <1>2, <1>9, <2>1 DEF MergeIsExact, exists, dir, at
  <1> QED  BY <1>4, <1>5, <1>6, <1>7, <1>8, <1>10 DEF Inv

\* What another process makes where a name was checked has come late.
LEMMA OtherMakesInv ==
    ASSUME TreeAssumption, Inv, NEW p, NEW kind, OtherMakes(p, kind)
    PROVE  Inv'
  <1>1. /\ Tree(output') /\ DOMAIN output' = DOMAIN output \cup {p} /\ p \notin DOMAIN output
        /\ \A q : q # p => Same(output, output', q)
        /\ others' \in Nat \ {0} /\ pc # "end"
        /\ late' = IF checked(p) THEN late \cup {p} ELSE late
        /\ UNCHANGED <<staged, options, before, merged, pc, next, moved, lost, result>>
    BY MakesEffect DEF Inv, input
  <1>2. result = "open" /\ moved \subseteq DOMAIN staged
    BY <1>1 DEF Inv, TypeInv
  <1>3. Len(staged) \in Nat /\ DOMAIN staged = 1 .. Len(staged) /\ next \in Nat
    BY StagedFacts DEF Inv, TypeInv
  <1>4. \A q : is_dir(q) => is_dir(q)'
    BY <1>1 DEF is_dir, exists, Same
  <1>5. TypeInv' /\ Order'
    BY <1>1 DEF Inv, TypeInv, Order, directories, Merging
  <1>6. DirectoriesStay'
    BY <1>1, <1>4 DEF Inv, DirectoriesStay, Merging
  <1>7. MovedStays'
    BY <1>1 DEF Inv, MovedStays, exists, at, Same
  <1>8. BehindTheWalk'
    <2>1. \A k \in DOMAIN staged : Behind(k) => Behind(k)'
      BY <1>1, <1>4 DEF Behind, dir, at, is_dir, exists, Same
    <2> QED  BY <1>1, <2>1 DEF Inv, BehindTheWalk, Merging
  <1>9. Alone' /\ StaysClear'
    BY <1>1 DEF Alone, StaysClear
  <1>10. InTheWay'
    <2>1. ASSUME NEW k \in DOMAIN staged, CameLate(k),
                 pc \in Merging \/ (pc = "preflight" /\ k < next)
          PROVE  CameLate(k)'
      <3>1. CASE at(k) = p
        <4>1. checked(p)
          BY <1>3, <2>1, <3>1 DEF checked, at, Merging
        <4> QED  BY <1>1, <3>1, <4>1 DEF CameLate, dir, at
      <3>2. CASE at(k) # p
        BY <1>1, <2>1, <3>2 DEF CameLate, dir, at, exists, Same
      <3> QED  BY <3>1, <3>2
    <2> QED  BY <1>1, <2>1 DEF Inv, InTheWay, Merging
  <1>11. MergeIsExact'
    BY <1>1, <1>2 DEF Inv, MergeIsExact, paths
  <1> QED  BY <1>5, <1>6, <1>7, <1>8, <1>9, <1>10, <1>11 DEF Inv

\* Another process removes no directory, and nothing that was moved.
LEMMA OtherRemovesInv ==
    ASSUME TreeAssumption, Inv, NEW p, OtherRemoves(p)
    PROVE  Inv'
  <1>1. /\ Tree(output') /\ DOMAIN output' = DOMAIN output \ {p} /\ p \in DOMAIN output
        /\ output[p].of = "theirs" /\ output[p].kind = "file"
        /\ \A q : q # p => Same(output, output', q)
        /\ others' \in Nat \ {0} /\ pc # "end"
        /\ UNCHANGED <<staged, options, before, merged, pc, next, moved, late, lost, result>>
    BY RemovesEffect DEF Inv, input
  <1>2. result = "open" /\ moved \subseteq DOMAIN staged
    BY <1>1 DEF Inv, TypeInv
  <1>3. \A q : is_dir(q) => is_dir(q)'
    BY <1>1 DEF is_dir, exists, Same
  <1>4. TypeInv' /\ Order'
    BY <1>1 DEF Inv, TypeInv, Order, directories, Merging
  <1>5. DirectoriesStay'
    BY <1>1, <1>3 DEF Inv, DirectoriesStay, Merging
  <1>6. MovedStays'
    <2>1. \A k \in moved : at(k) # p
      BY <1>1 DEF Inv, MovedStays
    <2> QED  BY <1>1, <2>1 DEF Inv, MovedStays, exists, at, Same
  <1>7. BehindTheWalk'
    <2>1. \A k \in DOMAIN staged : Behind(k) => Behind(k)'
      BY <1>1, <1>3 DEF Behind, dir, at, is_dir, exists, Same
    <2> QED  BY <1>1, <2>1 DEF Inv, BehindTheWalk, Merging
  <1>8. Alone' /\ StaysClear'
    BY <1>1 DEF Alone, StaysClear
  <1>9. InTheWay'
    <2>1. \A k \in DOMAIN staged : CameLate(k) => CameLate(k)'
      BY <1>1 DEF CameLate, dir, at, exists, Same
    <2> QED  BY <1>1, <2>1 DEF Inv, InTheWay, Merging
  <1>10. MergeIsExact'
    BY <1>1, <1>2 DEF Inv, MergeIsExact, paths
  <1> QED  BY <1>4, <1>5, <1>6, <1>7, <1>8, <1>9, <1>10 DEF Inv

\* A step that changes nothing keeps everything.
LEMMA StutterInv ==
    ASSUME Inv, UNCHANGED vars
    PROVE  Inv'
  <1>1. UNCHANGED <<options, staged, before, output, merged, pc, next, moved, late, lost, others, result>>
    BY DEF vars, input
  <1>2. TypeInv' /\ Order' /\ DirectoriesStay' /\ MovedStays' /\ BehindTheWalk'
    BY <1>1 DEF Inv, TypeInv, Order, DirectoriesStay, MovedStays, BehindTheWalk, Behind, directories, is_dir,
                exists, dir, at
  <1>3. Alone' /\ StaysClear' /\ InTheWay'
    BY <1>1 DEF Inv, Alone, StaysClear, InTheWay, Clear, CameLate, is_dir, exists, dir, at
  <1>4. MergeIsExact'
    BY <1>1 DEF Inv, MergeIsExact, paths, exists, half_merged_for_a_reason, refuses
  <1> QED  BY <1>2, <1>3, <1>4 DEF Inv

-----------------------------------------------------------------------------
(***************************************************************************)
(* Theorems                                                                *)
(***************************************************************************)

\* The invariant of a merge (StagedExtraction::commit), for any staged tree, any output, any
\* options and any number of steps of other processes: directories stay, what was moved stays
\* with all below it, and with nobody else at work what was checked stays true.
THEOREM MergeInvariant ==
    ASSUME TreeAssumption
    PROVE  Spec => []Inv
  <1>1. Init => Inv
    BY InitInv
  <1>2. Inv /\ [Next]_vars => Inv'
    BY LookInv, RootInv, PreflightInv, MergeLooksInv, MergeRemovesInv, MoveSucceedsInv, MoveFailsInv,
       FinalizeInv, OtherMakesInv, OtherRemovesInv, StutterInv DEF Next
  <1> QED  BY <1>1, <1>2, PTL DEF Spec

\* An extraction from a pipe that succeeds has put every entry in place with its metadata, one
\* that fails half-way has a reason outside, and no file of others is lost that was neither to
\* be overwritten nor appeared after its name had been checked (StagedExtraction::commit,
\* preflight_staged_merge, merge_staged_dir).
THEOREM MergeAlwaysExact ==
    ASSUME TreeAssumption
    PROVE  Spec => []MergeIsExact
  <1>1. Inv => MergeIsExact
    BY DEF Inv
  <1> QED  BY <1>1, MergeInvariant, PTL
=============================================================================
