----------------------------- MODULE StagedMerge -----------------------------
(***************************************************************************)
(* Extraction from a pipe.  The archive can only be judged at its end, so  *)
(* its members are restored into a temporary directory beside the output   *)
(* (Restore models that), and moved into place afterwards: as one rename   *)
(* when there is no output directory yet, else entry by entry after all    *)
(* names have been checked.  Other processes use the output directory at   *)
(* the same time.                                                          *)
(*                                                                         *)
(* The staged directories already have their archived modes: one without   *)
(* write permission lets an ordinary user neither move it to another       *)
(* directory nor move its entries out of it.                               *)
(***************************************************************************)
EXTENDS Integers, Sequences, FiniteSets

CONSTANTS
    Staged,         \* trees: entries [path, kind, closed] in the order read_dir_sorted visits them
    Outputs,        \* what is at the output: path -> kind, <<>> being the output itself
    Options,        \* [overwrite, content, privileged]
    Names,          \* the paths other processes use
    MaxOthers       \* bound: steps of other processes

VARIABLES
    options, staged, before,
    output,         \* path -> [kind, of, final]: of is "ours" or "theirs"
    merged,         \* existing_output_directory_paths
    pc,             \* "stream", "snapshot", "inspect", "root", "preflight", "merge", "move", "finalize", "end"
    next,           \* the entry to be checked or merged
    moved,          \* entries no longer staged
    late,           \* paths made by others after their names were checked
    lost,           \* files of others that the extraction has replaced
    others, result

input == <<options, staged, before>>
vars == <<input, output, merged, pc, next, moved, late, lost, others, result>>

-----------------------------------------------------------------------------
theirs(kind) == [kind |-> kind, of |-> "theirs", final |-> FALSE]
ours(e) == [kind |-> e.kind, of |-> "ours", final |-> TRUE]

parent(p) == SubSeq(p, 1, Len(p) - 1)
below(p, q) == Len(q) > Len(p) /\ SubSeq(q, 1, Len(p)) = p
exists(p) == p \in DOMAIN output
is_dir(p) == exists(p) /\ output[p].kind = "dir"
children(p) == {q \in DOMAIN output : below(p, q)}

\* A staged tree, its names numbered: a directory comes before what is below it, nothing
\* comes twice, and what an entry is in is the root or an entry too.
TreeAssumption ==
    \A s \in Staged :
        /\ s \in Seq([path : Seq(Nat) \ {<<>>}, kind : STRING, closed : BOOLEAN])
        /\ \A j, k \in DOMAIN s : s[j].path = s[k].path => j = k
        /\ \A j, k \in DOMAIN s : below(s[j].path, s[k].path) => j < k /\ s[j].kind = "dir"
        /\ \A k \in DOMAIN s :
              parent(s[k].path) = <<>> \/ \E j \in DOMAIN s : s[j].path = parent(s[k].path)

entry == staged[next]
paths == {staged[k].path : k \in DOMAIN staged}
directories == {staged[k].path : k \in {k \in DOMAIN staged : staged[k].kind = "dir"}}
subtree(e) == {k \in DOMAIN staged : staged[k].path = e.path \/ below(e.path, staged[k].path)}

with(t, p, n) == [q \in DOMAIN t \cup {p} |-> IF q = p THEN n ELSE t[q]]
without(t, p) == [q \in DOMAIN t \ {p} |-> t[q]]

\* The directory p has a new entry: its modification time is no longer the archived one.
entered(t, p) == IF p \in DOMAIN t THEN [t EXCEPT ![p].final = FALSE] ELSE t

\* A staged directory that does not let an ordinary user change it.
refuses(e) == e.kind = "dir" /\ e.closed /\ ~options.content /\ ~options.privileged

Init ==
    /\ options \in Options /\ staged \in Staged /\ before \in Outputs
    /\ output = [p \in DOMAIN before |-> theirs(before[p])]
    /\ merged = {} /\ pc = "stream" /\ next = 1 /\ moved = {} /\ late = {} /\ lost = {} /\ others = 0
    /\ result = "open"

Fail == pc' = "end" /\ result' = "err"
Keep(v) == UNCHANGED <<input, others, v>>

-----------------------------------------------------------------------------
\* run_non_seekable_stream: an archive that fails takes its staged tree with it.
Stream ==
    /\ pc = "stream"
    /\ (pc' = "snapshot" /\ UNCHANGED result) \/ Fail
    /\ Keep(<<output, merged, next, moved, late, lost>>)

\* existing_output_directory_paths: the directories that will get their metadata again.
Snapshot ==
    /\ pc = "snapshot" /\ pc' = "inspect"
    /\ merged' = {p \in directories : is_dir(p)}
    /\ Keep(<<output, next, moved, late, lost, result>>)

\* StagedExtraction::commit: what is at the output?
Inspect ==
    /\ pc = "inspect"
    /\ IF ~exists(<<>>) THEN pc' = "root" /\ UNCHANGED result
       ELSE IF is_dir(<<>>) THEN pc' = "preflight" /\ UNCHANGED result
       ELSE Fail
    /\ Keep(<<output, merged, next, moved, late, lost>>)

\* The staged root becomes the output; a directory made since is replaced if it is empty.
RenameRoot ==
    /\ pc = "root"
    /\ IF exists(<<>>) /\ (~is_dir(<<>>) \/ children(<<>>) # {})
       THEN Fail /\ UNCHANGED <<output, moved>>
       ELSE /\ output' = [p \in paths \cup {<<>>} |->
                            IF p = <<>> THEN theirs("dir")
                            ELSE ours(staged[CHOOSE k \in DOMAIN staged : staged[k].path = p])]
            /\ moved' = DOMAIN staged /\ pc' = "finalize" /\ UNCHANGED result
    /\ Keep(<<merged, next, late, lost>>)

\* Mutant: an existing file is no obstacle.
clear_of_directories == ~exists(entry.path) \/ (output[entry.path].kind # "symlink" /\ (entry.kind = "dir" <=> is_dir(entry.path)))

\* preflight_staged_entry, with the parents of the name.
clear ==
    /\ \A k \in 1 .. Len(entry.path) - 1 :
          exists(SubSeq(entry.path, 1, k)) => is_dir(SubSeq(entry.path, 1, k))
    /\ exists(entry.path) =>
          /\ output[entry.path].kind # "symlink"
          /\ IF entry.kind = "dir" THEN is_dir(entry.path)
             ELSE ~is_dir(entry.path) /\ options.overwrite

\* preflight_staged_merge, one entry.
Preflight ==
    /\ pc = "preflight"
    /\ IF next > Len(staged) THEN pc' = "merge" /\ next' = 1 /\ UNCHANGED result
       ELSE IF clear THEN next' = next + 1 /\ UNCHANGED <<pc, result>>
       ELSE Fail /\ UNCHANGED next
    /\ Keep(<<output, merged, moved, late, lost>>)

\* merge_staged_dir, one entry: what is there now.  A file to be overwritten goes.
Merge ==
    /\ pc = "merge"
    /\ IF next > Len(staged) THEN pc' = "finalize" /\ UNCHANGED <<output, next, result>>
       ELSE IF next \in moved THEN next' = next + 1 /\ UNCHANGED <<pc, output, result>>
       ELSE IF entry.kind = "dir"
       THEN IF ~exists(entry.path) THEN pc' = "move" /\ UNCHANGED <<output, next, result>>
            ELSE IF is_dir(entry.path) THEN next' = next + 1 /\ UNCHANGED <<pc, output, result>>
            ELSE Fail /\ UNCHANGED <<output, next>>
       ELSE IF options.overwrite /\ exists(entry.path)
       THEN IF is_dir(entry.path) THEN Fail /\ UNCHANGED <<output, next>>
            ELSE /\ output' = entered(without(output, entry.path), parent(entry.path))
                 /\ pc' = "move" /\ UNCHANGED <<next, result>>
       ELSE pc' = "move" /\ UNCHANGED <<output, next, result>>
    /\ lost' = lost \cup {p \in DOMAIN output \ DOMAIN output' : output[p].of = "theirs"}
    /\ Keep(<<merged, moved, late>>)

\* What the rename of an entry needs: a directory to move it to, permission to move it,
\* and nothing in the way that a rename does not replace.
renames(e) ==
    /\ is_dir(parent(e.path)) /\ ~refuses(e)
    /\ \A k \in DOMAIN staged : staged[k].path = parent(e.path) => ~refuses(staged[k])
    /\ exists(e.path) => IF e.kind = "dir" THEN is_dir(e.path) /\ children(e.path) = {}
                         ELSE ~is_dir(e.path)

Move ==
    /\ pc = "move"
    /\ IF renames(entry)
       THEN /\ output' = [p \in DOMAIN output \cup {staged[k].path : k \in subtree(entry)} |->
                            IF \E k \in subtree(entry) : staged[k].path = p
                            THEN ours(staged[CHOOSE k \in subtree(entry) : staged[k].path = p])
                            ELSE entered(output, parent(entry.path))[p]]
            /\ lost' = IF exists(entry.path) /\ output[entry.path].kind # "dir" THEN lost \cup {entry.path} ELSE lost
            /\ moved' = moved \cup subtree(entry) /\ next' = next + 1 /\ pc' = "merge" /\ UNCHANGED result
       ELSE Fail /\ UNCHANGED <<output, moved, next, lost>>
    /\ Keep(<<merged, late>>)

\* finalize_committed_directory_metadata: the directories that were there before.
Finalize ==
    /\ pc = "finalize"
    /\ IF options.content \/ \A p \in merged : is_dir(p)
       THEN /\ output' = [p \in DOMAIN output |->
                            IF p \in merged /\ ~options.content THEN [output[p] EXCEPT !.final = TRUE] ELSE output[p]]
            /\ pc' = "end" /\ result' = "ok"
       ELSE Fail /\ UNCHANGED output
    /\ Keep(<<merged, next, moved, late, lost>>)

-----------------------------------------------------------------------------
checked(p) == pc \in {"merge", "move"} \/ (pc = "preflight" /\ \E k \in 1 .. next - 1 : staged[k].path = p)
              \/ pc \in {"root", "finalize"}

\* Another process makes something where nothing is, or removes a file of its own.
OtherMakes(p, kind) ==
    /\ pc # "end" /\ others < MaxOthers /\ others' = others + 1
    /\ ~exists(p) /\ (IF p = <<>> THEN kind = "dir" ELSE is_dir(parent(p)))
    /\ output' = with(IF p = <<>> THEN output ELSE entered(output, parent(p)), p, theirs(kind))
    /\ late' = IF checked(p) THEN late \cup {p} ELSE late
    /\ UNCHANGED <<input, merged, pc, next, moved, lost, result>>

OtherRemoves(p) ==
    /\ pc # "end" /\ others < MaxOthers /\ others' = others + 1
    /\ exists(p) /\ output[p].of = "theirs" /\ output[p].kind = "file"
    /\ output' = entered(without(output, p), parent(p))
    /\ UNCHANGED <<input, merged, pc, next, moved, late, lost, result>>

Next ==
    \/ Stream \/ Snapshot \/ Inspect \/ RenameRoot \/ Preflight \/ Merge \/ Move \/ Finalize
    \/ \E p \in Names : OtherRemoves(p) \/ \E kind \in {"dir", "file"} : OtherMakes(p, kind)

Spec == Init /\ [][Next]_vars

-----------------------------------------------------------------------------
(***************************************************************************)
(* Properties                                                              *)
(***************************************************************************)

\* The two reasons for a tree that is merged in part: a directory of the archive without
\* write permission, and another process in the same directory.
half_merged_for_a_reason ==
    \/ others > 0
    \/ \E k \in DOMAIN staged : refuses(staged[k])

\* An extraction from a pipe that succeeds has put every entry in place, with its archived
\* metadata unless another process was at work.  One that fails has put none in place,
\* unless there was a read-only directory to be moved or another process.  A file of
\* another process is lost only if it was to be overwritten or appeared after its name
\* had been checked.
MergeIsExact ==
    /\ result = "ok" => \A k \in DOMAIN staged :
          LET p == staged[k].path
          IN  /\ exists(p) /\ output[p].kind = staged[k].kind
              /\ staged[k].kind = "dir" \/ output[p].of = "ours"
              /\ output[p].final \/ options.content \/ others > 0
    /\ result = "err" /\ moved # {} => half_merged_for_a_reason
    /\ lost \subseteq late \cup (IF options.overwrite THEN paths ELSE {})
=============================================================================
