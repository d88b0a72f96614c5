------------------------------- MODULE Restore -------------------------------
(***************************************************************************)
(* Restoring the members of an archive into a directory (tar_model/restore *)
(* and the extraction of reader/mod.rs) on Linux.                          *)
(*                                                                         *)
(* There are two ways.  From the index, the members selected are planned   *)
(* as one graph and restored in four phases, files and links by several    *)
(* workers at once.  From the stream, every member is restored as it comes *)
(* and hardlinks and directory metadata are deferred to the end.           *)
(*                                                                         *)
(* A path is a sequence of numbers, a smaller number an earlier name.  A   *)
(* node of the tree says whose it is (a member's index, 0 for what was     *)
(* there or was made on the way), whether it has its archived metadata     *)
(* (`final`: a new entry in a directory changes its mtime), and whether it *)
(* may be written.                                                         *)
(***************************************************************************)
EXTENDS Integers, Sequences, FiniteSets, SequencesExt

CONSTANTS
    Archives,       \* sequences of members [path, kind, target, writable, no_change]
    Roots,          \* what the destination holds: path -> kind
    Options,        \* [deferred, jobs, overwrite, policy, sync, select]
    MaxFaults       \* bound: operations that fail

Workers == 1 .. 2

VARIABLES
    members, before, options, faults,
    tree,           \* path -> [kind, of, final, writable, no_change]
    temps,          \* temporary files: [dir, of]
    unsynced,       \* directories with entries not yet on disk
    phase, chunk,   \* worker -> members still to be restored
    pc, depth,      \* worker -> step, and components of the path walked
    causes,         \* what failed; the shared latch is causes # {}
    deferred,       \* [hardlinks, directories]: members left for the end
    result

input == <<members, before, options>>
vars == <<input, faults, tree, temps, unsynced, phase, chunk, pc, depth, causes, deferred, result>>

-----------------------------------------------------------------------------
node(kind, of) == [kind |-> kind, of |-> of, final |-> FALSE, writable |-> TRUE, no_change |-> FALSE]

parent(p) == SubSeq(p, 1, Len(p) - 1)
ancestors(p) == {SubSeq(p, 1, k) : k \in 1 .. Len(p) - 1}

\* The order of two paths as byte strings.
precedes(p, q) ==
    \/ Len(p) < Len(q) /\ SubSeq(q, 1, Len(p)) = p
    \/ \E k \in 1 .. Len(p) : /\ k <= Len(q) /\ SubSeq(p, 1, k - 1) = SubSeq(q, 1, k - 1)
                              /\ p[k] < q[k]

\* final_index_entry_winners: the last member of a path.
final_index_entry_winners ==
    {i \in DOMAIN members : \A j \in DOMAIN members : members[j].path = members[i].path => j <= i}
winner(p) == {i \in final_index_entry_winners : members[i].path = p}

\* extract_selected_files_to: the paths asked for, with the targets of hardlinks.
selected ==
    LET asked == IF options.select = {} THEN final_index_entry_winners
                 ELSE UNION {winner(p) : p \in options.select}
    IN  asked \cup UNION {winner(members[i].target) : i \in {i \in asked : members[i].kind = "hardlink"}}

entries == IF options.deferred THEN DOMAIN members ELSE selected

skipped(i) == \/ members[i].kind = "symlink" /\ options.policy = "Content"
              \/ members[i].kind = "special" /\ options.policy # "System"

\* validate_owned_restore_plan, before anything is written: the graph of the members.
\* What plan_restore refuses of one member (pax.rs:1242) is in EntryFidelity, a hardlink
\* whose metadata is not its target's (pax.rs:1251-1255) in TarGroup.
validate_owned_restore_plan ==
    /\ \A i \in selected : members[i].kind = "hardlink" =>
          \E j \in selected : members[j].path = members[i].target /\ members[j].kind = "file"
    /\ \A i, j \in selected :
          members[j].path \in ancestors(members[i].path) => members[j].kind = "dir"

restore_phase_for_kind(kind) ==
    CASE kind = "file" -> 1 [] kind \in {"symlink", "special"} -> 2
      [] kind = "hardlink" -> 3 [] kind = "dir" -> 4

phase_entries(p) ==
    SetToSortSeq({i \in selected : restore_phase_for_kind(members[i].kind) = p},
                 LAMBDA i, j : precedes(members[i].path, members[j].path))

\* Mutant: the size of a piece is rounded down.
chunks_floor(items, jobs) ==
    LET size == Len(items) \div jobs
    IN  [w \in Workers |->
           IF jobs = 1 \/ Len(items) <= 1 THEN IF w = 1 THEN items ELSE <<>>
           ELSE SubSeq(items, (w - 1) * size + 1, w * size)]

\* parallel_map_ref_with_state: one contiguous piece for each worker.
chunks(items, jobs) ==
    LET size == (Len(items) + jobs - 1) \div jobs
    IN  [w \in Workers |->
           IF jobs = 1 \/ Len(items) <= 1 THEN IF w = 1 THEN items ELSE <<>>
           ELSE SubSeq(items, (w - 1) * size + 1, IF w * size < Len(items) THEN w * size ELSE Len(items))]

idle == [w \in Workers |-> "idle"]

Init ==
    /\ members \in Archives /\ options \in Options /\ before \in Roots
    /\ options.select \subseteq {members[i].path : i \in DOMAIN members}
    /\ tree = [p \in DOMAIN before \cup {<<>>} |-> IF p = <<>> THEN node("dir", 0) ELSE node(before[p], 0)]
    /\ faults = 0 /\ temps = {} /\ unsynced = {} /\ phase = 0
    /\ chunk = [w \in Workers |-> <<>>] /\ pc = idle /\ depth = [w \in Workers |-> 0]
    /\ causes = {} /\ deferred = [hardlinks |-> <<>>, directories |-> {}] /\ result = "open"

-----------------------------------------------------------------------------
(***************************************************************************)
(* Planning and phases                                                     *)
(***************************************************************************)

\* extract_all_to takes an archive whose paths are unique.
StartStream ==
    /\ result = "open" /\ phase = 0 /\ options.deferred
    /\ IF final_index_entry_winners = DOMAIN members
       THEN /\ chunk' = [chunk EXCEPT ![1] = [i \in DOMAIN members |-> i]] /\ phase' = 1
            /\ UNCHANGED <<result, causes>>
       ELSE result' = "err" /\ causes' = {"plan"} /\ UNCHANGED <<chunk, phase>>
    /\ UNCHANGED <<input, faults, tree, temps, unsynced, pc, depth, deferred>>

Plan ==
    /\ result = "open" /\ phase = 0 /\ ~options.deferred
    /\ IF validate_owned_restore_plan
       THEN /\ phase' = 1 /\ chunk' = chunks(phase_entries(1), options.jobs)
            /\ UNCHANGED <<result, causes>>
       ELSE result' = "err" /\ causes' = {"plan"} /\ UNCHANGED <<chunk, phase>>
    /\ UNCHANGED <<input, faults, tree, temps, unsynced, pc, depth, deferred>>

quiet == pc = idle /\ \A w \in Workers : chunk[w] = <<>>

\* The next phase; the directories one after the other.
NextPhase ==
    /\ result = "open" /\ phase \in 1 .. 4 /\ ~options.deferred /\ quiet
    /\ IF causes # {} THEN result' = "err" /\ UNCHANGED <<phase, chunk>>
       ELSE IF phase = 4 THEN result' = "ok" /\ UNCHANGED <<phase, chunk>>
       ELSE /\ phase' = phase + 1 /\ UNCHANGED result
            /\ chunk' = chunks(phase_entries(phase + 1), IF phase + 1 = 4 THEN 1 ELSE options.jobs)
    /\ UNCHANGED <<input, faults, tree, temps, unsynced, pc, depth, causes, deferred>>

-----------------------------------------------------------------------------
(***************************************************************************)
(* One member                                                              *)
(***************************************************************************)

At(w, step) == result = "open" /\ pc[w] = step
current(w) == Head(chunk[w])
member(w) == members[current(w)]
path(w) == member(w).path
temp(w) == [dir |-> parent(path(w)), of |-> current(w)]

\* The directory gets or loses an entry.
entered(t, d) == [t EXCEPT ![d].final = FALSE]
with(t, p, n) == [q \in DOMAIN t \cup {p} |-> IF q = p THEN n ELSE t[q]]
without(t, p) == [q \in DOMAIN t \ {p} |-> t[q]]
may_enter(d) == tree[d].writable

Go(w, step) == pc' = [pc EXCEPT ![w] = step]
Done(w) == Go(w, "idle") /\ chunk' = [chunk EXCEPT ![w] = Tail(@)] /\ UNCHANGED causes

\* The error stops the worker's chunk; the others stop before their next member.
Fail(w, cause) == /\ causes' = causes \cup {cause} /\ Go(w, "idle")
                  /\ chunk' = [chunk EXCEPT ![w] = <<>>]
Fault == faults < MaxFaults /\ faults' = faults + 1
Stay == UNCHANGED <<input, phase, result>>

\* FilesystemRestoreHandler::on_member up to prepare_destination.
TakeMember(w) ==
    /\ At(w, "idle") /\ chunk[w] # <<>>
    /\ IF causes # {} THEN chunk' = [chunk EXCEPT ![w] = <<>>] /\ UNCHANGED <<pc, depth>>
       ELSE IF skipped(current(w)) THEN chunk' = [chunk EXCEPT ![w] = Tail(@)] /\ UNCHANGED <<pc, depth>>
       ELSE Go(w, "walk") /\ depth' = [depth EXCEPT ![w] = 0] /\ UNCHANGED chunk
    /\ Stay /\ UNCHANGED <<faults, tree, temps, unsynced, causes, deferred>>

\* open_or_create_safe_child_dir: open the next directory on the way, no link followed...
WalkOpen(w) ==
    /\ At(w, "walk") /\ depth[w] < Len(path(w)) - 1
    /\ LET p == SubSeq(path(w), 1, depth[w] + 1)
       IN  IF p \notin DOMAIN tree THEN Go(w, "mkdir") /\ UNCHANGED <<chunk, causes, depth>>
           ELSE IF tree[p].kind = "dir"
           THEN depth' = [depth EXCEPT ![w] = @ + 1] /\ UNCHANGED <<pc, chunk, causes>>
           ELSE Fail(w, "occupied") /\ UNCHANGED depth
    /\ Stay /\ UNCHANGED <<faults, tree, temps, unsynced, deferred>>

\* ... or create it, unless another worker has in the meantime.
WalkMake(w) ==
    /\ At(w, "mkdir")
    /\ LET p == SubSeq(path(w), 1, depth[w] + 1)
       IN  IF p \in DOMAIN tree
           THEN IF tree[p].kind = "dir"
                THEN Go(w, "walk") /\ UNCHANGED <<chunk, causes, tree, unsynced>>
                ELSE Fail(w, "occupied") /\ UNCHANGED <<tree, unsynced>>
           ELSE IF may_enter(parent(p))
           THEN /\ tree' = with(entered(tree, parent(p)), p, node("dir", 0)) /\ Go(w, "walk")
                /\ unsynced' = unsynced \cup {parent(p)} /\ UNCHANGED <<chunk, causes>>
           ELSE Fail(w, "read_only") /\ UNCHANGED <<tree, unsynced>>
    /\ Stay /\ UNCHANGED <<faults, temps, depth, deferred>>

\* The leaf must be free, or a file that may be overwritten, or the directory itself.
leaf_occupied(w) ==
    /\ path(w) \in DOMAIN tree
    /\ IF member(w).kind = "dir" THEN tree[path(w)].kind # "dir"
       ELSE tree[path(w)].kind \in {"dir", "symlink"} \/ ~options.overwrite

step_of(kind) == CASE kind = "file" -> "temp" [] kind = "dir" -> "directory"
                   [] kind \in {"symlink", "special"} -> "object" [] kind = "hardlink" -> "hardlink"

PrepareLeaf(w) ==
    /\ At(w, "walk") /\ depth[w] = Len(path(w)) - 1
    /\ IF leaf_occupied(w) THEN Fail(w, "occupied")
       ELSE Go(w, step_of(member(w).kind)) /\ UNCHANGED <<chunk, causes>>
    /\ Stay /\ UNCHANGED <<faults, tree, temps, unsynced, depth, deferred>>

\* create_temp_regular_file beside the destination.
CreateTemp(w) ==
    /\ At(w, "temp")
    /\ IF may_enter(parent(path(w)))
       THEN /\ temps' = temps \cup {temp(w)} /\ tree' = entered(tree, parent(path(w)))
            /\ Go(w, "payload") /\ UNCHANGED <<chunk, causes>>
       ELSE Fail(w, "read_only") /\ UNCHANGED <<tree, temps>>
    /\ Stay /\ UNCHANGED <<faults, unsynced, depth, deferred>>

\* The payload; dropping the handler removes the temporary file of a failed one.
WritePayload(w) ==
    /\ At(w, "payload")
    /\ \/ Go(w, "replace") /\ UNCHANGED <<faults, temps, chunk, causes>>
       \/ Fault /\ Fail(w, "payload") /\ temps' = temps \ {temp(w)}
    /\ Stay /\ UNCHANGED <<tree, unsynced, depth, deferred>>

\* publish_regular_file: the file to be overwritten goes first, then the new one is
\* synced; a temporary file whose sync fails stays.
ReplaceOld(w) ==
    /\ At(w, "replace")
    /\ LET gone == options.overwrite /\ path(w) \in DOMAIN tree
       IN  tree' = IF gone THEN without(entered(tree, parent(path(w))), path(w)) ELSE tree
    /\ \/ Go(w, "publish") /\ UNCHANGED <<faults, chunk, causes>>
       \/ options.sync /\ Fault /\ Fail(w, "sync")
    /\ Stay /\ UNCHANGED <<temps, unsynced, depth, deferred>>

contents(w) == IF member(w).kind = "hardlink" THEN CHOOSE i \in winner(member(w).target) : TRUE
               ELSE current(w)

\* Mutant: the rename replaces what is there, and the temporary file stays.
Publish_leaks(w) ==
    /\ At(w, "publish")
    /\ tree' = with(entered(tree, parent(path(w))), path(w), node("file", contents(w)))
    /\ unsynced' = IF options.sync THEN unsynced \ {parent(path(w))} ELSE unsynced \cup {parent(path(w))}
    /\ Go(w, "metadata") /\ UNCHANGED <<chunk, causes>>
    /\ Stay /\ UNCHANGED <<temps, faults, depth, deferred>>

\* The rename that replaces nothing.
Publish(w) ==
    /\ At(w, "publish")
    /\ temps' = temps \ {temp(w)}
    /\ IF path(w) \in DOMAIN tree
       THEN Fail(w, "occupied") /\ tree' = entered(tree, parent(path(w))) /\ UNCHANGED unsynced
       ELSE /\ tree' = with(entered(tree, parent(path(w))), path(w), node("file", contents(w)))
            /\ unsynced' = IF options.sync THEN unsynced \ {parent(path(w))}
                           ELSE unsynced \cup {parent(path(w))}
            /\ Go(w, "metadata") /\ UNCHANGED <<chunk, causes>>
    /\ Stay /\ UNCHANGED <<faults, depth, deferred>>

\* finish: the metadata of the published file, which a failure removes again (strict
\* mode; what allow_degraded makes of the failure is in EntryFidelity).
FinishFile(w) ==
    /\ At(w, "metadata")
    /\ \/ /\ options.policy # "Content" /\ Fault /\ Fail(w, "metadata")
          /\ tree' = without(entered(tree, parent(path(w))), path(w))
       \/ /\ tree' = IF options.policy = "Content" THEN tree
                     ELSE [tree EXCEPT ![path(w)].final = TRUE,
                                       ![path(w)].no_change = options.policy = "System" /\ member(w).no_change]
          /\ Done(w) /\ UNCHANGED faults
    /\ Stay /\ UNCHANGED <<temps, unsynced, depth, deferred>>

\* create_symlink and create_posix_special_object: the old leaf goes first, the metadata
\* comes last, and a failure removes the object.
CreateObject(w) ==
    /\ At(w, "object")
    /\ LET d == parent(path(w))
           cleared == IF path(w) \in DOMAIN tree THEN without(entered(tree, d), path(w)) ELSE tree
       IN  IF ~may_enter(d) THEN Fail(w, "read_only") /\ UNCHANGED <<tree, unsynced, faults>>
           ELSE \/ /\ tree' = with(entered(cleared, d), path(w), [node(member(w).kind, current(w)) EXCEPT !.final = TRUE])
                   /\ unsynced' = unsynced \cup {d} /\ Done(w) /\ UNCHANGED faults
                \/ Fault /\ Fail(w, "metadata") /\ tree' = entered(cleared, d) /\ UNCHANGED unsynced
    /\ Stay /\ UNCHANGED <<temps, depth, deferred>>

\* Mutant: the metadata of a directory is applied when it is made.
metadata_at_once == options.policy = "Content"

metadata_deferred == options.deferred \/ options.policy = "Content"

\* create_directory; its metadata is applied at once, or at the end of the stream.
CreateDirectory(w) ==
    /\ At(w, "directory")
    /\ LET d == parent(path(w))
           made == IF path(w) \in DOMAIN tree THEN tree
                   ELSE with(entered(tree, d), path(w), node("dir", current(w)))
       IN  IF path(w) \notin DOMAIN tree /\ ~may_enter(d)
           THEN Fail(w, "read_only") /\ UNCHANGED <<tree, unsynced, faults, deferred>>
           ELSE /\ unsynced' = IF path(w) \in DOMAIN tree THEN unsynced ELSE unsynced \cup {d}
                /\ \/ /\ metadata_deferred
                      /\ tree' = made /\ Done(w) /\ UNCHANGED faults
                      /\ deferred' = [deferred EXCEPT !.directories = @ \cup {current(w)}]
                   \/ /\ ~metadata_deferred
                      /\ \/ /\ tree' = with(made, path(w), [node("dir", current(w)) EXCEPT
                                              !.final = TRUE, !.writable = member(w).writable])
                            /\ Done(w) /\ UNCHANGED faults
                         \/ tree' = made /\ Fault /\ Fail(w, "metadata")
                      /\ UNCHANGED deferred
    /\ Stay /\ UNCHANGED <<temps, depth>>

-----------------------------------------------------------------------------
(***************************************************************************)
(* Hardlinks                                                               *)
(***************************************************************************)

\* existing_safe_regular_path: no link followed, and a regular file at the end.
existing_safe_regular_path(p) ==
    /\ \A a \in ancestors(p) : a \in DOMAIN tree /\ tree[a].kind = "dir"
    /\ p \in DOMAIN tree /\ tree[p].kind = "file"

\* create_hardlink; the kernel links no immutable file.
linked(p, q) ==
    with(entered(IF p \in DOMAIN tree THEN without(tree, p) ELSE tree, parent(p)), p, tree[q])

Hardlink(w) ==
    /\ At(w, "hardlink")
    /\ LET p == path(w)  q == member(w).target
       IN  CASE options.deferred ->
                   /\ deferred' = [deferred EXCEPT !.hardlinks = Append(@, current(w))] /\ Done(w)
                   /\ UNCHANGED <<tree, temps, unsynced, faults>>
             [] ~options.deferred /\ ~existing_safe_regular_path(q) ->
                   Fail(w, "target") /\ UNCHANGED <<tree, temps, unsynced, faults, deferred>>
             [] ~options.deferred /\ existing_safe_regular_path(q) /\ ~may_enter(parent(p)) ->
                   Fail(w, "read_only") /\ UNCHANGED <<tree, temps, unsynced, faults, deferred>>
             [] OTHER ->
                   /\ IF options.policy = "Content"
                      THEN \* a copy; the temporary file of one that fails stays
                           /\ temps' = temps \cup {temp(w)} /\ tree' = entered(tree, parent(p))
                           /\ \/ Go(w, "replace") /\ UNCHANGED <<chunk, causes, faults>>
                              \/ Fault /\ Fail(w, "materialize")
                           /\ UNCHANGED unsynced
                      ELSE IF tree[q].no_change
                      THEN /\ Fail(w, "no_change") /\ UNCHANGED <<temps, unsynced, faults>>
                           /\ tree' = IF p \in DOMAIN tree THEN without(entered(tree, parent(p)), p) ELSE tree
                      ELSE /\ tree' = linked(p, q) /\ Done(w)
                           /\ unsynced' = unsynced \cup {parent(p)} /\ UNCHANGED <<temps, faults>>
                   /\ UNCHANGED deferred
    /\ Stay /\ UNCHANGED depth

-----------------------------------------------------------------------------
(***************************************************************************)
(* finish_archive, at the end of the stream                                *)
(***************************************************************************)

Ending == result = "open" /\ options.deferred /\ phase = 1 /\ quiet
Broke(cause) == result' = "err" /\ causes' = causes \cup {cause}
End == UNCHANGED <<input, phase, chunk, pc, depth>>

StreamFailed == /\ Ending /\ causes # {} /\ result' = "err" /\ End
                /\ UNCHANGED <<faults, tree, temps, unsynced, causes, deferred>>

\* A hardlink prepared again and made, or copied when only content is restored.
FinishHardlink ==
    /\ Ending /\ causes = {} /\ deferred.hardlinks # <<>>
    /\ LET i == Head(deferred.hardlinks)  p == members[i].path  q == members[i].target
           occupied == p \in DOMAIN tree /\ (tree[p].kind \in {"dir", "symlink"} \/ ~options.overwrite)
           content == options.policy = "Content"
       IN  IF occupied \/ ~existing_safe_regular_path(q) \/ (~content /\ tree[q].no_change)
           THEN /\ Broke(IF occupied THEN "occupied" ELSE IF existing_safe_regular_path(q) THEN "no_change" ELSE "target")
                /\ tree' = IF ~occupied /\ existing_safe_regular_path(q) /\ p \in DOMAIN tree
                           THEN without(tree, p) ELSE tree
                /\ UNCHANGED <<temps, unsynced, deferred, faults>>
           ELSE \/ /\ tree' = IF content
                              THEN with(entered(tree, parent(p)), p, node("file", tree[q].of))
                              ELSE linked(p, q)
                   /\ unsynced' = IF content /\ options.sync THEN unsynced \ {parent(p)} ELSE unsynced \cup {parent(p)}
                   /\ deferred' = [deferred EXCEPT !.hardlinks = Tail(@)]
                   /\ UNCHANGED <<temps, result, causes, faults>>
                \/ /\ content /\ Fault /\ Broke("materialize")
                   /\ temps' = temps \cup {[dir |-> parent(p), of |-> i]}
                   /\ UNCHANGED <<tree, unsynced, deferred>>
    /\ End

\* The deepest directory first.
first_directory(S) ==
    CHOOSE i \in S : \A j \in S \ {i} :
        \/ Len(members[i].path) > Len(members[j].path)
        \/ Len(members[i].path) = Len(members[j].path) /\ precedes(members[i].path, members[j].path)

FinishDirectory ==
    /\ Ending /\ causes = {} /\ deferred.hardlinks = <<>> /\ deferred.directories # {}
    /\ options.policy # "Content"
    /\ LET i == first_directory(deferred.directories)
       IN  \/ /\ tree' = [tree EXCEPT ![members[i].path] =
                            [node("dir", i) EXCEPT !.final = TRUE, !.writable = members[i].writable]]
              /\ deferred' = [deferred EXCEPT !.directories = @ \ {i}]
              /\ UNCHANGED <<result, causes, faults>>
           \/ Fault /\ Broke("metadata") /\ UNCHANGED <<tree, deferred>>
    /\ End /\ UNCHANGED <<temps, unsynced>>

\* sync_root_for_durability.
SyncRoot ==
    /\ Ending /\ causes = {} /\ deferred.hardlinks = <<>>
    /\ deferred.directories = {} \/ options.policy = "Content"
    /\ unsynced' = unsynced \ {<<>>} /\ result' = "ok"
    /\ End /\ UNCHANGED <<faults, tree, temps, causes, deferred>>

-----------------------------------------------------------------------------
Member(w) ==
    \/ TakeMember(w) \/ WalkOpen(w) \/ WalkMake(w) \/ PrepareLeaf(w) \/ CreateTemp(w)
    \/ WritePayload(w) \/ ReplaceOld(w) \/ Publish(w) \/ FinishFile(w) \/ CreateObject(w)
    \/ CreateDirectory(w) \/ Hardlink(w)

Next ==
    \/ StartStream \/ Plan \/ NextPhase \/ \E w \in Workers : Member(w)
    \/ StreamFailed \/ FinishHardlink \/ FinishDirectory \/ SyncRoot

Spec == Init /\ [][Next]_vars

-----------------------------------------------------------------------------
(***************************************************************************)
(* Properties                                                              *)
(***************************************************************************)

paths == {members[i].path : i \in entries}
on_the_way == UNION {ancestors(p) : p \in paths}
untouched(p) == p \in DOMAIN before \cup {<<>>} /\ p \in DOMAIN tree /\ tree[p].of = 0
                /\ tree[p].kind = IF p = <<>> THEN "dir" ELSE before[p]

\* The member is where and what it should be, with its metadata.
restored(i) ==
    LET p == members[i].path
    IN  /\ p \in DOMAIN tree
        /\ CASE members[i].kind = "dir" -> tree[p].kind = "dir"
             [] members[i].kind = "hardlink" ->
                   /\ tree[p].kind = "file" /\ tree[p].of \in winner(members[i].target)
                   /\ options.policy # "Content" => tree[p].final
             [] OTHER -> /\ tree[p].kind = members[i].kind /\ tree[p].of = i
                         /\ options.policy # "Content" => tree[p].final

\* A restore that succeeds, with whatever workers and whatever was in the destination,
\* has restored every member selected and not outside the policy, the last one of each
\* path; nothing else in the destination has changed and no temporary file is left.
RestoredIsArchived ==
    result = "ok" =>
        /\ temps = {}
        /\ \A i \in entries : skipped(i) \/ restored(i)
        /\ \A p \in DOMAIN tree : p \in paths \/ untouched(p) \/ (p \in on_the_way /\ tree[p].kind = "dir")
        /\ \A p \in DOMAIN before : p \in paths \/ untouched(p)

\* The nested directories a phased restore cannot make: their parent, a directory of the
\* archive without write permission, was finished before them.
nested_under_read_only ==
    ~options.deferred /\ options.policy # "Content" /\ \E i, j \in entries :
        /\ members[i].kind = "dir" /\ ~members[i].writable /\ members[j].kind = "dir"
        /\ parent(members[j].path) = members[i].path

\* A restore that fails has a reason the user can find (something that failed, something
\* in the way, an archive whose members contradict each other, a nested directory under a
\* read-only one, a link to an immutable file), and leaves no half-restored member: every
\* name holds what it held, a member in full, or a directory; what is gone was to be
\* overwritten; and a temporary file stays only after a failed sync or copy.
FailureIsClean ==
    result = "err" =>
        /\ \/ faults > 0 \/ "plan" \in causes \/ nested_under_read_only
           \/ "occupied" \in causes /\ (DOMAIN before # {} \/ options.deferred)
           \/ "target" \in causes /\ options.deferred
           \/ "no_change" \in causes /\ options.policy = "System"
        /\ temps # {} => causes \cap {"sync", "materialize"} # {}
        /\ \A p \in DOMAIN tree :
              \/ untouched(p) \/ (p \in paths \cup on_the_way /\ tree[p].kind = "dir")
              \/ \E i \in entries : members[i].path = p /\ restored(i)
        /\ \A p \in DOMAIN before \ DOMAIN tree : options.overwrite /\ p \in paths /\ before[p] # "dir"

\* "Finalize directory ownership, base mode, ACLs, xattrs, attributes, and timestamps from
\* deepest directory to the root after all children": after a restore that succeeds every
\* directory of the archive has its archived metadata.
DirectoriesAreFinal ==
    result = "ok" /\ options.policy # "Content" =>
        \A i \in entries : members[i].kind = "dir" =>
            /\ tree[members[i].path].final
            /\ tree[members[i].path].writable = members[i].writable

\* "... immutable, append-only, system-immutable, and all other no-change flags last": no
\* step of a restore without faults into an empty directory meets one already set.
NoChangeFlagsLast == result = "err" /\ faults = 0 => "no_change" \notin causes

\* "a reported-successful extract survives power loss": every entry made is on disk.
SurvivesPowerLoss == result = "ok" => unsynced = {}
=============================================================================
