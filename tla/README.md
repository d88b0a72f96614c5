# TLA+ models of tzap

tzap writes encrypted, error-correcting, multi-volume archives and reads them
back after volumes were lost and blocks rotted.  This directory models the part
of it where order, concurrency, stale input and arithmetic at the boundary
decide whether an archive can be read again, checks the models with TLC on small
instances, and proves the central facts with TLAPS for instances of any size.

## The system

| Part | State | Operations | Hard about it |
|---|---|---|---|
| Ordered parallel writer (`writer/parallel.rs`) | tar members, frames, envelope being filled, payload objects, two reorder buffers, four channels, worker threads | read a chunk, send/receive frame jobs, pack, seal, send/receive envelope jobs, emit blocks, join | interleaving, bounded channels, errors and panics of workers |
| Single-pass writer (`writer/mod.rs`) | the same without threads, plus a push-back buffer | halve a chunk that does not fit, push the rest back, flush | off-by-one in what was read and what was packed |
| Two-pass writer (`writer/plan.rs`, `writer/envelope.rs`) | the plan, then a second pass over the same files | plan, compare, emit | files that change between and during the passes |
| Object planning (`writer/envelope.rs`, `writer/plan.rs`) | none: arithmetic | parity fixed point, object classes, extents, striping | rounding, convergence, class limits |
| Member groups (`writer/envelope.rs`, `entry_metadata.rs`, `tar_model/`) | the sections of a member; the parser states of three readers | lay out, stream from sources that move, parse from pieces, from a reader, from a slice | the same rules coded three times, input cut anywhere, times before the epoch, sparse maps |
| Tar stdin (`streaming_writer.rs`) | metadata headers waiting for their entry | parse an entry, rewrite it, end of archive | metadata that outlives its entry, GNU sparse maps, what follows the end |
| Index (`metadata.rs`, `writer/plan.rs`, `reader/mod.rs`) | shards, hints, IndexRoot | sort, partition, split, look up, list | hash collisions at shard boundaries, duplicates, classes declared in advance |
| One volume (`reader/cmra.rs`, `reader/volume.rs`) | the anchors found so far | find the terminal: trailer, locators, CMRA, backward scan | damage in any combination, tails of other archives |
| A set of volumes (`reader/`, `fec.rs`, `commands/mod.rs`) | volumes present, blocks, repaired copies | discover, open, check, load, repair, verify without a key | losses in any combination, files of another archive |
| Sequential readers (`non_seekable_reader.rs`, `reader/validation.rs`) | next block index, the envelope being collected, retained metadata, what was decoded | read a record, note an erasure, close an envelope, compare with the index, merge the staged tree | output is decoded before anything says how long the payload is |
| Restore (`tar_model/restore.rs`, `reader/mod.rs`) | the tree, temporary files, deferred links and directories | walk, create, publish, link, finish | two workers, order of links and metadata, power loss |
| Native metadata (`linux_metadata.rs`, `tar_model/os_restore.rs`) | attributes of an object, diagnostics | capture, plan, apply | an object that changes, steps that undo each other |
| Create command, inputs (`create.rs`, `os_input.rs`) | scanned identities, notes | scan, read | input that vanishes or changes |
| Create command, outputs (`create.rs`, `commands/mod.rs`, `keygen.rs`) | temporary files, published names | check, stage, sync, publish, roll back | publication that fails half-way, kills, two commands for the same names |
| Plugins (key wrap, signing) | recipient records, certificate chains | try records, build a chain | limits, ordering |

The create command opens the inputs and calls one of the three payload writers.
Each leaves behind the tar members, the frames, the payload objects and the
blocks on the volumes; the metadata writer builds the index from the first three
and never looks at the blocks again.  The reader trusts that index.  The payload
writers therefore have one common contract, and it is the first thing modelled.
A reader finds the terminal of each volume, folds the volumes into one archive,
loads and repairs objects, and hands the tar stream, member group by member
group, to verification or to a restore; a reader of a pipe does the same from
front to back and stages what it restores until it has seen the end.

What makes the parts correct: blocks in order and without a gap on every volume;
an index that describes what was really encrypted; no nonce used twice; a
success only for a complete archive, a failure only for a cause, and always one
of the two; enough parity for the configured losses; content that changed while
it was read either noted or refused; an archive published whole or not at all,
without touching anybody else's file; a reader of a pipe that never hands out
anything but a prefix of what was written; a volume or a set opened exactly when
its damage is within what the format tolerates, and never as another archive; a
member that reads back as its source, alike for every reader; lookups that find
the last member of a path; a restore that is complete when it succeeds and clean
when it fails.

## Modules

| Module | Models | How state and actions correspond |
|---|---|---|
| `ObjectPlan` | object sizes, parity, extents, striping | one operator per function; an error is `NoPlan`; u64 overflow is `word_max` |
| `PayloadFrames` | `payload_frame_metadata`, `payload_envelope_needs_flush`, block records | operators shared by the writers, and what an index must satisfy |
| `PayloadStream` | the contract of the payload writers | abstract: objects laid out, blocks written, status |
| `ParallelWriter` | `parallel.rs` | `pc` is where the main thread is between two channel operations; `frame_return`, `flush_return`, `emit_return` are the return addresses of the three nested functions that are entered from several places; the other variables are the fields of `OrderedParallelState`, the channels and the workers |
| `ParallelWriterProofs` | | proofs about `ParallelWriter`, each part on top of the one before: the order of the blocks; where every job is, and the refinement; what the index says |
| `SinglePassWriter` | `StreamingArchiveWriter` | one action per step of `write_prebuilt_member`; `taken` is how far the member's reader got, `contents` (a history variable) which bytes each frame really holds |
| `TwoPassWriter` | `plan_payload_stream`, `emit_payload_stream`, the identity-checked inputs | `pc` is the pass; `file` is what another process may rewrite at any moment |
| `PayloadFramesProofs` | | lemmas about packing a frame and sealing an envelope, for any writer, and about the parity iteration of `ObjectPlan` |
| `SinglePassProofs`, `TwoPassProofs` | | proofs about the two sequential writers |
| `Recovery` | laying out objects, losing volumes and blocks, `load_decrypted_object_*`, `repair_data_gf16` | `InputAssumption` says which archives are meant: the theorems take it as a hypothesis; `lost` and `erased` are what happened to the archive |
| `RecoveryProofs` | | proofs about `Recovery` |
| `OutputCommit` | publication of archives, sidecars and key pairs | `pc` is where each command is, `at` its position in the list it works through; `fs` is the directory, with each file's owner; `temps`, `persisted` and `stuck` are what the command has staged, published and could not remove; `faults` (history) what went wrong for it |
| `OutputCommitProofs` | | proofs about `OutputCommit` |
| `NonSeekableReader` | the live reader and the reader over a buffer | `pos` is what the pipe delivers next; `observed_block_count`, `pending`, `metadata_seen`, `metadata_blocks` and `decoded` are the fields of the code; `intact`, `erased` and `faults` (history) what the pipe did |
| `NonSeekableReaderProofs` | | proofs about `NonSeekableReader` |
| `StagedMerge` | `StagedExtraction::commit`, `preflight_staged_merge`, `merge_staged_dir` | `next` is the entry the walk has come to, `moved` what is no longer staged; another process makes and removes files at any moment (`late`, `lost` are history) |
| `StagedMergeProofs` | | proofs about `StagedMerge` |
| `VolumeTerminal` | layout of a volume's end and the search for it, in all the ways a volume is opened | a file is a sequence of cells, one per structure; `authority` says whether a parsed prefix is relied on, `cursor` is the backward scan |
| `VolumeSet` | discovery, folding volumes into one archive, the sidecar, keyless verification, publication of repaired copies | `dir` is the directory of volume files, `original` what it was before the damage; `rest` are the paths still to be parsed |
| `IndexTables` | the index from both ends: rows, shards, hints, IndexRoot and its class; the reader's checks, lookups and listings | `members` is what was archived, `parts` the partition, `shards` and `hints` the tables; the reader's side is operators |
| `TarMember` | headers, PAX records, timestamps, metadata rules and sparse maps of a member group | one operator per function; a group is a sequence of cells (a header fills a block) |
| `TarGroup` | one member from its source through `StreamingMemberReader` to the push, the pull and the slice reader, and the graph check of the push reader against the members before it (whole portable mirror, ancestors) | `wr` is the section reader, `push` the state of `TarStreamSummaryValidator`; the other two readers are operators on the whole group |
| `TarStdin` | `stream_tar_stdin_regulars` and the raw stream of declared size | one action per item of the stream; `metadata` is `LocalTarMetadata`. A regular entry whose size is not the length of what follows it is left out (the reader takes the next blocks for its payload), and so are the refusals of the member layout, which are `TarGroup`'s |
| `Restore` | restore from the index in four phases with workers, and from the stream with deferred links and directories | `tree` is the destination with, for each node, the member it is of and whether its metadata is final; `pc` and `depth` are where each worker is on its path. The strict mode: what `--allow-degraded` makes of a failed metadata step is in `EntryFidelity` |
| `EntryFidelity` | capture on Linux, `plan_restore`, the steps of `os_restore.rs` | `object` is what another process changes during the capture, `todo` the system calls left, `inode` the restored object |
| `MC*` | | small instances |

Data is abstracted.  A chunk is its member, offset and size; compression is a
choice of a length; an envelope's plaintext is the list of its frames; a block
is its index, its kind and the plaintext it was cut from.  In `TwoPassWriter` a
byte also carries the version of the file it was read from, and compression is a
function of the bytes, because there it matters that two readings differ.

Definitions whose comment begins with "Mutant" are deliberately wrong variants
of the definition after them.  They are used by no specification: each serves to
confirm that a property fails when the code has that mistake.

`MCWriters`, `MCReading` and `MCMembers` put parts that do not
interact side by side: `part` chooses one at the start, its actions run, and the
variables of the others stay as they are.  A state of such a module is a state of
one part, and its properties are those of the part.  Modules with the same kind of
state share variables by name there.

## Runs

| Run | Instance | Shows |
|---|---|---|
| `parallel` | 2 + 2 workers, channels of one job per worker, up to 2 members of 1 or 2 chunks, frames that share an envelope, fill one, or fit none, all six kinds of fault | order, index, completeness, causes of failure, the inductive invariant, refinement of `PayloadStream` |
| `parallel_live` | the same workers and faults, one frame length | the writer always returns |
| `writers` | single-pass: members of 2 and 5 bytes, chunks of up to 5, frames that must be halved once or twice; two-pass: two files, four kinds of content, two rewrites at any moment; objects: seven valid configurations, two objects of up to 5 data blocks, any volumes lost, two rotten blocks, a repair limit of 4 | no byte skipped or repeated, refinement of `PayloadStream`; what is written is a prefix of the plan, a success all of it, a change is always noted; everything within the budget loads and no smaller parity would do |
| `output_commit` | two commands, up to 3 volumes, old files, one file appearing at any moment, failing calls, kills; a command with `--force` has its names for itself | volume 0 is the commit point, success stands, failure leaves nothing, nobody else's file is touched, everybody ends |
| `reading` | terminals: signed, plain and key-wrapped volumes with cells of another archive inside, behind or left over, 3 faults, 7 readers; sets: one to three volumes with foreign and stale files, 3 faults, every way to open, sidecars, repair; pipe: archives of 0 to 3 envelopes, with no parity, one block or more than the data, encrypted or not, 3 lost, repeated, erased or cut records; merge: flat and deep trees with read-only directories over eight outputs, two steps of another process; restore: nine archives, six destinations, one or two workers, two I/O faults | a terminal and a set are opened exactly when they can be and as what was written; keyless verification is exact; a repair restores or leaves nothing; what is decoded from a pipe is a prefix, success the whole archive, exactly the tolerable damage is tolerated; a merge that succeeds is complete, one that fails has an outside reason; a restore is complete or clean, and from a stream leaves directories with their metadata |
| `members` | groups: 20 members (sparse, links, long names, owners and sizes past the field, times before the epoch, projected modes, attributes, auxiliary records), sources that shrink, grow or change, 27 broken rules (in the group and in the members before it), every way to cut the group; stdin: streams of up to 4 of 32 items, raw streams around their declared size; index: up to 4 members of colliding paths in shards of two, reserves of 0, 30 and 60 percent; metadata: every subset of the attributes a step can clear, two changes during capture, one refusal | round trip, agreement of the readers, the stream archived exactly, lookups and listings exact, no failure for the class declared in advance, capture consistent, no restored attribute undone by a later step |
| `two_pass_hash` | the two-pass part of `writers`, without incompressible bytes too large to pack | counterexample: success with a content hash that does not match |
| `hints_after_split` | the index part of `members` | counterexample: directory hints that number shards as they were before a split |
| `tar_flags` | one member of an unnamed system with a creation time | counterexample: flags that every reader refuses |
| `restore_no_change` | a file with the immutable flag and a hardlink to it | counterexample: the flag is set before the link is made |
| `restore_power_loss` | a directory with a link in it | counterexample: success with directory entries that were not synced |
| `silent_loss` | the metadata part of `members` | counterexample: a same-os or system restore that succeeds without the birth time and without a diagnostic |

**Why the bounds are enough.**  Two workers of each kind already return two
results in either order, leave one worker to go on when the other panics, and
fill a channel; up to four frames in flight exceed both the channel capacity and
an envelope, so every path through the nested receive loops is taken.  The code
has 4 and 2 jobs of capacity per worker; the models use 1, the hardest case.
Two objects in `writers` put the second at every offset in the stripe.  Every
bound is a constant (`MaxMembers`, `MaxChanges`, `MaxObjects`, `MaxErased`,
`MaxVolumes`, `MaxFaults`, `RetainedCap`).  Three volumes put a rename before, at
and after every failure and still before the last; a second command is enough
for every race, because commands only meet in the directory.  Three faults
exceed the parity of the one-block envelopes of the pipe, damage two neighbouring
envelopes at once and combine a lost with a rotten and a repeated record, so both
the damage a sequential reader repairs and the damage it must refuse are reached;
the metadata of some of its archives fits `RetainedCap`, that of others does not.
Three faults of a terminal destroy all but one of its three anchors and the prefix
with them; three of a set exceed every tolerance in it.  Two hashes that collide
across a shard of two rows reach every boundary of partition, split and lookup;
four members archive a path twice on both sides of one.  A block of four cells
holds each position a cut can have relative to a header, a record, a line of a map
and padding; the octal fields hold 9 and 7, so sizes, times and owners fall on both
sides of them.  Four items put two headers before an entry and a second entry or
the end marker after it.  Two workers already race for a directory; one fault at
every operation leaves each step undone once.
Workers are symmetric; `parallel` uses that, `parallel_live` does not (liveness).

**Fairness.**  `FairSpec` assumes weak fairness of the main thread and of each
worker: a thread that can go on is eventually scheduled by the operating system.
Nothing is assumed about which worker gets a job, and no fault is fair: a worker
that is busy finishes, fails or panics.  `Termination` rests on a relation in
the code: the capacity of a job channel is at least the number of workers.  With a
capacity of 1 TLC finds the main thread waiting on a full channel while all
results it could get have died with their workers.  `OutputCommit` assumes weak
fairness of each command's own steps: a command waits for nobody, and one that
was killed takes no more steps.

**The counterexamples.**
`two_pass_hash`: the two-pass writer, used when a dictionary, a target volume size
or a volume loss tolerance is asked for, reads every file twice.  Comparison with
the plan looks at lengths, flags and offsets, not at bytes, so content that
compresses to the same length is archived, with the hash of the other reading in
the IndexRoot; verification will reject it.
`hints_after_split`: `build_writer_plan_from_payload` builds the hints from the
partition, while a list of it may since have become two shards; verification
rejects the archive.
`tar_flags`: the writer predicts a member's flags from its metadata, the readers
recompute them from the records, and for `source_os` "other" with a creation time
the two differ.
`restore_no_change`: no-change flags are applied when a member is finished, before
hardlinks to it are made; Linux refuses such a link.
`restore_power_loss`: the final sync covers the restore root only, so what was made
in a subdirectory without a file beside it may be lost after a success.
`silent_loss`: the plan of a restore counts the creation time of a Linux entry as
supported on Linux, and no step applies it.  The CLI reference calls this a hard
error of a system restore, the specification asks that a loss is never silent; the
ordinary inode flags of an immutable file are lost the same way under same-os.

**Met while modelling, and stated in the properties as exceptions.**  The
properties above say exactly where the code stops short of a promise:
the two-pass writer refuses an archive when a moved file compresses to another
length; a rollback of the sidecar removes the archive by name, and with `--force`
the name may by then be another command's (hence the restriction of
`output_commit`); the keyless inspection of a signed volume may read the flags of
an older archive's tail (`OpensExactlyTheTolerable` names when); a restore from
the index finishes a directory before an empty child is made in it (`DirectoriesAreFinal` is checked
for a restore from the stream); the staged merge replaces a file that appeared
after its name was checked (`MergeIsExact`); a listing reads one hint shard even
if two directories collide across its boundary (`IndexAnswers` asks for directory
hashes without collisions).  Two refusals that no property is about: the class a
single-pass writer searches for its IndexRoot (`max_single_pass_index_root_data_shards`)
is bounded by the sum of data and parity only, so wherever parity exceeds data (a
bit-rot reserve above 50 percent, two of three volumes) and blocks are small enough
for the largest class, its parity has no u16 field and `Init` of `IndexTables` ends
with the refusal, although a smaller class would do; and an owner id too wide for
the host ends a degraded system restore that the plan had admitted
(`apply_regular_file_ownership`).

## Proofs

All theorems hold for every value of the constants that satisfies the named
assumptions of the module: any number of workers, members, files, commands and
volumes, any capacities, any valid options.  Each rests on an inductive invariant
that is a conjunction of named parts; one lemma collects which operations touch
which variables, and one lemma per part (or per operation) shows that it is kept.

| Theorem | States | Assumes |
|---|---|---|
| `ParallelWriterProofs!TypeCorrect`, `!BlocksAlwaysInOrder`, `!EnvelopeAlwaysFits`, `!WriteOrderAlways` | `TypeOK`, `BlocksInOrder`, `EnvelopeFits`, `WriteOrder` | `ParallelWriter`'s |
| `ParallelWriterProofs!FailureAlwaysCaused`, `!EnvelopesAlwaysOnce`, `!ImplementsPayloadStream`, `!CompletionAlways` | `FailureHasCause`, `EachEnvelopeOnce`, the refinement of `PayloadStream`, and their invariant | the same |
| `ParallelWriterProofs!IndexAlwaysDescribes`, `!SuccessAlwaysComplete`, `!IndexAlways` | `IndexDescribesBlocks`, `SuccessIsComplete`, and their invariant | the same |
| `SinglePassProofs!BytesAlwaysHeld`, `!SuccessAlwaysComplete`, `!ImplementsPayloadStream`, `!SinglePassAlways` | `FramesHoldTheirBytes`, `SuccessIsComplete`, the refinement, and their invariant | `SinglePassWriter`'s |
| `TwoPassProofs!EmissionAlwaysFollows`, `!ChangesAlwaysNoted`, `!TwoPassAlways` | `EmissionFollowsPlan`, `ChangesAreNoted`, and their invariant | `TwoPassWriter`'s, among them that a compressed frame is not empty |
| `OutputCommitProofs!FailureAlwaysClean` | `FailureLeavesNothing` | `OutputCommit`'s |
| `OutputCommitProofs!CommitPointHolds`, `!SuccessAlwaysStands`, `!RefusalAlwaysJustified`, `!OthersFilesAlwaysStay` | `VolumeZeroCommits`, `SuccessStands`, `RefusalIsJustified`, `OthersFilesStay` | the same, and that a command with `--force` has its names for itself (`ForcedApart`) |
| `RecoveryProofs!ArchiveSurvives`, `!ParityAlwaysLeast` | `SurvivesItsBudget`, `ParityIsLeast` | `Recovery`'s `InputAssumption` (valid requests, lengths and bounds that are numbers), as a hypothesis of the theorem |
| `NonSeekableReaderProofs!DecodesThePrefix`, `!SuccessMeansAll`, `!AcceptsExactlyTheTolerable`, `!ReaderInvariant` | `DecodedIsPrefix`, `SuccessIsComplete`, `AcceptsTheTolerable`, and their invariant | `NonSeekableReader`'s: valid options, one volume, and every object was planned (the archive was written) |
| `StagedMergeProofs!MergeAlwaysExact`, `!MergeInvariant` | `MergeIsExact`, and its invariant | `StagedMerge`'s `TreeAssumption`: what is staged is a tree, in the order of the walk; nothing of the output |

**Order of the blocks (`WriteOrder`).**  `BlocksInOrder` only speaks of blocks
already written, and is not inductive: a wrong extent may be anywhere on its way
through the workers.  `WriteOrder` therefore says that the objects in the index
are laid out without a gap from block 0 (`LaidOutInOrder`), that every envelope in
the main thread's hand, in a channel, with a worker or in the reorder buffer
carries the extent of its index entry (`InFlightAsIndexed`), and that what is
written ends where object `next_envelope` starts, as long as no write failed
(`WrittenUpToNext`).  That extents are numbers at all needs `EnvelopeFits`: an
object that does not fit has no parity count.  Nothing is assumed of
`compute_parity` but its own exit test.

**Where every job is (`CompletionInv`).**  Each pipeline has a next number wanted and
a next number to give out.  Every number between the two is in exactly one place:
a channel, a worker, the reorder buffer or the main thread's hand, unless a fault
took it; then nobody has it, it stays the next one wanted at the latest when the
main thread comes to it, and the writer cannot succeed.  That no number is twice in
the pools is what `EachEnvelopeOnce` needs (a nonce is derived from the number);
that one may be missing only after a fault is what `FailureHasCause` and
completeness need.  The refinement follows from `WriteOrder` and `CompletionInv`: a
flush is a layout step, the write of a block is a write step, and the end happens
once.

**What the index says.**  The frames and chunks of a member tile each other; frames
are packed in order into the envelope being filled; a sealed plaintext, wherever it
is on its way, is the frames recorded for its envelope.  When the numbers in flight
are gone (`CompletionInv`) this is about everything, hence `SuccessIsComplete`; that
every volume gets its share is a bijection between the blocks of a volume and the
quotients of their numbers.

**Sequential writers.**  `PackedSoFar` says that frames, objects and the envelope
being filled belong together; `PayloadFramesProofs` shows once that packing and
sealing keep it, that blocks stay described, and that writing some or all blocks of
a sealed envelope adds described blocks.  For the single-pass writer the rest of
the invariant is about the reader of the member: what is beyond the part of a chunk
that is tried has been taken and will be pushed back.  For the two-pass writer the
emission is `PackedSoFar` with a prefix of the plan.  The comparison with the plan
looks at the length of an envelope only; that an envelope of the planned length
holds all the planned frames uses that no frame is empty (`LastOfEnvelope`), and
that it lands in the planned extent uses that extents depend on lengths alone
(`PlannedAgain`).  `ChangesSeen` says of every byte that is not the scanned one that
its file is reported, or is still being read and will be checked after its last
byte; halving and pushing back never carry a byte past that check.

**Output commit.**  What a command has published is exactly what its position in
its list says; the names of different commands are apart where one is forced; a
rollback removes what is its own.  A rollback removes by name, so without the
assumption a forced command can lose its file to the rollback of another.

**Recovery.**  An erased object is loaded from any `data` of its blocks.  The blocks
of an object in one volume are counted by the stripe, so the loss of the tolerated
volumes and the tolerated share of rotten blocks stay within the parity.  The
parity iteration grows and never passes a parity that is sufficient, so its fixed
point is the least one.

**Pipe readers.**  The live reader is told neither where an envelope starts nor how
long it is: it counts blocks by kind, and a block that was erased counts as
whatever the reader is collecting.  The invariant says of the pending envelope that
it is one of four: there is none and the next envelope begins at
`observed_block_count` (`Nothing`); it is the next one, read so far (`Reading`); its
data is closed and some of its parity is still to come (`Closed`); or it is
`Doomed`: a run of erasures swallowed the end of its data with all of its own
parity, and the parity that closed it belongs to a later envelope.  A doomed envelope
is never handed out.  The parity required grows with the data (`compute_parity` is
monotone), and for two data counts as far apart as that to require the same parity,
there must be fewer parity blocks than gaps (`SameParity`, `DoomedIsNoticed`), so
its repair fails.  Once metadata has been seen, either all envelopes were kept, or
the reader was misled: it took the erased first blocks of an envelope for
metadata, and the index, which counts every block, notices.  For
`AcceptsTheTolerable` the invariant also says that giving up always has a damage
that is beyond repair (`Hopeless`), and that the check against the index accepts
exactly when the parity of every metadata object covers its erasures.

**Staged merge.**  What a step does to the output is said by the paths it leaves as
they are.  Nobody removes a directory, and what was moved is not removed by others;
whatever is below a moved directory was moved with it, so the walk never enters a
directory whose times are already the archived ones.  As long as nobody else has
been at work the check of a name stays true until the entry is moved, so a move fails
only for a read-only directory; and a file in the way of one that is not to be
overwritten came after its name was checked, whoever is at work.

Induction over numbers is done with the least counterexample of a set
(`LeastNumber`), since the induction schemas of the library cannot be instantiated
here.

Only model-checked: liveness (`Termination`, everybody ends), which needs fairness
and is out of the prover's reach; the search for a volume's end and the opening of
sets (`VolumeTerminal`, `VolumeSet`), restore, the tar model
(`TarMember`, `TarGroup`, `TarStdin`), the index tables and `EntryFidelity`, whose
properties compare folds over whole files and groups with reference definitions
(induction over data); the violations.

## Not modelled

Byte layouts, cryptography, compression and the GF(2^16) algebra of the repair,
command-line parsing and formatting: formats and library calls without control
of their own.  Capture and restore of native metadata on macOS, the BSDs and
Windows, device nodes and reparse points: sequences of system calls of which
the Linux ones are modelled.  Scanning input directories, the plaintext spool, key
wrap records and certificate chains: iteration over library results.  The fuzz
targets, scripts and workflows are not part of the program.  Memory use is not
modelled, so that the reorder buffer of early frames is unbounded is not visible
in a property.

## Plan

What is left is mostly proof; the modules were written without recursive
operators for it.  In order of importance:

1. `Restore`: no name is replaced without `--overwrite`; `EntryFidelity`:
   `CaptureIsConsistent`; `TarStdin`: metadata is spent by its entry.
2. Lemmas about the operators: `parse_timestamp` inverts `canonical_pax_value`;
   `candidate_interval_indexes` contains every shard that may hold a hash.

Modelling that could still be added: certificate chains and key wrap records as
pure modules against reference definitions, and the repair algebra over a small
field.
