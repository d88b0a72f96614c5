-------------------------- MODULE OutputCommitProofs --------------------------
(***************************************************************************)
(* Proofs about the output commit, for any number of commands with any     *)
(* valid requests in one directory.                                        *)
(*                                                                         *)
(* What a command owns changes by its own steps only, as long as no other  *)
(* command is forced to take its names (OthersKeepTheirs).                 *)
(* So the invariant is one about each command by itself: at every label,   *)
(* which of its outputs it may own (Upper) and which it does own (Lower).  *)
(***************************************************************************)
EXTENDS OutputCommit, TLAPS

-----------------------------------------------------------------------------
(***************************************************************************)
(* The paths of a command                                                  *)
(***************************************************************************)

\* A list of different paths.
PathList(s) ==
    /\ s \in Seq(Paths)
    /\ \A i, j \in 1 .. Len(s) : s[i] = s[j] => i = j

\* p is one of the elements of s from the k-th on, or before the k-th.
from(p, s, k)   == \E i \in 1 .. Len(s) : i >= k /\ s[i] = p
before(p, s, k) == \E i \in 1 .. Len(s) : i < k /\ s[i] = p
among(p, s)     == \E i \in 1 .. Len(s) : s[i] = p

order(c) == publish_order(archive_paths(c))
files(c) == atomic_outputs(c)

\* The paths are different from each other, volume by volume.
LEMMA PathsDiffer ==
    /\ Out \in Paths /\ Boot \in Paths /\ Secret \in Paths /\ Public \in Paths
    /\ \A i \in 0 .. MaxVolumes - 1 : Vol(i) \in Paths
    /\ Out # Boot /\ Secret # Public
    /\ \A i, j : Vol(i) = Vol(j) => i = j
    /\ \A i : Vol(i) # Out /\ Vol(i) # Boot /\ Vol(i) # Secret /\ Vol(i) # Public
  BY DEF Paths, Out, Boot, Secret, Public, Vol, Volumes

\* What is asked of a command.
LEMMA RequestType ==
    ASSUME request \in [Commands -> Requests], NEW c \in Commands
    PROVE  /\ request[c].kind \in {"sink", "memory", "keypair"}
           /\ request[c].volumes \in 1 .. MaxVolumes /\ MaxVolumes \in Nat \ {0}
           /\ request[c].by_size \in BOOLEAN
           /\ request[c].bootstrap \in BOOLEAN /\ request[c].force \in BOOLEAN
           /\ request[c].by_size => request[c].kind = "memory"
           /\ request[c].bootstrap => /\ request[c].kind # "keypair"
                                      /\ request[c].volumes = 1 /\ ~request[c].by_size
  <1>1. ValidRequest(request[c])
    BY RequestAssumption
  <1> QED  BY <1>1, RequestAssumption DEF ValidRequest

\* The archive's paths, in volume order.
LEMMA ArchivePaths ==
    ASSUME request \in [Commands -> Requests], NEW c \in Commands
    PROVE  /\ PathList(archive_paths(c))
           /\ Len(archive_paths(c)) = request[c].volumes
           /\ request[c].volumes = 1 => archive_paths(c)[1] = Out
           /\ request[c].volumes > 1 =>
                 \A i \in 1 .. request[c].volumes : archive_paths(c)[i] = Vol(i - 1)
  <1> DEFINE n == request[c].volumes
  <1>1. n \in 1 .. MaxVolumes /\ MaxVolumes \in Nat
    BY RequestType
  <1>2. CASE n = 1
    <2>1. archive_paths(c) = <<Out>>
      BY <1>2 DEF archive_paths, create_output_paths
    <2> QED  BY <1>2, <2>1, PathsDiffer DEF PathList
  <1>3. CASE n > 1
    <2>1. archive_paths(c) = [i \in 1 .. n |-> Vol(i - 1)]
      BY <1>1, <1>3 DEF archive_paths, create_output_paths
    <2>2. \A i \in 1 .. n : Vol(i - 1) \in Paths
      <3> TAKE i \in 1 .. n
      <3>1. i - 1 \in 0 .. MaxVolumes - 1
        BY <1>1
      <3> QED  BY <3>1, PathsDiffer
    <2>3. archive_paths(c) \in Seq(Paths) /\ Len(archive_paths(c)) = n
      BY <1>1, <2>1, <2>2
    <2>4. \A i \in 1 .. n : archive_paths(c)[i] = Vol(i - 1)
      BY <2>1
    <2>5. \A i, j \in 1 .. n : archive_paths(c)[i] = archive_paths(c)[j] => i = j
      <3> TAKE i, j \in 1 .. n
      <3>1. Vol(i - 1) = Vol(j - 1) => i - 1 = j - 1
        BY PathsDiffer
      <3> QED  BY <1>1, <2>4, <3>1
    <2> QED  BY <1>3, <2>3, <2>4, <2>5 DEF PathList
  <1> QED  BY <1>1, <1>2, <1>3

\* The order of publication: the same paths, the first one last.
LEMMA PublishOrder ==
    ASSUME request \in [Commands -> Requests], NEW c \in Commands
    PROVE  /\ PathList(order(c))
           /\ Len(order(c)) = request[c].volumes
           /\ \A p : among(p, order(c)) <=> among(p, archive_paths(c))
           /\ order(c)[request[c].volumes] = archive_paths(c)[1]
           /\ \A i \in 1 .. request[c].volumes - 1 : order(c)[i] = archive_paths(c)[i + 1]
  <1> DEFINE s == archive_paths(c)
             n == request[c].volumes
             t == publish_order(s)
  <1>1. PathList(s) /\ Len(s) = n /\ n \in Nat \ {0}
    BY ArchivePaths, RequestType
  <1>2. s \in Seq(Paths) /\ \A i, j \in 1 .. n : s[i] = s[j] => i = j
    BY <1>1 DEF PathList
  <1>3. t = Tail(s) \o <<Head(s)>>
    BY DEF publish_order
  <1> HIDE DEF s, n, t
  <1>4. Tail(s) \in Seq(Paths) /\ Len(Tail(s)) = n - 1
        /\ \A i \in 1 .. n - 1 : Tail(s)[i] = s[i + 1]
    BY <1>1, <1>2
  <1>5. Head(s) = s[1] /\ s[1] \in Paths
    BY <1>1, <1>2
  <1>6. t \in Seq(Paths) /\ Len(t) = n
    BY <1>1, <1>3, <1>4, <1>5
  <1>7. t[n] = s[1] /\ \A i \in 1 .. n - 1 : t[i] = s[i + 1]
    BY <1>1, <1>3, <1>4, <1>5
  <1>8. \A i, j \in 1 .. n : t[i] = t[j] => i = j
    BY <1>1, <1>2, <1>7
  <1>9. \A p : among(p, t) <=> among(p, s)
    <2> TAKE p
    <2>1. ASSUME NEW i \in 1 .. n, t[i] = p PROVE \E j \in 1 .. n : s[j] = p
      <3>1. CASE i = n
        BY <1>1, <1>7, <2>1, <3>1
      <3>2. CASE i # n
        <4>1. i + 1 \in 1 .. n /\ s[i + 1] = p
          BY <1>1, <1>7, <2>1, <3>2
        <4> QED  BY <4>1
      <3> QED  BY <3>1, <3>2
    <2>2. ASSUME NEW i \in 1 .. n, s[i] = p PROVE \E j \in 1 .. n : t[j] = p
      <3>1. CASE i = 1
        <4>1. n \in 1 .. n /\ t[n] = p
          BY <1>1, <1>7, <2>2, <3>1
        <4> QED  BY <4>1
      <3>2. CASE i # 1
        <4>1. i - 1 \in 1 .. n - 1 /\ i - 1 \in 1 .. n /\ (i - 1) + 1 = i
          BY <1>1, <3>2
        <4>2. t[i - 1] = s[(i - 1) + 1]
          BY <1>7, <4>1
        <4>3. t[i - 1] = p
          BY <2>2, <4>1, <4>2
        <4> QED  BY <4>1, <4>3
      <3> QED  BY <3>1, <3>2
    <2> QED  BY <1>1, <1>6, <2>1, <2>2 DEF among
  <1> QED  BY <1>1, <1>6, <1>7, <1>8, <1>9 DEF order, s, n, t, PathList

\* The files of write_atomic_output_files; none is a path of the archive.
LEMMA AtomicPaths ==
    ASSUME request \in [Commands -> Requests], NEW c \in Commands
    PROVE  /\ PathList(files(c))
           /\ \A p : among(p, files(c)) /\ request[c].kind # "keypair"
                        => ~among(p, archive_paths(c))
           /\ request[c].kind = "keypair" => files(c) = <<Secret, Public>>
           /\ request[c].kind # "keypair" => ~among(Vol(0), files(c))
  <1>1. files(c) \in {<<Secret, Public>>, <<Boot>>, <<>>}
    BY DEF files, atomic_outputs
  <1>2. PathList(files(c))
    <2>1. PathList(<<Secret, Public>>)
      BY PathsDiffer DEF PathList
    <2>2. PathList(<<Boot>>)
      BY PathsDiffer DEF PathList
    <2>3. PathList(<<>>)
      BY DEF PathList
    <2> QED  BY <1>1, <2>1, <2>2, <2>3
  <1>3. request[c].kind # "keypair" => files(c) \in {<<Boot>>, <<>>}
    BY DEF files, atomic_outputs
  <1>4. request[c].kind # "keypair" => \A p : among(p, files(c)) => p = Boot
    BY <1>3 DEF among
  <1>5. ~among(Boot, archive_paths(c))
    <2>1. request[c].volumes \in 1 .. MaxVolumes /\ MaxVolumes \in Nat
      BY RequestType
    <2> QED  BY <2>1, ArchivePaths, PathsDiffer DEF among
  <1>6. request[c].kind = "keypair" => files(c) = <<Secret, Public>>
    BY DEF files, atomic_outputs
  <1> QED  BY <1>2, <1>4, <1>5, <1>6, PathsDiffer

\* Its outputs are the archive and these files, and the preflight looks at all.
LEMMA Outputs ==
    ASSUME request \in [Commands -> Requests], NEW c \in Commands
    PROVE  /\ \A p : among(p, outputs(c)) <=>
                        \/ request[c].kind # "keypair" /\ among(p, archive_paths(c))
                        \/ among(p, files(c))
           /\ \A p : among(p, outputs(c)) => p \in names(c)
           /\ outputs(c) \in Seq(Paths)
  <1> DEFINE s == archive_paths(c)
             f == files(c)
             n == request[c].volumes
  <1>1. s \in Seq(Paths) /\ f \in Seq(Paths) /\ Len(s) = n
    BY ArchivePaths, AtomicPaths DEF PathList
  <1>2. outputs(c) = IF request[c].kind = "keypair" THEN f ELSE s \o f
    BY DEF outputs, files
  <1>3. outputs(c) \in Seq(Paths)
    <2> HIDE DEF s, f
    <2> QED  BY <1>1, <1>2
  <1>4. \A p : among(p, s \o f) <=> among(p, s) \/ among(p, f)
    <2> HIDE DEF s, f
    <2> TAKE p
    <2>1. s \o f \in Seq(Paths) /\ Len(s \o f) = Len(s) + Len(f)
          /\ Len(s) \in Nat /\ Len(f) \in Nat
      BY <1>1, SMTT(40)
    <2>2. \A i \in 1 .. Len(s) + Len(f) :
             (s \o f)[i] = IF i <= Len(s) THEN s[i] ELSE f[i - Len(s)]
      BY <1>1
    <2>3. ASSUME NEW i \in 1 .. Len(s) + Len(f), (s \o f)[i] = p
          PROVE  among(p, s) \/ among(p, f)
      BY <2>1, <2>2, <2>3 DEF among
    <2>4. ASSUME NEW i \in 1 .. Len(s), s[i] = p PROVE among(p, s \o f)
      BY <2>1, <2>2, <2>4 DEF among
    <2>5. ASSUME NEW i \in 1 .. Len(f), f[i] = p PROVE among(p, s \o f)
      <3>1. i + Len(s) \in 1 .. Len(s) + Len(f) /\ ~(i + Len(s) <= Len(s))
            /\ (i + Len(s)) - Len(s) = i
        BY <2>1
      <3>2. (s \o f)[i + Len(s)] = p
        BY <2>2, <2>5, <3>1
      <3> QED  BY <2>1, <3>1, <3>2 DEF among
    <2> QED  BY <2>1, <2>3, <2>4, <2>5 DEF among
  <1>5. \A p : among(p, outputs(c)) <=>
                 (request[c].kind # "keypair" /\ among(p, s)) \/ among(p, f)
    BY <1>2, <1>4
  <1>6. \A p : among(p, outputs(c)) => p \in names(c)
    <2>1. CASE ~request[c].by_size
      BY <2>1 DEF names, preflight_paths, among
    <2>2. CASE request[c].by_size
      <3>1. request[c].kind = "memory" /\ ~request[c].bootstrap
            /\ n \in 1 .. MaxVolumes /\ MaxVolumes \in Nat
        BY <2>2, RequestType
      <3>2. outputs(c) = s \o <<>> /\ f = <<>>
        BY <1>2, <3>1 DEF files, atomic_outputs
      <3>3. \A p : among(p, outputs(c)) => among(p, s)
        BY <1>5, <3>2 DEF among
      <3> DEFINE t == <<Out>> \o [i \in 1 .. MaxVolumes |-> Vol(i - 1)]
      <3>4. preflight_paths(c) = t
        BY <2>2 DEF preflight_paths
      <3>5. /\ [i \in 1 .. MaxVolumes |-> Vol(i - 1)] \in Seq(Paths)
            /\ Len([i \in 1 .. MaxVolumes |-> Vol(i - 1)]) = MaxVolumes
        BY <3>1, PathsDiffer
      <3>6. Len(t) = MaxVolumes + 1 /\ t[1] = Out
            /\ \A i \in 1 .. MaxVolumes : t[i + 1] = Vol(i - 1)
        BY <3>1, <3>5, PathsDiffer
      <3>7. \A p : among(p, s) => \E i \in 1 .. Len(t) : t[i] = p
        <4> TAKE p
        <4> HAVE among(p, s)
        <4>1. PICK i \in 1 .. n : s[i] = p
          BY <1>1 DEF among
        <4>2. CASE n = 1
          <5>1. p = Out /\ 1 \in 1 .. Len(t)
            BY <3>1, <3>6, <4>1, <4>2, ArchivePaths
          <5> QED  BY <3>6, <5>1
        <4>3. CASE n > 1
          <5>1. p = Vol(i - 1) /\ i + 1 \in 1 .. Len(t) /\ i \in 1 .. MaxVolumes
            BY <3>1, <3>6, <4>1, <4>3, ArchivePaths
          <5> QED  BY <3>6, <5>1
        <4>4. n = 1 \/ n > 1
          BY <3>1
        <4> QED  BY <4>2, <4>3, <4>4
      <3> QED  BY <3>3, <3>4, <3>7 DEF names
    <2> QED  BY <2>1, <2>2
  <1> QED  BY <1>3, <1>5, <1>6
-----------------------------------------------------------------------------
(***************************************************************************)
(* Types                                                                   *)
(***************************************************************************)

Staging == {"preflight", "build", "recheck", "stage", "fill", "sync"}
Labels == Staging \cup {"publish", "check_files", "stage_files", "publish_files"}
                  \cup Removing \cup Ended

Files == [by : Commands \cup {"none", "old", "visitor"}, synced : BOOLEAN]

TypeOK ==
    /\ request \in [Commands -> Requests]
    /\ pc \in [Commands -> Labels]
    /\ at \in [Commands -> Nat \ {0}]
    /\ fs \in [Paths -> Files]
    /\ temps \in [Commands -> [Paths -> {"none", "created", "filled", "synced"}]]
    /\ persisted \in [Commands -> Seq(Paths)]

\* The list a command removes its outputs from.
removal_list(c) == IF pc[c] = "remove_archive" THEN archive_paths(c) ELSE persisted[c]

\* A step of a command gives one of its names to its temporary file, or takes a
\* name away, or leaves the directory alone.
Renames(c, p) ==
    /\ \/ pc[c] = "publish" /\ at[c] <= Len(order(c)) /\ p = order(c)[at[c]]
       \/ pc[c] = "publish_files" /\ at[c] <= Len(files(c)) /\ p = files(c)[at[c]]
    /\ request[c].force \/ ~exists(p)
    /\ fs' = [fs EXCEPT ![p] = file(c, temps[c][p] = "synced")]
    /\ temps' = [temps EXCEPT ![c][p] = "none"]
    /\ persisted' = [persisted EXCEPT ![c] = Append(@, p)]
    /\ Advance(c) /\ stuck' = stuck

Removes(c, p) ==
    /\ pc[c] \in Removing
    /\ at[c] <= Len(removal_list(c)) /\ p = removal_list(c)[at[c]]
    /\ fs' = [fs EXCEPT ![p] = Absent]
    /\ Advance(c) /\ UNCHANGED <<temps, persisted, stuck>>

\* The position of a command is that of an element of its list.
LEMMA PositionInList ==
    ASSUME NEW s, s \in Seq(Paths), NEW k \in Nat \ {0}, k <= Len(s)
    PROVE  k \in 1 .. Len(s) /\ s[k] \in Paths
  OBVIOUS

\* What a step of a command does to the others and to the directory.
LEMMA Effects ==
    ASSUME TypeOK, NEW c \in Commands, Step(c) \/ Kill(c)
    PROVE  /\ request' = request
           /\ \A d \in Commands \ {c} :
                 /\ pc'[d] = pc[d] /\ at'[d] = at[d]
                 /\ temps'[d] = temps[d] /\ persisted'[d] = persisted[d]
           /\ stuck \subseteq stuck'
           /\ fs' = fs \/ (\E p \in Paths : Renames(c, p) \/ Removes(c, p))
  <1> DEFINE E == /\ request' = request
                  /\ \A d \in Commands \ {c} :
                        /\ pc'[d] = pc[d] /\ at'[d] = at[d]
                        /\ temps'[d] = temps[d] /\ persisted'[d] = persisted[d]
                  /\ stuck \subseteq stuck'
             Same == fs' = fs
             Changes == \E p \in Paths : Renames(c, p) \/ Removes(c, p)
  <1>1. /\ archive_paths(c) \in Seq(Paths) /\ order(c) \in Seq(Paths)
        /\ files(c) \in Seq(Paths) /\ persisted[c] \in Seq(Paths) /\ at[c] \in Nat \ {0}
    BY ArchivePaths, PublishOrder, AtomicPaths DEF TypeOK, PathList
  <1>2. /\ pc \in [Commands -> Labels] /\ at \in [Commands -> Nat \ {0}]
        /\ temps \in [Commands -> [Paths -> {"none", "created", "filled", "synced"}]]
        /\ persisted \in [Commands -> Seq(Paths)]
    BY DEF TypeOK
  <1>3. CASE \/ Preflight(c) \/ BuildInMemory(c) \/ Recheck(c) \/ CreateTemp(c)
             \/ WriteToSink(c) \/ WriteVolume(c) \/ SyncTemp(c)
             \/ CheckFiles(c) \/ StageFile(c) \/ Kill(c)
    <2>1. CASE Preflight(c) \/ Recheck(c) \/ CheckFiles(c)
      BY <1>2, <2>1 DEF Preflight, Recheck, CheckFiles, PathsFree, PathTaken, FilesFail,
                        Exit, Goto, Advance
    <2>2. CASE BuildInMemory(c) \/ WriteToSink(c) \/ Kill(c)
      BY <1>2, <2>2 DEF BuildInMemory, WriteToSink, Kill, Exit, Goto, Advance
    <2>3. CASE CreateTemp(c) \/ WriteVolume(c) \/ SyncTemp(c) \/ StageFile(c)
      BY <1>2, <2>3 DEF CreateTemp, WriteVolume, SyncTemp, StageFile, FilesFail,
                        Exit, Goto, Advance
    <2> QED  BY <1>3, <2>1, <2>2, <2>3
  <1>4. CASE PublishArchive(c) \/ PublishFiles(c)
    <2>1. E
      BY <1>2, <1>4 DEF PublishArchive, PublishFiles, Publish, Rename, Goto, Advance
    <2>2. Same \/ Changes
      <3>1. CASE PublishArchive(c)
        <4>1. Same \/ (/\ at[c] <= Len(order(c)) /\ Rename(c, order(c)[at[c]])
                       /\ Advance(c) /\ pc[c] = "publish" /\ stuck' = stuck)
          BY <3>1 DEF PublishArchive, Publish, order
        <4>2. at[c] <= Len(order(c)) => order(c)[at[c]] \in Paths
          BY <1>1, PositionInList
        <4> QED  BY <4>1, <4>2 DEF Rename, Renames
      <3>2. CASE PublishFiles(c)
        <4>1. Same \/ (/\ at[c] <= Len(files(c)) /\ Rename(c, files(c)[at[c]])
                       /\ Advance(c) /\ pc[c] = "publish_files" /\ stuck' = stuck)
          BY <3>2 DEF PublishFiles, Publish, files
        <4>2. at[c] <= Len(files(c)) => files(c)[at[c]] \in Paths
          BY <1>1, PositionInList
        <4> QED  BY <4>1, <4>2 DEF Rename, Renames
      <3> QED  BY <1>4, <3>1, <3>2
    <2> QED  BY <2>1, <2>2
  <1>5. CASE Rollback(c) \/ RollbackFiles(c) \/ RemoveArchive(c)
    <2>1. E
      BY <1>2, <1>5 DEF Rollback, RollbackFiles, RemoveArchive, Remove, FilesFail,
                        Exit, Goto, Advance
    <2>2. Same \/ (/\ pc[c] \in Removing /\ at[c] <= Len(removal_list(c))
                   /\ Remove(c, removal_list(c)[at[c]])
                   /\ Advance(c) /\ UNCHANGED <<temps, persisted>>)
      BY <1>5 DEF Rollback, RollbackFiles, RemoveArchive, removal_list, rollback_paths, Removing
    <2>3. at[c] <= Len(removal_list(c)) => removal_list(c)[at[c]] \in Paths
      BY <1>1, PositionInList DEF removal_list
    <2>4. Same \/ Changes
      BY <2>2, <2>3 DEF Remove, Removes
    <2> QED  BY <2>1, <2>4
  <1> QED  BY <1>3, <1>4, <1>5 DEF Step
\* Whoever writes a file, it is one.
LEMMA FileType ==
    /\ \A by \in Commands \cup {"none", "old", "visitor"} :
          \A b \in BOOLEAN : file(by, b) \in Files
    /\ Absent \in Files
  BY DEF file, Files, Absent

\* The types hold at the start ...
LEMMA TypeInit == Init => TypeOK
  <1> SUFFICES ASSUME Init PROVE TypeOK
    OBVIOUS
  <1>1. fs \in [Paths -> Files]
    BY FileType DEF Init
  <1>2. pc \in [Commands -> Labels] /\ at \in [Commands -> Nat \ {0}]
    BY DEF Init, Labels, Staging
  <1>3. persisted \in [Commands -> Seq(Paths)]
    <2>1. <<>> \in Seq(Paths)
      OBVIOUS
    <2> QED  BY <2>1 DEF Init
  <1>4. temps \in [Commands -> [Paths -> {"none", "created", "filled", "synced"}]]
    BY DEF Init, NoTemps
  <1> QED  BY <1>1, <1>2, <1>3, <1>4 DEF Init, TypeOK

\* ... and are kept by every step.
LEMMA TypeStep == TypeOK /\ [Next]_vars => TypeOK'
  <1> SUFFICES ASSUME TypeOK, [Next]_vars PROVE TypeOK'
    OBVIOUS
  <1>1. CASE UNCHANGED vars
    BY <1>1 DEF TypeOK, vars
  <1>2. CASE Visit
    <2>1. PICK p \in Paths : fs' = [fs EXCEPT ![p] = file("visitor", TRUE)]
      BY <1>2, RequestAssumption DEF Visit
    <2>2. file("visitor", TRUE) \in Files
      BY FileType
    <2>3. fs' \in [Paths -> Files]
      BY <2>1, <2>2 DEF TypeOK
    <2> QED  BY <1>2, <2>3 DEF Visit, TypeOK
  <1>3. ASSUME NEW c \in Commands, Step(c) \/ Kill(c) PROVE TypeOK'
    <2>1. request' = request
      BY <1>3, Effects
    <2>2. fs' \in [Paths -> Files]
      <3>1. \A p \in Paths : file(c, temps[c][p] = "synced") \in Files
        <4> TAKE p \in Paths
        <4>1. (temps[c][p] = "synced") \in BOOLEAN
          OBVIOUS
        <4> QED  BY <4>1, FileType, Zenon
      <3>2. fs \in [Paths -> Files]
        BY DEF TypeOK
      <3>3. fs' = fs \/ (\E p \in Paths : Renames(c, p) \/ Removes(c, p))
        BY <1>3, Effects
      <3>4. fs' = fs \/ \E p \in Paths, x \in Files : fs' = [fs EXCEPT ![p] = x]
        BY <3>1, <3>3, FileType DEF Renames, Removes
      <3> QED  BY <3>2, <3>4
    <2>3. /\ archive_paths(c) \in Seq(Paths) /\ order(c) \in Seq(Paths)
          /\ files(c) \in Seq(Paths) /\ persisted[c] \in Seq(Paths) /\ at[c] \in Nat \ {0}
      BY ArchivePaths, PublishOrder, AtomicPaths DEF TypeOK, PathList
    <2>4. /\ pc \in [Commands -> Labels] /\ at \in [Commands -> Nat \ {0}]
          /\ temps \in [Commands -> [Paths -> {"none", "created", "filled", "synced"}]]
          /\ persisted \in [Commands -> Seq(Paths)]
          /\ request[c].kind \in {"sink", "memory", "keypair"}
      BY RequestType DEF TypeOK
    <2>5. \A s \in {archive_paths(c), order(c), files(c), persisted[c]} :
             at[c] <= Len(s) => s[at[c]] \in Paths
      BY <2>3, PositionInList
    <2>6. /\ pc' \in [Commands -> Labels] /\ at' \in [Commands -> Nat \ {0}]
          /\ temps' \in [Commands -> [Paths -> {"none", "created", "filled", "synced"}]]
          /\ persisted' \in [Commands -> Seq(Paths)]
      <3> DEFINE T == /\ pc' \in [Commands -> Labels] /\ at' \in [Commands -> Nat \ {0}]
                      /\ temps' \in [Commands -> [Paths -> {"none", "created", "filled", "synced"}]]
                      /\ persisted' \in [Commands -> Seq(Paths)]
      <3>1. ASSUME NEW l \in Labels, Goto(c, l)
            PROVE  pc' \in [Commands -> Labels] /\ at' \in [Commands -> Nat \ {0}]
        BY <2>4, <3>1 DEF Goto
      <3>2. ASSUME NEW l \in Labels, Exit(c, l)
            PROVE  /\ pc' \in [Commands -> Labels] /\ at' \in [Commands -> Nat \ {0}]
                   /\ temps' \in [Commands -> [Paths -> {"none", "created", "filled", "synced"}]]
        BY <2>4, <3>1, <3>2 DEF Exit, NoTemps
      <3>3. ASSUME Advance(c)
            PROVE  pc' \in [Commands -> Labels] /\ at' \in [Commands -> Nat \ {0}]
        BY <2>4, <3>3 DEF Advance
      <3>4. ASSUME FilesFail(c)
            PROVE  /\ pc' \in [Commands -> Labels] /\ at' \in [Commands -> Nat \ {0}]
                   /\ temps' \in [Commands -> [Paths -> {"none", "created", "filled", "synced"}]]
        BY <3>2, <3>4 DEF FilesFail, Labels, Removing, Ended
      <3>5. {"succeeded", "failed", "killed", "rollback", "rollback_files", "remove_archive",
             "preflight", "build", "recheck", "stage", "fill", "sync", "publish",
             "check_files", "stage_files", "publish_files"} \subseteq Labels
        BY DEF Labels, Staging, Removing, Ended
      <3>6. CASE Preflight(c) \/ Recheck(c) \/ CheckFiles(c)
        BY <2>4, <3>1, <3>2, <3>3, <3>4, <3>5, <3>6
           DEF Preflight, Recheck, CheckFiles, PathsFree, PathTaken
      <3>7. CASE BuildInMemory(c) \/ WriteToSink(c) \/ Kill(c)
        BY <2>4, <3>1, <3>2, <3>3, <3>5, <3>7 DEF BuildInMemory, WriteToSink, Kill
      <3>8. CASE CreateTemp(c) \/ WriteVolume(c) \/ SyncTemp(c) \/ StageFile(c)
        <4>1. pc' \in [Commands -> Labels] /\ at' \in [Commands -> Nat \ {0}]
          BY <3>1, <3>2, <3>3, <3>4, <3>5, <3>8
             DEF CreateTemp, WriteVolume, SyncTemp, StageFile
        <4>2. ASSUME NEW s \in {archive_paths(c), files(c)}, at[c] <= Len(s),
                     NEW l \in {"created", "filled", "synced"},
                     temps' = [temps EXCEPT ![c][s[at[c]]] = l]
              PROVE  temps' \in [Commands -> [Paths -> {"none", "created", "filled", "synced"}]]
          BY <2>4, <2>5, <4>2
        <4>3. temps' \in [Commands -> [Paths -> {"none", "created", "filled", "synced"}]]
          BY <2>4, <3>2, <3>4, <3>5, <3>8, <4>2
             DEF CreateTemp, WriteVolume, SyncTemp, StageFile, files
        <4>4. persisted' = persisted
          BY <3>8 DEF CreateTemp, WriteVolume, SyncTemp, StageFile
        <4> QED  BY <2>4, <4>1, <4>3, <4>4
      <3>9. CASE PublishArchive(c) \/ PublishFiles(c)
        <4>1. pc' \in [Commands -> Labels] /\ at' \in [Commands -> Nat \ {0}]
          BY <3>1, <3>3, <3>5, <3>9 DEF PublishArchive, PublishFiles, Publish
        <4>2. \/ temps' = temps /\ (persisted' = persisted \/ persisted' = [persisted EXCEPT ![c] = <<>>])
              \/ \E p \in Paths : Rename(c, p)
          BY <2>5, <3>9 DEF PublishArchive, PublishFiles, Publish, order, files
        <4>3. CASE /\ temps' = temps
                   /\ persisted' = persisted \/ persisted' = [persisted EXCEPT ![c] = <<>>]
          <5>1. <<>> \in Seq(Paths)
            OBVIOUS
          <5>2. persisted' \in [Commands -> Seq(Paths)]
            BY <2>4, <4>3, <5>1
          <5> QED  BY <2>4, <4>1, <4>3, <5>2
        <4>4. ASSUME NEW p \in Paths, Rename(c, p) PROVE T
          <5>1. persisted' = [persisted EXCEPT ![c] = Append(persisted[c], p)]
                /\ Append(persisted[c], p) \in Seq(Paths)
            BY <2>4, <4>4 DEF Rename
          <5>2. persisted' \in [Commands -> Seq(Paths)]
            BY <2>4, <5>1
          <5>3. temps' \in [Commands -> [Paths -> {"none", "created", "filled", "synced"}]]
            BY <2>4, <4>4 DEF Rename
          <5> QED  BY <4>1, <5>2, <5>3
        <4> QED  BY <4>2, <4>3, <4>4
      <3>10. CASE Rollback(c) \/ RollbackFiles(c) \/ RemoveArchive(c)
        BY <2>4, <3>2, <3>3, <3>4, <3>5, <3>10 DEF Rollback, RollbackFiles, RemoveArchive
      <3> QED  BY <1>3, <3>6, <3>7, <3>8, <3>9, <3>10 DEF Step
    <2> QED  BY <2>1, <2>2, <2>6 DEF TypeOK
  <1> QED  BY <1>1, <1>2, <1>3 DEF Next

-----------------------------------------------------------------------------
(***************************************************************************)
(* One command by itself                                                   *)
(***************************************************************************)

\* s begins with t.
begins(t, s) == Len(t) <= Len(s) /\ \A i \in 1 .. Len(t) : t[i] = s[i]

\* Which labels a kind of request reaches, what persisted_paths holds at each,
\* and that what is about to be renamed has been synced.
Control(c) ==
    /\ request[c].kind = "keypair" =>
          pc[c] \in {"preflight", "check_files", "stage_files", "publish_files",
                     "rollback_files"} \cup Ended
    /\ request[c].kind # "keypair"
         /\ pc[c] \in {"check_files", "stage_files", "publish_files", "rollback_files",
                       "remove_archive"} => request[c].bootstrap
    /\ pc[c] \in Staging \cup {"check_files", "stage_files"} => persisted[c] = <<>>
    /\ pc[c] = "sync" =>
          \A i \in 1 .. Len(archive_paths(c)) :
             i < at[c] => temps[c][archive_paths(c)[i]] = "synced"
    /\ pc[c] = "stage_files" =>
          \A i \in 1 .. Len(files(c)) : i < at[c] => temps[c][files(c)[i]] = "synced"
    /\ pc[c] = "publish" =>
          /\ Len(persisted[c]) = at[c] - 1 /\ begins(persisted[c], order(c))
          /\ \A i \in 1 .. Len(order(c)) : i >= at[c] => temps[c][order(c)[i]] = "synced"
    /\ pc[c] = "publish_files" =>
          /\ Len(persisted[c]) = at[c] - 1 /\ begins(persisted[c], files(c))
          /\ \A i \in 1 .. Len(files(c)) : i >= at[c] => temps[c][files(c)[i]] = "synced"
    /\ pc[c] = "rollback" =>
          begins(persisted[c], order(c)) /\ Len(persisted[c]) < Len(order(c))
    /\ pc[c] = "rollback_files" => begins(persisted[c], files(c))
    /\ pc[c] = "failed" => temps[c] = NoTemps

\* Renaming the next path of a list keeps persisted_paths a beginning of it and
\* leaves the others synced.
LEMMA RenameNext ==
    ASSUME TypeOK, NEW c \in Commands, NEW s, PathList(s),
           at[c] <= Len(s), Rename(c, s[at[c]]), Advance(c),
           Len(persisted[c]) = at[c] - 1, begins(persisted[c], s),
           \A i \in 1 .. Len(s) : i >= at[c] => temps[c][s[i]] = "synced"
    PROVE  /\ Len(persisted'[c]) = at'[c] - 1 /\ begins(persisted'[c], s)
           /\ \A i \in 1 .. Len(s) : i >= at'[c] => temps'[c][s[i]] = "synced"
  <1> DEFINE k == at[c]
             t == persisted[c]
  <1>1. k \in Nat \ {0} /\ at'[c] = k + 1
    BY DEF TypeOK, Advance
  <1>2. s \in Seq(Paths) /\ k \in 1 .. Len(s) /\ Len(s) \in Nat /\ s[k] \in Paths
    BY <1>1, PositionInList DEF PathList
  <1>3. t \in Seq(Paths) /\ persisted'[c] = Append(t, s[k])
    BY DEF TypeOK, Rename
  <1>4. Len(persisted'[c]) = k
        /\ \A i \in 1 .. k : persisted'[c][i] = IF i < k THEN t[i] ELSE s[k]
    BY <1>1, <1>2, <1>3
  <1>5. begins(persisted'[c], s)
    <2>1. \A i \in 1 .. k : i < k => i \in 1 .. Len(t) /\ t[i] = s[i]
      BY <1>1, <1>2 DEF begins
    <2>2. \A i \in 1 .. k : persisted'[c][i] = s[i]
      BY <1>1, <1>4, <2>1
    <2> QED  BY <1>2, <1>4, <2>2 DEF begins
  <1>6. ASSUME NEW i \in 1 .. Len(s), i >= k + 1
        PROVE  temps'[c][s[i]] = "synced"
    <2>1. s[i] # s[k] /\ temps[c][s[i]] = "synced" /\ s[i] \in Paths
      BY <1>1, <1>2, <1>6 DEF PathList
    <2>2. temps' = [temps EXCEPT ![c][s[k]] = "none"]
          /\ temps[c] \in [Paths -> {"none", "created", "filled", "synced"}]
      BY DEF Rename, TypeOK
    <2>3. temps'[c] = [temps[c] EXCEPT ![s[k]] = "none"]
      BY <2>2 DEF TypeOK
    <2> QED  BY <1>2, <2>1, <2>2, <2>3
  <1> QED  BY <1>1, <1>4, <1>5, <1>6

\* Syncing the next path of a list keeps those before it synced.
LEMMA SyncNext ==
    ASSUME TypeOK, NEW c \in Commands, NEW s, PathList(s), at[c] <= Len(s),
           temps' = [temps EXCEPT ![c][s[at[c]]] = "synced"], Advance(c),
           \A i \in 1 .. Len(s) : i < at[c] => temps[c][s[i]] = "synced"
    PROVE  \A i \in 1 .. Len(s) : i < at'[c] => temps'[c][s[i]] = "synced"
  <1>1. at[c] \in Nat \ {0} /\ at'[c] = at[c] + 1
    BY DEF TypeOK, Advance
  <1>2. s \in Seq(Paths)
    BY DEF PathList
  <1>3. temps[c] \in [Paths -> {"none", "created", "filled", "synced"}]
        /\ temps'[c] = [temps[c] EXCEPT ![s[at[c]]] = "synced"]
    BY DEF TypeOK
  <1> QED  BY <1>1, <1>2, <1>3

\* The control of a command is kept by its own steps.
LEMMA ControlStep ==
    ASSUME TypeOK, NEW c \in Commands, Control(c), Step(c) \/ Kill(c)
    PROVE  Control(c)'
  <1>1. request' = request
    BY Effects
  <1>2. /\ archive_paths(c)' = archive_paths(c) /\ order(c)' = order(c)
        /\ files(c)' = files(c)
    BY <1>1 DEF archive_paths, order, files, atomic_outputs
  <1>3. PathList(archive_paths(c)) /\ PathList(order(c)) /\ PathList(files(c))
        /\ Len(order(c)) = Len(archive_paths(c))
        /\ \A p : among(p, order(c)) => among(p, archive_paths(c))
    BY ArchivePaths, PublishOrder, AtomicPaths DEF TypeOK
  <1>4. /\ at[c] \in Nat \ {0} /\ persisted[c] \in Seq(Paths)
        /\ Len(order(c)) \in Nat /\ Len(files(c)) \in Nat /\ Len(archive_paths(c)) \in Nat
    BY <1>3 DEF TypeOK, PathList
  <1>5. /\ pc \in [Commands -> Labels] /\ at \in [Commands -> Nat \ {0}]
        /\ temps \in [Commands -> [Paths -> {"none", "created", "filled", "synced"}]]
        /\ persisted \in [Commands -> Seq(Paths)]
        /\ request[c].kind \in {"sink", "memory", "keypair"}
        /\ request[c].bootstrap => request[c].kind # "keypair"
    BY RequestType DEF TypeOK
  <1>6. \A l : Goto(c, l) => pc'[c] = l /\ at'[c] = 1
    BY <1>5 DEF Goto
  <1>7. \A l : Exit(c, l) => pc'[c] = l /\ at'[c] = 1 /\ temps'[c] = NoTemps
    BY <1>5, <1>6 DEF Exit
  <1>8. Advance(c) => pc'[c] = pc[c] /\ at'[c] = at[c] + 1
    BY <1>5 DEF Advance
  <1>9. begins(<<>>, order(c)) /\ begins(<<>>, files(c))
    BY <1>3, <1>4 DEF begins
  <1>10. CASE Preflight(c) \/ Recheck(c) \/ BuildInMemory(c) \/ Kill(c)
    <2> DEFINE Moves == /\ pc[c] \in Staging \ {"sync"}
                        /\ pc'[c] \in (Staging \ {"sync"}) \cup {"check_files", "failed"}
                        /\ pc'[c] = "check_files" => request[c].kind = "keypair"
                        /\ request[c].kind = "keypair" =>
                              pc'[c] \in {"preflight", "check_files", "failed"}
                        /\ pc'[c] = "failed" => temps'[c] = NoTemps
    <2>1. persisted' = persisted
      BY <1>10 DEF Preflight, Recheck, BuildInMemory, Kill
    <2>2. CASE Preflight(c)
      <3>1. \/ Advance(c) \/ Exit(c, "failed")
            \/ request[c].kind = "keypair" /\ Goto(c, "check_files")
            \/ request[c].kind = "memory" /\ Goto(c, "build")
            \/ request[c].kind = "sink" /\ Goto(c, "stage")
        BY <1>5, <2>2 DEF Preflight, PathsFree, PathTaken
      <3>2. pc[c] = "preflight"
        BY <2>2 DEF Preflight
      <3>3. Moves
        BY <1>6, <1>7, <1>8, <3>1, <3>2 DEF Staging
      <3> QED  BY <1>1, <1>2, <2>1, <3>3 DEF Control, Staging, Ended
    <2>3. CASE Recheck(c) \/ BuildInMemory(c)
      <3>1. /\ pc[c] \in {"recheck", "build"}
            /\ Advance(c) \/ Exit(c, "failed") \/ Goto(c, "recheck") \/ Goto(c, "stage")
        BY <2>3 DEF Recheck, BuildInMemory, PathsFree, PathTaken
      <3>2. request[c].kind # "keypair"
        BY <3>1 DEF Control, Ended
      <3>3. Moves
        BY <1>6, <1>7, <1>8, <3>1, <3>2 DEF Staging
      <3> QED  BY <1>1, <1>2, <2>1, <3>3 DEF Control, Staging, Ended
    <2>4. CASE Kill(c)
      <3>1. pc'[c] = "killed"
        BY <1>6, <2>4 DEF Kill
      <3> QED  BY <1>1, <1>2, <3>1 DEF Control, Staging, Ended
    <2> QED  BY <1>10, <2>2, <2>3, <2>4
  <1>11. CASE CreateTemp(c) \/ WriteToSink(c) \/ WriteVolume(c)
    <2>1. /\ pc[c] \in {"stage", "fill"} /\ persisted' = persisted
          /\ \/ pc'[c] \in {"stage", "fill"}
             \/ pc'[c] = "sync" /\ at'[c] = 1
             \/ pc'[c] = "failed" /\ temps'[c] = NoTemps
      BY <1>6, <1>7, <1>8, <1>11 DEF CreateTemp, WriteToSink, WriteVolume
    <2> QED  BY <1>1, <1>2, <1>4, <2>1 DEF Control, Staging, Ended
  <1>12. CASE SyncTemp(c)
    <2>1. pc[c] = "sync" /\ persisted' = persisted /\ persisted[c] = <<>>
      BY <1>12 DEF SyncTemp, Control, Staging
    <2>2. CASE at[c] <= Len(archive_paths(c))
               /\ temps' = [temps EXCEPT ![c][archive_paths(c)[at[c]]] = "synced"] /\ Advance(c)
      <3>1. \A i \in 1 .. Len(archive_paths(c)) :
               i < at'[c] => temps'[c][archive_paths(c)[i]] = "synced"
        BY <1>3, <2>1, <2>2, SyncNext DEF Control
      <3> QED  BY <1>1, <1>2, <1>8, <2>1, <2>2, <3>1 DEF Control, Staging, Ended
    <2>3. CASE at[c] > Len(archive_paths(c)) /\ Goto(c, "publish") /\ temps' = temps
      <3>1. \A i \in 1 .. Len(order(c)) : temps[c][order(c)[i]] = "synced"
        BY <1>3, <1>4, <2>1, <2>3, SMTT(40) DEF Control, among
      <3>2. Len(persisted'[c]) = at'[c] - 1 /\ begins(persisted'[c], order(c))
        BY <1>6, <1>9, <2>1, <2>3
      <3> QED  BY <1>1, <1>2, <1>6, <2>1, <2>3, <3>1, <3>2 DEF Control, Staging, Ended
    <2>4. CASE Exit(c, "failed")
      BY <1>1, <1>2, <1>7, <2>1, <2>4 DEF Control, Staging, Ended
    <2> QED  BY <1>12, <2>2, <2>3, <2>4 DEF SyncTemp
  <1>13. CASE PublishArchive(c)
    <2>1. pc[c] = "publish" /\ request[c].kind # "keypair"
      BY <1>13 DEF PublishArchive, Control, Ended
    <2>2. CASE at[c] <= Len(order(c)) /\ Rename(c, order(c)[at[c]]) /\ Advance(c)
      <3>1. /\ Len(persisted'[c]) = at'[c] - 1 /\ begins(persisted'[c], order(c))
            /\ \A i \in 1 .. Len(order(c)) : i >= at'[c] => temps'[c][order(c)[i]] = "synced"
        BY <1>3, <2>1, <2>2, RenameNext DEF Control
      <3> QED  BY <1>1, <1>2, <1>8, <2>1, <2>2, <3>1 DEF Control, Staging, Ended
    <2>3. CASE at[c] <= Len(order(c)) /\ Goto(c, "rollback") /\ persisted' = persisted
      <3>1. Len(persisted[c]) < Len(order(c))
        BY <1>4, <2>1, <2>3 DEF Control
      <3> QED  BY <1>1, <1>2, <1>6, <2>1, <2>3, <3>1 DEF Control, Staging, Ended
    <2>4. CASE /\ Goto(c, IF request[c].bootstrap THEN "check_files" ELSE "succeeded")
               /\ persisted' = [persisted EXCEPT ![c] = <<>>]
      <3>1. persisted'[c] = <<>>
        BY <1>5, <2>4
      <3> QED  BY <1>1, <1>2, <1>6, <2>1, <2>4, <3>1 DEF Control, Staging, Ended
    <2> QED  BY <1>13, <2>2, <2>3, <2>4 DEF PublishArchive, Publish, order
  <1>14. CASE Rollback(c) \/ RollbackFiles(c) \/ RemoveArchive(c)
    <2>1. /\ persisted' = persisted
          /\ \/ pc'[c] = pc[c] /\ pc[c] \in Removing
             \/ pc'[c] = "failed" /\ temps'[c] = NoTemps
             \/ /\ pc'[c] = "remove_archive" /\ request[c].kind # "keypair"
                /\ pc[c] = "rollback_files"
      BY <1>7, <1>8, <1>14
         DEF Rollback, RollbackFiles, RemoveArchive, FilesFail, Removing
    <2> QED  BY <1>1, <1>2, <1>5, <2>1 DEF Control, Staging, Ended, Removing
  <1>15. CASE CheckFiles(c)
    <2>1. /\ pc[c] = "check_files" /\ persisted' = persisted
          /\ \/ pc'[c] \in {"check_files", "stage_files"} /\ temps' = temps
             \/ pc'[c] = "failed" /\ temps'[c] = NoTemps
             \/ pc'[c] = "remove_archive" /\ request[c].kind # "keypair"
          /\ pc'[c] = "stage_files" => at'[c] = 1
      BY <1>6, <1>7, <1>8, <1>15 DEF CheckFiles, PathsFree, PathTaken, FilesFail
    <2> QED  BY <1>1, <1>2, <1>4, <2>1 DEF Control, Staging, Ended
  <1>16. CASE StageFile(c)
    <2>1. pc[c] = "stage_files" /\ persisted' = persisted /\ persisted[c] = <<>>
      BY <1>16 DEF StageFile, Control, Staging
    <2>2. CASE at[c] <= Len(files(c))
               /\ temps' = [temps EXCEPT ![c][files(c)[at[c]]] = "synced"] /\ Advance(c)
      <3>1. \A i \in 1 .. Len(files(c)) : i < at'[c] => temps'[c][files(c)[i]] = "synced"
        BY <1>3, <2>1, <2>2, SyncNext DEF Control
      <3> QED  BY <1>1, <1>2, <1>8, <2>1, <2>2, <3>1 DEF Control, Staging, Ended
    <2>3. CASE at[c] > Len(files(c)) /\ Goto(c, "publish_files") /\ temps' = temps
      <3>1. \A i \in 1 .. Len(files(c)) : temps[c][files(c)[i]] = "synced"
        BY <1>4, <2>1, <2>3 DEF Control
      <3>2. Len(persisted'[c]) = at'[c] - 1 /\ begins(persisted'[c], files(c))
        BY <1>6, <1>9, <2>1, <2>3
      <3> QED  BY <1>1, <1>2, <1>6, <2>1, <2>3, <3>1, <3>2 DEF Control, Staging, Ended
    <2>4. CASE FilesFail(c)
      BY <1>1, <1>2, <1>5, <1>7, <2>1, <2>4 DEF FilesFail, Control, Staging, Ended
    <2> QED  BY <1>16, <2>2, <2>3, <2>4 DEF StageFile, files
  <1>17. CASE PublishFiles(c)
    <2>1. pc[c] = "publish_files"
      BY <1>17 DEF PublishFiles
    <2>2. CASE at[c] <= Len(files(c)) /\ Rename(c, files(c)[at[c]]) /\ Advance(c)
      <3>1. /\ Len(persisted'[c]) = at'[c] - 1 /\ begins(persisted'[c], files(c))
            /\ \A i \in 1 .. Len(files(c)) : i >= at'[c] => temps'[c][files(c)[i]] = "synced"
        BY <1>3, <2>1, <2>2, RenameNext DEF Control
      <3> QED  BY <1>1, <1>2, <1>8, <2>1, <2>2, <3>1 DEF Control, Staging, Ended
    <2>3. CASE Goto(c, "rollback_files") /\ persisted' = persisted
      BY <1>1, <1>2, <1>6, <2>1, <2>3 DEF Control, Staging, Ended
    <2>4. CASE Goto(c, "succeeded")
      BY <1>1, <1>2, <1>6, <2>1, <2>4 DEF Control, Staging, Ended
    <2> QED  BY <1>17, <2>2, <2>3, <2>4 DEF PublishFiles, Publish, files
  <1> QED  BY <1>10, <1>11, <1>12, <1>13, <1>14, <1>15, <1>16, <1>17 DEF Step

-----------------------------------------------------------------------------
(***************************************************************************)
(* What a command owns                                                     *)
(***************************************************************************)

\* The archive of a create that has been published.
kept(c, p) == request[c].kind # "keypair" /\ among(p, archive_paths(c))

\* A command may own a path only if it is one of its outputs that it has renamed
\* and not yet removed, or that could not be removed.
MayOwn(c, p) ==
    /\ among(p, outputs(c))
    /\ pc[c] \notin Staging
    /\ pc[c] = "publish" => before(p, order(c), at[c])
    /\ pc[c] \in {"check_files", "stage_files"} => kept(c, p)
    /\ pc[c] = "publish_files" => kept(c, p) \/ before(p, files(c), at[c])
    /\ pc[c] = "rollback" => from(p, persisted[c], at[c]) \/ <<c, p>> \in stuck
    /\ pc[c] = "rollback_files" =>
          kept(c, p) \/ from(p, persisted[c], at[c]) \/ <<c, p>> \in stuck
    /\ pc[c] = "remove_archive" => from(p, archive_paths(c), at[c]) \/ <<c, p>> \in stuck
    /\ pc[c] = "failed" => <<c, p>> \in stuck

\* It must own what it has renamed and has not begun to remove.
MustOwn(c, p) ==
    \/ pc[c] = "publish" /\ before(p, order(c), at[c])
    \/ pc[c] \in {"check_files", "stage_files", "publish_files", "rollback_files"} /\ kept(c, p)
    \/ pc[c] = "publish_files" /\ before(p, files(c), at[c])
    \/ pc[c] \in {"rollback", "rollback_files"} /\ from(p, persisted[c], at[c])
    \/ pc[c] = "remove_archive" /\ from(p, archive_paths(c), at[c])
    \/ pc[c] = "succeeded" /\ among(p, outputs(c))

\* Going one element further in a list.
LEMMA FromNext ==
    ASSUME NEW s, PathList(s), NEW k \in Nat \ {0}, NEW p
    PROVE  /\ from(p, s, k) <=> from(p, s, k + 1) \/ (k <= Len(s) /\ p = s[k])
           /\ before(p, s, k + 1) <=> before(p, s, k) \/ (k <= Len(s) /\ p = s[k])
           /\ k <= Len(s) => ~from(s[k], s, k + 1)
           /\ from(p, s, 1) <=> among(p, s)
           /\ ~before(p, s, 1)
           /\ k > Len(s) => ~from(p, s, k) /\ (before(p, s, k) <=> among(p, s))
           /\ from(p, s, k) \/ before(p, s, k) => among(p, s)
  <1>1. Len(s) \in Nat /\ \A i, j \in 1 .. Len(s) : s[i] = s[j] => i = j
    BY DEF PathList
  <1>2. from(p, s, k) <=> from(p, s, k + 1) \/ (k <= Len(s) /\ p = s[k])
    BY <1>1 DEF from
  <1>3. before(p, s, k + 1) <=> before(p, s, k) \/ (k <= Len(s) /\ p = s[k])
    BY <1>1 DEF before
  <1>4. k <= Len(s) => ~from(s[k], s, k + 1)
    BY <1>1 DEF from
  <1> QED  BY <1>1, <1>2, <1>3, <1>4 DEF from, before, among

\* A beginning of a list of different paths is one.
LEMMA BeginsList ==
    ASSUME NEW s, PathList(s), NEW t, t \in Seq(Paths), begins(t, s), NEW k \in Nat
    PROVE  /\ PathList(t)
           /\ \A p : among(p, t) => among(p, s)
           /\ Len(t) = k - 1 => \A p : among(p, t) <=> before(p, s, k)
  <1>1. Len(s) \in Nat /\ Len(t) \in Nat /\ Len(t) <= Len(s)
        /\ \A i \in 1 .. Len(t) : i \in 1 .. Len(s) /\ t[i] = s[i]
    BY DEF PathList, begins
  <1>2. PathList(t)
    BY <1>1 DEF PathList
  <1>3. \A p : among(p, t) => among(p, s)
    BY <1>1 DEF among
  <1>4. ASSUME Len(t) = k - 1, NEW p PROVE among(p, t) <=> before(p, s, k)
    BY <1>1, <1>4 DEF among, before
  <1> QED  BY <1>2, <1>3, <1>4

\* What a command's own step does to what it may and must own.
LEMMA OwnStep ==
    ASSUME TypeOK, NEW c \in Commands, Control(c), Step(c) \/ Kill(c), NEW p \in Paths
    PROVE  /\ MayOwn(c, p) => MayOwn(c, p)' \/ Removes(c, p)
           /\ Renames(c, p) => MayOwn(c, p)'
           /\ MustOwn(c, p)' => MustOwn(c, p) \/ Renames(c, p)
           /\ Removes(c, p) => ~MustOwn(c, p)'
  <1> DEFINE Claim == /\ MayOwn(c, p) => MayOwn(c, p)' \/ Removes(c, p)
                      /\ Renames(c, p) => MayOwn(c, p)'
                      /\ MustOwn(c, p)' => MustOwn(c, p) \/ Renames(c, p)
                      /\ Removes(c, p) => ~MustOwn(c, p)'
  <1>1. request' = request /\ stuck \subseteq stuck'
    BY Effects
  <1>2. /\ archive_paths(c)' = archive_paths(c) /\ order(c)' = order(c)
        /\ files(c)' = files(c) /\ outputs(c)' = outputs(c)
        /\ kept(c, p)' = kept(c, p)
    BY <1>1 DEF archive_paths, order, files, atomic_outputs, outputs, kept
  <1>3. /\ PathList(archive_paths(c)) /\ PathList(order(c)) /\ PathList(files(c))
        /\ Len(order(c)) = Len(archive_paths(c))
        /\ among(p, order(c)) <=> among(p, archive_paths(c))
        /\ among(p, files(c)) => ~kept(c, p)
        /\ among(p, outputs(c)) <=> kept(c, p) \/ among(p, files(c))
    BY ArchivePaths, PublishOrder, AtomicPaths, Outputs DEF TypeOK, kept
  <1>4. /\ at[c] \in Nat \ {0} /\ persisted[c] \in Seq(Paths)
        /\ Len(order(c)) \in Nat /\ Len(files(c)) \in Nat /\ Len(archive_paths(c)) \in Nat
    BY <1>3 DEF TypeOK, PathList
  <1>5. /\ pc \in [Commands -> Labels] /\ at \in [Commands -> Nat \ {0}]
        /\ temps \in [Commands -> [Paths -> {"none", "created", "filled", "synced"}]]
        /\ persisted \in [Commands -> Seq(Paths)]
        /\ request[c].kind \in {"sink", "memory", "keypair"}
        /\ request[c].bootstrap => request[c].kind # "keypair"
    BY RequestType DEF TypeOK
  <1>6. \A l : Goto(c, l) => pc'[c] = l /\ at'[c] = 1
    BY <1>5 DEF Goto
  <1>7. \A l : Exit(c, l) => pc'[c] = l /\ at'[c] = 1
    BY <1>5, <1>6 DEF Exit
  <1>8. Advance(c) => pc'[c] = pc[c] /\ at'[c] = at[c] + 1
    BY <1>5 DEF Advance
  <1>9. CASE Kill(c)
    <2>1. pc'[c] = "killed" /\ ~Renames(c, p) /\ ~Removes(c, p)
      BY <1>5, <1>6, <1>8, <1>9 DEF Kill, Renames, Removes, Labels, Staging, Ended, Removing
    <2> QED  BY <1>1, <1>2, <2>1 DEF MayOwn, MustOwn, Staging
  <1>10. CASE \/ Preflight(c) \/ Recheck(c) \/ BuildInMemory(c)
              \/ CreateTemp(c) \/ WriteToSink(c) \/ WriteVolume(c) \/ SyncTemp(c)
    <2>1. pc[c] \in Staging
      BY <1>10 DEF Preflight, Recheck, BuildInMemory, CreateTemp, WriteToSink, WriteVolume,
                   SyncTemp, Staging
    <2>2. ~MayOwn(c, p) /\ ~Renames(c, p) /\ ~Removes(c, p)
      BY <2>1 DEF MayOwn, Renames, Removes, Staging, Removing
    <2>3. \/ pc'[c] \in Staging \cup {"failed"}
          \/ pc'[c] = "publish" /\ at'[c] = 1
          \/ pc'[c] = "check_files" /\ request[c].kind = "keypair"
      <3>1. CASE Preflight(c)
        <4>1. \/ Advance(c) \/ Exit(c, "failed")
              \/ request[c].kind = "keypair" /\ Goto(c, "check_files")
              \/ request[c].kind = "memory" /\ Goto(c, "build")
              \/ request[c].kind = "sink" /\ Goto(c, "stage")
          BY <1>5, <3>1 DEF Preflight, PathsFree, PathTaken
        <4> QED  BY <1>6, <1>7, <1>8, <2>1, <4>1 DEF Staging
      <3>2. CASE \/ Recheck(c) \/ BuildInMemory(c) \/ CreateTemp(c) \/ WriteToSink(c)
                 \/ WriteVolume(c) \/ SyncTemp(c)
        <4>1. \/ Advance(c) \/ Exit(c, "failed") \/ Goto(c, "recheck") \/ Goto(c, "stage")
              \/ Goto(c, "fill") \/ Goto(c, "sync") \/ Goto(c, "publish")
          BY <3>2 DEF Recheck, BuildInMemory, CreateTemp, WriteToSink, WriteVolume, SyncTemp,
                      PathsFree, PathTaken
        <4> QED  BY <1>6, <1>7, <1>8, <2>1, <4>1 DEF Staging
      <3> QED  BY <1>10, <3>1, <3>2
    <2>4. pc'[c] = "publish" => ~before(p, order(c), at'[c])
      BY <1>3, <2>3, FromNext DEF Staging
    <2>5. ~MustOwn(c, p)'
      BY <1>1, <1>2, <2>3, <2>4 DEF MustOwn, Staging, kept
    <2> QED  BY <2>2, <2>5
  <1>11. CASE PublishArchive(c)
    <2>1. pc[c] = "publish" /\ request[c].kind # "keypair"
          /\ Len(persisted[c]) = at[c] - 1 /\ begins(persisted[c], order(c))
      BY <1>11 DEF PublishArchive, Control, Ended
    <2>2. ~Removes(c, p) /\ (Renames(c, p) => p = order(c)[at[c]] /\ pc'[c] = pc[c])
      BY <1>8, <2>1 DEF Removes, Renames, Removing
    <2>3. CASE at[c] <= Len(order(c)) /\ Rename(c, order(c)[at[c]]) /\ Advance(c)
               /\ stuck' = stuck
      <3>1. pc'[c] = "publish" /\ at'[c] = at[c] + 1
        BY <1>8, <2>1, <2>3
      <3>2. before(p, order(c), at'[c]) <=> before(p, order(c), at[c]) \/ p = order(c)[at[c]]
        BY <1>3, <1>4, <2>3, <3>1, FromNext, SMTT(40)
      <3>3. before(p, order(c), at'[c]) => among(p, outputs(c))
        BY <1>3, <1>4, <2>1, <3>1, FromNext DEF kept
      <3>4. p = order(c)[at[c]] => Renames(c, p)
        BY <2>1, <2>3 DEF Rename, Renames
      <3> QED  BY <1>1, <1>2, <2>1, <2>2, <3>1, <3>2, <3>3, <3>4 DEF MayOwn, MustOwn, Staging
    <2>4. CASE at[c] <= Len(order(c)) /\ Goto(c, "rollback") /\ persisted' = persisted
      <3>1. pc'[c] = "rollback" /\ at'[c] = 1 /\ persisted'[c] = persisted[c]
        BY <1>6, <2>4
      <3>2. PathList(persisted[c]) /\ (among(p, persisted[c]) <=> before(p, order(c), at[c]))
        BY <1>3, <1>4, <2>1, BeginsList
      <3>3. from(p, persisted[c], 1) <=> before(p, order(c), at[c])
        BY <3>2, FromNext
      <3> QED  BY <1>1, <1>2, <2>1, <2>2, <3>1, <3>3 DEF MayOwn, MustOwn, Staging
    <2>5. CASE /\ at[c] > Len(order(c))
               /\ Goto(c, IF request[c].bootstrap THEN "check_files" ELSE "succeeded")
      <3>1. before(p, order(c), at[c]) <=> among(p, order(c))
        BY <1>3, <1>4, <2>5, FromNext
      <3>2. before(p, order(c), at[c]) <=> kept(c, p)
        BY <1>3, <2>1, <3>1 DEF kept
      <3>3. ~request[c].bootstrap => ~among(p, files(c))
        BY <2>1 DEF files, atomic_outputs, among
      <3>4. pc'[c] \in {"check_files", "succeeded"}
            /\ (pc'[c] = "succeeded" => ~request[c].bootstrap)
        BY <1>6, <2>5
      <3> QED  BY <1>1, <1>2, <1>3, <2>1, <2>2, <3>2, <3>3, <3>4 DEF MayOwn, MustOwn, Staging
    <2> QED  BY <1>11, <2>3, <2>4, <2>5 DEF PublishArchive, Publish, order
  <1>12. CASE CheckFiles(c) \/ StageFile(c)
    <2>1. pc[c] \in {"check_files", "stage_files"} /\ persisted' = persisted
      BY <1>12 DEF CheckFiles, StageFile
    <2>2. ~Removes(c, p) /\ ~Renames(c, p)
      BY <2>1 DEF Removes, Renames, Removing
    <2>3. \/ pc'[c] \in {"check_files", "stage_files"}
          \/ pc'[c] = "publish_files" /\ at'[c] = 1
          \/ pc'[c] = "failed" /\ request[c].kind = "keypair"
          \/ pc'[c] = "remove_archive" /\ at'[c] = 1 /\ request[c].kind # "keypair"
      BY <1>6, <1>7, <1>8, <1>12, <2>1
         DEF CheckFiles, StageFile, PathsFree, PathTaken, FilesFail
    <2>4. ~before(p, files(c), 1) /\ (from(p, archive_paths(c), 1) <=> among(p, archive_paths(c)))
      BY <1>3, FromNext
    <2> QED  BY <1>1, <1>2, <2>1, <2>2, <2>3, <2>4 DEF MayOwn, MustOwn, Staging, kept
  <1>13. CASE PublishFiles(c)
    <2>1. pc[c] = "publish_files"
          /\ Len(persisted[c]) = at[c] - 1 /\ begins(persisted[c], files(c))
      BY <1>13 DEF PublishFiles, Control
    <2>2. ~Removes(c, p) /\ (Renames(c, p) => p = files(c)[at[c]] /\ pc'[c] = pc[c])
      BY <1>8, <2>1 DEF Removes, Renames, Removing
    <2>3. CASE at[c] <= Len(files(c)) /\ Rename(c, files(c)[at[c]]) /\ Advance(c)
               /\ stuck' = stuck
      <3>1. pc'[c] = "publish_files" /\ at'[c] = at[c] + 1
        BY <1>8, <2>1, <2>3
      <3>2. before(p, files(c), at'[c]) <=> before(p, files(c), at[c]) \/ p = files(c)[at[c]]
        BY <1>3, <1>4, <2>3, <3>1, FromNext, SMTT(40)
      <3>3. before(p, files(c), at'[c]) => among(p, outputs(c))
        BY <1>3, <1>4, <2>1, <3>1, FromNext
      <3>4. p = files(c)[at[c]] => Renames(c, p)
        BY <2>1, <2>3 DEF Rename, Renames
      <3> QED  BY <1>1, <1>2, <2>1, <2>2, <3>1, <3>2, <3>3, <3>4 DEF MayOwn, MustOwn, Staging
    <2>4. CASE Goto(c, "rollback_files") /\ persisted' = persisted
      <3>1. pc'[c] = "rollback_files" /\ at'[c] = 1 /\ persisted'[c] = persisted[c]
        BY <1>6, <2>4
      <3>2. PathList(persisted[c]) /\ (among(p, persisted[c]) <=> before(p, files(c), at[c]))
        BY <1>3, <1>4, <2>1, BeginsList
      <3>3. from(p, persisted[c], 1) <=> before(p, files(c), at[c])
        BY <3>2, FromNext
      <3> QED  BY <1>1, <1>2, <2>1, <2>2, <3>1, <3>3 DEF MayOwn, MustOwn, Staging
    <2>5. CASE at[c] > Len(files(c)) /\ Goto(c, "succeeded")
      <3>1. before(p, files(c), at[c]) <=> among(p, files(c))
        BY <1>3, <1>4, <2>5, FromNext
      <3>2. pc'[c] = "succeeded"
        BY <1>6, <2>5
      <3> QED  BY <1>1, <1>2, <1>3, <2>1, <2>2, <3>1, <3>2 DEF MayOwn, MustOwn, Staging
    <2> QED  BY <1>13, <2>3, <2>4, <2>5 DEF PublishFiles, Publish, files
  <1>14. CASE Rollback(c) \/ RollbackFiles(c) \/ RemoveArchive(c)
    <2> DEFINE s == removal_list(c)
    <2>1. pc[c] \in Removing /\ persisted' = persisted
      BY <1>14 DEF Rollback, RollbackFiles, RemoveArchive, Removing
    <2>2. PathList(s)
      BY <1>3, <1>4, <2>1, BeginsList DEF removal_list, Control, Removing
    <2>3. ~Renames(c, p)
      BY <2>1 DEF Renames, Removing
    <2>4. pc[c] = "rollback_files" => (among(p, s) => ~kept(c, p))
      BY <1>3, <1>4, <2>1, BeginsList DEF removal_list, Control
    <2>5. CASE at[c] <= Len(s) /\ Remove(c, s[at[c]]) /\ Advance(c) /\ UNCHANGED temps
      <3>1. pc'[c] = pc[c] /\ at'[c] = at[c] + 1 /\ persisted'[c] = persisted[c]
        BY <1>8, <2>1, <2>5
      <3>2. from(p, s, at[c]) <=> from(p, s, at'[c]) \/ p = s[at[c]]
        BY <1>4, <2>2, <2>5, <3>1, FromNext, SMTT(40)
      <3>3. ~from(s[at[c]], s, at'[c])
        BY <1>4, <2>2, <2>5, <3>1, FromNext
      <3>4. p = s[at[c]] => Removes(c, p) \/ <<c, p>> \in stuck'
        BY <2>1, <2>5 DEF Remove, Removes
      <3>5. p = s[at[c]] => among(p, s)
        BY <1>4, <2>2, <2>5, <3>2, FromNext
      <3>6. Removes(c, p) => p = s[at[c]]
        BY DEF Removes
      <3>7. removal_list(c)' = s
        BY <1>2, <3>1 DEF removal_list
      <3> HIDE DEF s
      <3>8. /\ pc[c] = "remove_archive" => s = archive_paths(c)
            /\ pc[c] # "remove_archive" => s = persisted[c]
        BY DEF s, removal_list
      <3>9. CASE pc[c] = "rollback"
        BY <1>1, <1>2, <2>3, <3>1, <3>2, <3>3, <3>4, <3>6, <3>8, <3>9 DEF MayOwn, MustOwn, Staging
      <3>10. CASE pc[c] = "rollback_files"
        BY <1>1, <1>2, <2>3, <2>4, <3>1, <3>2, <3>3, <3>4, <3>5, <3>6, <3>8, <3>10
           DEF MayOwn, MustOwn, Staging
      <3>11. CASE pc[c] = "remove_archive"
        BY <1>1, <1>2, <2>3, <3>1, <3>2, <3>3, <3>4, <3>6, <3>8, <3>11 DEF MayOwn, MustOwn, Staging
      <3> QED  BY <2>1, <3>9, <3>10, <3>11 DEF Removing
    <2>6. CASE at[c] > Len(s) /\ UNCHANGED stuck
               /\ (\/ pc'[c] = "failed" /\ (pc[c] = "rollback_files" => request[c].kind = "keypair")
                   \/ /\ pc[c] = "rollback_files" /\ request[c].kind # "keypair"
                      /\ pc'[c] = "remove_archive" /\ at'[c] = 1)
      <3>1. ~from(p, s, at[c]) /\ ~Removes(c, p)
        BY <1>4, <2>2, <2>6, FromNext DEF Removes
      <3>2. from(p, archive_paths(c), 1) <=> among(p, archive_paths(c))
        BY <1>3, FromNext
      <3> QED  BY <1>1, <1>2, <2>1, <2>3, <2>6, <3>1, <3>2
                  DEF MayOwn, MustOwn, Staging, kept, removal_list, Removing
    <2> QED  BY <1>7, <1>14, <2>1, <2>5, <2>6
                DEF Rollback, RollbackFiles, RemoveArchive, FilesFail, removal_list, rollback_paths
  <1> QED  BY <1>9, <1>10, <1>11, <1>12, <1>13, <1>14 DEF Step

-----------------------------------------------------------------------------
(***************************************************************************)
(* All the commands, with or without --force                               *)
(***************************************************************************)

Upper == \A c \in Commands : \A p \in Paths : owns(c, p) => MayOwn(c, p)

\* The removals that failed are removals of a rollback.
StuckInRollback(c) ==
    \A p \in Paths : <<c, p>> \in stuck =>
        /\ pc[c] \in Removing \cup {"failed", "killed"}
        /\ pc[c] = "rollback" => among(p, persisted[c])

BaseInv ==
    /\ TypeOK
    /\ \A c \in Commands : Control(c) /\ StuckInRollback(c)
    /\ Upper
    /\ \A p \in Paths : fs[p].synced

\* A file as another than its command sees it.
LEMMA FileFields ==
    /\ \A by, b : file(by, b).by = by /\ file(by, b).synced = b
    /\ Absent.by = "none" /\ Absent.synced
    /\ \A c \in Commands : c # "none" /\ c # "old" /\ c # "visitor"
  BY RequestAssumption DEF file, Absent

\* What a step of a command does to one path.
LEMMA PathEffect ==
    ASSUME TypeOK, NEW c \in Commands, Step(c) \/ Kill(c), NEW p \in Paths
    PROVE  \/ fs'[p] = fs[p] /\ ~Renames(c, p)
           \/ Renames(c, p) /\ fs'[p] = file(c, temps[c][p] = "synced")
           \/ Removes(c, p) /\ fs'[p] = Absent
  <1>1. fs \in [Paths -> Files]
    BY DEF TypeOK
  <1>2. \A q \in Paths : Renames(c, q) => fs'[q] = file(c, temps[c][q] = "synced")
    BY <1>1 DEF Renames
  <1>3. \A q \in Paths : Removes(c, q) => fs'[q] = Absent
    BY <1>1 DEF Removes
  <1>4. \A q \in Paths : q # p /\ (Renames(c, q) \/ Removes(c, q)) => fs'[p] = fs[p]
    BY <1>1 DEF Renames, Removes
  <1>5. fs' = fs \/ \E q \in Paths : Renames(c, q) \/ Removes(c, q)
    BY Effects
  <1> QED  BY <1>2, <1>3, <1>4, <1>5

\* A path is renamed only when it has been synced.
LEMMA RenamedIsSynced ==
    ASSUME TypeOK, NEW c \in Commands, Control(c), NEW p \in Paths, Renames(c, p)
    PROVE  fs'[p] = file(c, TRUE)
  <1>1. at[c] \in Nat \ {0} /\ order(c) \in Seq(Paths) /\ files(c) \in Seq(Paths)
    BY PublishOrder, AtomicPaths DEF TypeOK, PathList
  <1>2. CASE pc[c] = "publish" /\ at[c] <= Len(order(c)) /\ p = order(c)[at[c]]
    <2>1. at[c] \in 1 .. Len(order(c)) /\ at[c] >= at[c]
      BY <1>1, <1>2
    <2> QED  BY <1>2, <2>1 DEF Control, Renames, TypeOK
  <1>3. CASE pc[c] = "publish_files" /\ at[c] <= Len(files(c)) /\ p = files(c)[at[c]]
    <2>1. at[c] \in 1 .. Len(files(c)) /\ at[c] >= at[c]
      BY <1>1, <1>3
    <2> QED  BY <1>3, <2>1 DEF Control, Renames, TypeOK
  <1> QED  BY <1>2, <1>3 DEF Renames

\* Failed removals, step by step.
LEMMA StuckStep ==
    ASSUME TypeOK, NEW c \in Commands, Step(c) \/ Kill(c)
    PROVE  /\ \A d \in Commands \ {c} : \A p : <<d, p>> \in stuck' <=> <<d, p>> \in stuck
           /\ Control(c) /\ StuckInRollback(c) => StuckInRollback(c)'
  <1>1. \/ stuck' = stuck
        \/ /\ pc[c] \in Removing /\ at[c] <= Len(removal_list(c))
           /\ stuck' = stuck \cup {<<c, removal_list(c)[at[c]]>>}
           /\ Advance(c) /\ persisted' = persisted
    BY DEF Step, Kill, Preflight, BuildInMemory, Recheck, CreateTemp, WriteToSink, WriteVolume,
           SyncTemp, PublishArchive, Rollback, CheckFiles, StageFile, PublishFiles,
           RollbackFiles, RemoveArchive, Remove, removal_list, rollback_paths, Removing
  <1>2. \A d \in Commands \ {c} : \A p : <<d, p>> \in stuck' <=> <<d, p>> \in stuck
    BY <1>1
  <1>3. ASSUME StuckInRollback(c), Control(c), NEW p \in Paths, <<c, p>> \in stuck'
        PROVE  /\ pc'[c] \in Removing \cup {"failed", "killed"}
               /\ pc'[c] = "rollback" => among(p, persisted'[c])
    <2>1. at[c] \in Nat \ {0} /\ persisted[c] \in Seq(Paths)
          /\ pc \in [Commands -> Labels] /\ at \in [Commands -> Nat \ {0}]
      BY DEF TypeOK
    <2>2. CASE <<c, p>> \in stuck
      <3>1. pc[c] \in Removing \cup {"failed", "killed"}
            /\ (pc[c] = "rollback" => among(p, persisted[c]))
        BY <1>3, <2>2 DEF StuckInRollback
      <3>2. /\ pc'[c] \in Removing \cup {"failed", "killed"}
            /\ pc'[c] = "rollback" => pc[c] = "rollback" /\ persisted' = persisted
        BY <2>1, <3>1 DEF Step, Kill, Preflight, BuildInMemory, Recheck, CreateTemp, WriteToSink,
             WriteVolume, SyncTemp, PublishArchive, Rollback, CheckFiles, StageFile, PublishFiles,
             RollbackFiles, RemoveArchive, FilesFail, Exit, Goto, Advance, Removing, Ended
      <3> QED  BY <3>1, <3>2
    <2>3. CASE <<c, p>> \notin stuck
      <3>1. pc[c] \in Removing /\ pc'[c] = pc[c] /\ persisted' = persisted
            /\ at[c] <= Len(removal_list(c)) /\ p = removal_list(c)[at[c]]
        BY <1>1, <1>3, <2>1, <2>3 DEF Advance
      <3>2. pc[c] = "rollback" => among(p, persisted[c])
        BY <2>1, <3>1 DEF removal_list, among
      <3> QED  BY <3>1, <3>2
    <2> QED  BY <2>2, <2>3
  <1> QED  BY <1>2, <1>3 DEF StuckInRollback

\* The steps of one command leave the control of another alone.
LEMMA OtherControl ==
    ASSUME TypeOK, NEW c \in Commands, NEW d \in Commands, c # d, Step(c) \/ Kill(c)
    PROVE  /\ Control(d) => Control(d)'
           /\ StuckInRollback(d) => StuckInRollback(d)'
           /\ \A p \in Paths : MayOwn(d, p) => MayOwn(d, p)'
           /\ \A p \in Paths : MustOwn(d, p)' => MustOwn(d, p)
  <1>1. /\ request' = request /\ pc'[d] = pc[d] /\ at'[d] = at[d]
        /\ temps'[d] = temps[d] /\ persisted'[d] = persisted[d]
        /\ \A p : <<d, p>> \in stuck' <=> <<d, p>> \in stuck
    BY Effects, StuckStep
  <1>2. /\ archive_paths(d)' = archive_paths(d) /\ order(d)' = order(d)
        /\ files(d)' = files(d) /\ outputs(d)' = outputs(d)
        /\ \A p : kept(d, p)' = kept(d, p)
    BY <1>1 DEF archive_paths, order, files, atomic_outputs, outputs, kept
  <1>3. Control(d) => Control(d)'
    BY <1>1, <1>2 DEF Control
  <1>4. StuckInRollback(d) => StuckInRollback(d)'
    BY <1>1 DEF StuckInRollback
  <1>5. \A p \in Paths : MayOwn(d, p) => MayOwn(d, p)'
    BY <1>1, <1>2 DEF MayOwn
  <1>6. \A p \in Paths : MustOwn(d, p)' => MustOwn(d, p)
    BY <1>1, <1>2 DEF MustOwn
  <1> QED  BY <1>3, <1>4, <1>5, <1>6

\* So do the steps of other programs.
LEMMA VisitorControl ==
    ASSUME TypeOK, Visit \/ UNCHANGED vars, NEW d \in Commands
    PROVE  /\ request' = request
           /\ Control(d) => Control(d)'
           /\ StuckInRollback(d) => StuckInRollback(d)'
           /\ \A p \in Paths : MayOwn(d, p) => MayOwn(d, p)'
           /\ \A p \in Paths : MustOwn(d, p)' => MustOwn(d, p)
           /\ \A p \in Paths : \/ fs'[p] = fs[p]
                               \/ fs[p] = Absent /\ fs'[p] = file("visitor", TRUE)
  <1>1. UNCHANGED <<request, pc, at, temps, persisted, stuck>>
    BY DEF Visit, vars
  <1>2. /\ archive_paths(d)' = archive_paths(d) /\ order(d)' = order(d)
        /\ files(d)' = files(d) /\ outputs(d)' = outputs(d)
        /\ \A p : kept(d, p)' = kept(d, p)
    BY <1>1 DEF archive_paths, order, files, atomic_outputs, outputs, kept
  <1>3. Control(d) => Control(d)'
    BY <1>1, <1>2 DEF Control
  <1>4. StuckInRollback(d) => StuckInRollback(d)'
    BY <1>1 DEF StuckInRollback
  <1>5. \A p \in Paths : MayOwn(d, p) => MayOwn(d, p)'
    BY <1>1, <1>2 DEF MayOwn
  <1>6. \A p \in Paths : MustOwn(d, p)' => MustOwn(d, p)
    BY <1>1, <1>2 DEF MustOwn
  <1>7. \A p \in Paths : \/ fs'[p] = fs[p]
                         \/ fs[p] = Absent /\ fs'[p] = file("visitor", TRUE)
    BY DEF Visit, vars, exists, TypeOK
  <1> QED  BY <1>1, <1>3, <1>4, <1>5, <1>6, <1>7

\* Nothing is owned at the start.
LEMMA BaseInit == Init => BaseInv
  <1> SUFFICES ASSUME Init PROVE BaseInv
    OBVIOUS
  <1>1. \A p \in Paths : fs[p].synced /\ fs[p].by \in {"none", "old"}
    <2>1. \A p \in Paths : fs[p] \in {file("old", TRUE), Absent}
      BY DEF Init
    <2> QED  BY <2>1 DEF file, Absent
  <1>2. Upper
    BY <1>1, FileFields DEF Upper, owns
  <1>3. \A c \in Commands : Control(c) /\ StuckInRollback(c)
    BY DEF Init, Control, StuckInRollback, Staging, Ended
  <1> QED  BY <1>1, <1>2, <1>3, TypeInit DEF BaseInv

\* Every step keeps the invariant: a command's own step moves what it may own
\* along its lists, and the steps of others take from it and never add.
LEMMA BaseStep == BaseInv /\ [Next]_vars => BaseInv'
  <1> SUFFICES ASSUME BaseInv, [Next]_vars PROVE BaseInv'
    OBVIOUS
  <1>1. TypeOK /\ TypeOK'
    BY TypeStep DEF BaseInv
  <1>2. CASE Visit \/ UNCHANGED vars
    <2>1. \A c \in Commands : Control(c)' /\ StuckInRollback(c)'
      BY <1>1, <1>2, VisitorControl DEF BaseInv
    <2>2. \A p \in Paths : fs'[p] = fs[p] \/ fs'[p] = file("visitor", TRUE)
      BY <1>1, <1>2 DEF Visit, vars, TypeOK
    <2>3. \A p \in Paths : fs'[p].synced
      BY <2>2, FileFields DEF BaseInv
    <2>4. \A c \in Commands : \A p \in Paths : fs'[p].by = c => MayOwn(c, p)'
      <3> SUFFICES ASSUME NEW c \in Commands, NEW p \in Paths, fs'[p].by = c
                   PROVE  MayOwn(c, p)'
        OBVIOUS
      <3>1. fs'[p] = fs[p]
        <4>1. file("visitor", TRUE).by = "visitor" /\ c # "visitor"
          BY RequestAssumption DEF file
        <4> QED  BY <2>2, <4>1
      <3>2. MayOwn(c, p)
        BY <3>1 DEF BaseInv, Upper, owns
      <3> QED  BY <1>1, <1>2, <3>2, VisitorControl
    <2> QED  BY <1>1, <2>1, <2>3, <2>4 DEF BaseInv, Upper, owns
  <1>3. ASSUME NEW c \in Commands, Step(c) \/ Kill(c) PROVE BaseInv'
    <2>1. \A d \in Commands : Control(d)' /\ StuckInRollback(d)'
      <3> TAKE d \in Commands
      <3>1. Control(d) /\ StuckInRollback(d)
        BY DEF BaseInv
      <3>2. CASE d = c
        BY <1>1, <1>3, <3>1, <3>2, ControlStep, StuckStep
      <3>3. CASE d # c
        BY <1>1, <1>3, <3>1, <3>3, OtherControl
      <3> QED  BY <3>2, <3>3
    <2>2. ASSUME NEW p \in Paths PROVE fs'[p].synced
      <3>1. Renames(c, p) => fs'[p] = file(c, TRUE)
        BY <1>1, RenamedIsSynced DEF BaseInv
      <3>2. fs'[p] \in {fs[p], file(c, TRUE), Absent}
        BY <1>1, <1>3, <3>1, PathEffect
      <3> QED  BY <3>2 DEF BaseInv, file, Absent
    <2>3. ASSUME NEW d \in Commands, NEW p \in Paths, fs'[p].by = d PROVE MayOwn(d, p)'
      <3>1. CASE d = c
        <4>1. /\ MayOwn(c, p) => MayOwn(c, p)' \/ Removes(c, p)
              /\ Renames(c, p) => MayOwn(c, p)'
          BY <1>1, <1>3, OwnStep DEF BaseInv
        <4>2. Removes(c, p) => fs'[p] = Absent
          BY <1>1 DEF Removes, TypeOK
        <4>3. ~Removes(c, p)
          BY <2>3, <3>1, <4>2, FileFields
        <4>4. fs'[p] = fs[p] \/ Renames(c, p)
          BY <1>1, <1>3, <4>3, PathEffect
        <4> QED  BY <2>3, <3>1, <4>1, <4>3, <4>4 DEF BaseInv, Upper, owns
      <3>2. CASE d # c
        <4>1. fs'[p] = fs[p]
          BY <1>1, <1>3, <2>3, <3>2, PathEffect, FileFields
        <4>2. MayOwn(d, p)
          BY <2>3, <4>1 DEF BaseInv, Upper, owns
        <4> QED  BY <1>1, <1>3, <3>2, <4>2, OtherControl
      <3> QED  BY <3>1, <3>2
    <2> QED  BY <1>1, <2>1, <2>2, <2>3 DEF BaseInv, Upper, owns
  <1> QED  BY <1>2, <1>3 DEF Next

\* A command that failed has left neither an output nor a temporary file, except
\* for the outputs the system refused to remove: whatever requests race in the
\* directory, with --force or without.
THEOREM FailureAlwaysClean == Spec => []FailureLeavesNothing
  <1>1. BaseInv => FailureLeavesNothing
    BY DEF BaseInv, Upper, MayOwn, Control, FailureLeavesNothing
  <1> QED  BY <1>1, BaseInit, BaseStep, PTL DEF Spec

-----------------------------------------------------------------------------
(***************************************************************************)
(* Commands that are not forced to take each other's names                 *)
(***************************************************************************)

Lower == \A c \in Commands : \A p \in Paths : MustOwn(c, p) => owns(c, p)

\* The commit point: whoever owns volume 0 owns the other volumes.
Committed ==
    \A c \in Commands :
        owns(c, Vol(0)) => \A i \in 1 .. request[c].volumes - 1 : owns(c, Vol(i))

ApartInv == BaseInv /\ ForcedApart /\ Lower /\ Committed

\* What a command removes it owns.
LEMMA RemovesItsOwn ==
    ASSUME BaseInv, Lower, NEW c \in Commands, NEW p \in Paths, Removes(c, p)
    PROVE  owns(c, p)
  <1>1. TypeOK /\ at[c] \in Nat \ {0} /\ persisted[c] \in Seq(Paths)
    BY DEF BaseInv, TypeOK
  <1>2. archive_paths(c) \in Seq(Paths)
    BY <1>1, ArchivePaths DEF TypeOK, PathList
  <1>3. from(p, removal_list(c), at[c])
    BY <1>1, <1>2 DEF Removes, removal_list, from
  <1>4. MustOwn(c, p)
    BY <1>3 DEF Removes, removal_list, Removing, MustOwn
  <1> QED  BY <1>4 DEF Lower

\* Nobody takes another's file: a name that is not taken belongs to nobody, and a
\* forced command's names are its own.
LEMMA OthersKeepTheirs ==
    ASSUME BaseInv, ForcedApart, Lower, NEW c \in Commands, Step(c) \/ Kill(c),
           NEW d \in Commands, c # d, NEW p \in Paths
    PROVE  owns(d, p)' <=> owns(d, p)
  <1>1. TypeOK
    BY DEF BaseInv
  <1>2. Renames(c, p) => ~owns(d, p)
    <2> SUFFICES ASSUME Renames(c, p), owns(d, p) PROVE FALSE
      OBVIOUS
    <2>1. exists(p)
      BY FileFields DEF exists, owns
    <2>2. request[c].force
      BY <2>1 DEF Renames
    <2>3. among(p, outputs(c))'
      BY <1>1, OwnStep DEF BaseInv, MayOwn
    <2>4. request' = request
      BY <1>1, Effects
    <2>5. among(p, outputs(c))
      BY <2>3, <2>4 DEF outputs, archive_paths, atomic_outputs
    <2>6. among(p, outputs(d))
      BY DEF BaseInv, Upper, MayOwn
    <2>7. p \in names(c) /\ p \in names(d)
      BY <1>1, <2>5, <2>6, Outputs DEF TypeOK
    <2> QED  BY <2>2, <2>7 DEF ForcedApart
  <1>3. Removes(c, p) => ~owns(d, p)
    BY RemovesItsOwn DEF owns
  <1> QED  BY <1>1, <1>2, <1>3, PathEffect, FileFields DEF owns

\* Volume 0 is a command's only when it creates an archive of several volumes.
\* It is renamed last, and it is not among what a rollback removes.
LEMMA VolumeZero ==
    ASSUME BaseInv, NEW c \in Commands, among(Vol(0), outputs(c))
    PROVE  /\ request[c].volumes > 1 /\ request[c].kind # "keypair" /\ ~request[c].bootstrap
           /\ Len(order(c)) = request[c].volumes
           /\ order(c)[Len(order(c))] = Vol(0)
           /\ \A i \in 1 .. request[c].volumes - 1 : order(c)[i] = Vol(i)
  <1>1. request \in [Commands -> Requests]
    BY DEF BaseInv, TypeOK
  <1>2. request[c].volumes \in 1 .. MaxVolumes /\ MaxVolumes \in Nat \ {0}
        /\ request[c].kind \in {"sink", "memory", "keypair"}
        /\ (request[c].bootstrap => request[c].volumes = 1)
    BY <1>1, RequestType
  <1>3. ~among(Vol(0), files(c))
    BY PathsDiffer DEF files, atomic_outputs, among
  <1>4. request[c].kind # "keypair" /\ among(Vol(0), archive_paths(c))
    BY <1>1, <1>3, Outputs
  <1>5. request[c].volumes > 1
    BY <1>1, <1>2, <1>4, ArchivePaths, PathsDiffer DEF among
  <1>6. \A i \in 1 .. request[c].volumes : archive_paths(c)[i] = Vol(i - 1)
    BY <1>1, <1>5, ArchivePaths
  <1>7. /\ Len(order(c)) = request[c].volumes
        /\ order(c)[request[c].volumes] = archive_paths(c)[1]
        /\ \A i \in 1 .. request[c].volumes - 1 : order(c)[i] = archive_paths(c)[i + 1]
    BY <1>1, PublishOrder
  <1>8. archive_paths(c)[1] = Vol(0)
    BY <1>2, <1>6
  <1>9. ASSUME NEW i \in 1 .. request[c].volumes - 1 PROVE order(c)[i] = Vol(i)
    <2>1. i + 1 \in 1 .. request[c].volumes /\ (i + 1) - 1 = i
      BY <1>2
    <2>2. archive_paths(c)[i + 1] = Vol((i + 1) - 1)
      BY <1>6, <2>1
    <2> QED  BY <1>7, <2>1, <2>2
  <1> QED  BY <1>2, <1>4, <1>5, <1>7, <1>8, <1>9

\* Volume 0 follows the others, and goes before them if at all.
LEMMA CommitStep ==
    ASSUME ApartInv, NEW c \in Commands, Step(c) \/ Kill(c), owns(c, Vol(0))',
           NEW i \in 1 .. request[c].volumes - 1
    PROVE  owns(c, Vol(i))'
  <1>1. BaseInv /\ Lower /\ TypeOK /\ BaseInv'
    <2>1. [Next]_vars
      BY DEF Next
    <2> QED  BY <2>1, BaseStep DEF ApartInv, BaseInv
  <1>2. /\ request[c].volumes \in 1 .. MaxVolumes /\ MaxVolumes \in Nat \ {0}
        /\ request' = request /\ at[c] \in Nat \ {0}
    BY <1>1, RequestType, Effects DEF TypeOK
  <1>3. Vol(0) \in Paths /\ Vol(i) \in Paths
    <2>1. 0 \in 0 .. MaxVolumes - 1 /\ i \in 0 .. MaxVolumes - 1
      BY <1>2
    <2> QED  BY <2>1, PathsDiffer
  <1>4. among(Vol(0), outputs(c))
    <2>1. among(Vol(0), outputs(c))'
      BY <1>1, <1>3 DEF BaseInv, Upper, MayOwn
    <2> QED  BY <1>2, <2>1 DEF outputs, archive_paths, atomic_outputs
  <1>5. /\ request[c].volumes > 1 /\ request[c].kind # "keypair" /\ ~request[c].bootstrap
        /\ Len(order(c)) = request[c].volumes
        /\ order(c)[Len(order(c))] = Vol(0)
        /\ \A j \in 1 .. request[c].volumes - 1 : order(c)[j] = Vol(j)
    BY <1>1, <1>4, VolumeZero
  <1>6. PathList(order(c))
    BY <1>1, PublishOrder DEF TypeOK
  <1>7. owns(c, Vol(i))
    <2>1. CASE owns(c, Vol(0))
      BY <2>1 DEF ApartInv, Committed
    <2>2. CASE ~owns(c, Vol(0))
      <3>1. Renames(c, Vol(0))
        BY <1>1, <1>3, <2>2, PathEffect, FileFields DEF owns
      <3>2. pc[c] = "publish" /\ at[c] <= Len(order(c)) /\ order(c)[at[c]] = Vol(0)
        BY <1>1, <1>5, <3>1 DEF Renames, BaseInv, Control
      <3>3. at[c] = Len(order(c))
        BY <1>2, <1>5, <1>6, <3>2 DEF PathList
      <3>4. before(Vol(i), order(c), at[c])
        BY <1>2, <1>5, <3>3 DEF before
      <3>5. MustOwn(c, Vol(i))
        BY <3>2, <3>4 DEF MustOwn
      <3> QED  BY <1>1, <1>3, <3>5 DEF Lower
    <2> QED  BY <2>1, <2>2
  <1>8. ~Removes(c, Vol(i))
    <2> SUFFICES ASSUME Removes(c, Vol(i)) PROVE FALSE
      OBVIOUS
    <2>1. pc[c] = "rollback"
      BY <1>1, <1>5 DEF Removes, Removing, BaseInv, Control
    <2>2. ~Renames(c, Vol(0))
      BY <2>1 DEF Renames
    <2>3. owns(c, Vol(0))
      BY <1>1, <1>3, <2>2, PathEffect, FileFields DEF owns
    <2>4. begins(persisted[c], order(c)) /\ Len(persisted[c]) < Len(order(c))
          /\ persisted[c] \in Seq(Paths) /\ StuckInRollback(c)
      BY <1>1, <2>1 DEF BaseInv, Control, TypeOK
    <2>5. among(Vol(0), persisted[c])
      <3>1. from(Vol(0), persisted[c], at[c]) \/ <<c, Vol(0)>> \in stuck
        BY <1>1, <1>3, <2>1, <2>3 DEF BaseInv, Upper, MayOwn
      <3> QED  BY <1>3, <2>1, <2>4, <3>1 DEF StuckInRollback, from, among
    <2>6. \E j \in 1 .. Len(persisted[c]) : order(c)[j] = Vol(0) /\ j < Len(order(c))
      BY <1>2, <1>5, <2>4, <2>5 DEF among, begins
    <2> QED  BY <1>2, <1>5, <1>6, <2>4, <2>6 DEF PathList
  <1> QED  BY <1>1, <1>3, <1>7, <1>8, PathEffect, FileFields DEF owns

\* The invariant holds at the start ...
LEMMA ApartInit == Init /\ ForcedApart => ApartInv
  <1> SUFFICES ASSUME Init, ForcedApart PROVE ApartInv
    OBVIOUS
  <1>1. BaseInv
    BY BaseInit
  <1>2. Lower
    BY DEF Init, Lower, MustOwn
  <1>3. \A p \in Paths : fs[p] \in {file("old", TRUE), Absent}
    BY DEF Init
  <1>4. Vol(0) \in Paths
    BY PathsDiffer, RequestAssumption
  <1>5. \A c \in Commands : ~owns(c, Vol(0))
    BY <1>3, <1>4, RequestAssumption DEF owns, file, Absent
  <1> QED  BY <1>1, <1>2, <1>5 DEF ApartInv, Committed

\* ... and is kept by every step.
LEMMA ApartStep == ApartInv /\ [Next]_vars => ApartInv'
  <1> SUFFICES ASSUME ApartInv, [Next]_vars PROVE ApartInv'
    OBVIOUS
  <1>1. BaseInv /\ ForcedApart /\ Lower /\ Committed /\ TypeOK /\ BaseInv'
    BY BaseStep DEF ApartInv, BaseInv
  <1>2. request' = request
    BY <1>1, Effects DEF Next, Visit, vars
  <1>3. ForcedApart'
    <2>1. \A c \in Commands : preflight_paths(c)' = preflight_paths(c)
      BY <1>2 DEF preflight_paths, outputs, archive_paths, atomic_outputs
    <2>2. \A c \in Commands : names(c)' = names(c)
      BY <2>1 DEF names
    <2> QED  BY <1>1, <1>2, <2>2 DEF ForcedApart
  <1>4. CASE Visit \/ UNCHANGED vars
    <2>1. \A p \in Paths : \A d \in Commands : owns(d, p)' <=> owns(d, p)
      <3> TAKE p \in Paths
      <3> TAKE d \in Commands
      <3>1. \/ fs'[p] = fs[p]
            \/ fs[p] = Absent /\ fs'[p] = file("visitor", TRUE)
        BY <1>1, <1>4, VisitorControl
      <3>2. file("visitor", TRUE).by # d /\ Absent.by # d
        BY RequestAssumption DEF file, Absent
      <3> QED  BY <3>1, <3>2 DEF owns
    <2>2. Lower'
      BY <1>1, <1>4, <2>1, VisitorControl DEF Lower
    <2>3. \A d \in Commands : request[d].volumes \in 1 .. MaxVolumes /\ MaxVolumes \in Nat \ {0}
      BY <1>1, RequestType DEF TypeOK
    <2>4. Vol(0) \in Paths /\ \A d \in Commands : \A i \in 1 .. request[d].volumes - 1 : Vol(i) \in Paths
      BY <2>3, PathsDiffer, RequestAssumption
    <2>5. Committed'
      BY <1>1, <1>2, <2>1, <2>4 DEF Committed
    <2> QED  BY <1>1, <1>3, <2>2, <2>5 DEF ApartInv
  <1>5. ASSUME NEW c \in Commands, Step(c) \/ Kill(c) PROVE ApartInv'
    <2>1. \A d \in Commands : d # c => \A p \in Paths : owns(d, p)' <=> owns(d, p)
      BY <1>1, <1>5, OthersKeepTheirs
    <2>2. ASSUME NEW d \in Commands, NEW p \in Paths, MustOwn(d, p)' PROVE owns(d, p)'
      <3>1. CASE d # c
        BY <1>1, <1>5, <2>1, <2>2, <3>1, OtherControl DEF Lower
      <3>2. CASE d = c
        <4>1. (MustOwn(c, p) \/ Renames(c, p)) /\ ~Removes(c, p)
          BY <1>1, <1>5, <2>2, <3>2, OwnStep DEF BaseInv
        <4>2. CASE Renames(c, p)
          <5>1. fs'[p] = file(c, TRUE)
            BY <1>1, <4>2, RenamedIsSynced DEF BaseInv
          <5> QED  BY <3>2, <5>1 DEF owns, file
        <4>3. CASE ~Renames(c, p)
          BY <1>1, <1>5, <3>2, <4>1, <4>3, PathEffect DEF Lower, owns
        <4> QED  BY <4>2, <4>3
      <3> QED  BY <3>1, <3>2
    <2>3. Lower'
      BY <2>2 DEF Lower
    <2>4. ASSUME NEW d \in Commands, owns(d, Vol(0))',
                 NEW i \in 1 .. request[d].volumes - 1
          PROVE  owns(d, Vol(i))'
      <3>1. CASE d = c
        BY <1>5, <2>4, <3>1, CommitStep
      <3>2. CASE d # c
        <4>1. request[d].volumes \in 1 .. MaxVolumes /\ MaxVolumes \in Nat \ {0}
          BY <1>1, RequestType DEF TypeOK
        <4>2. 0 \in 0 .. MaxVolumes - 1 /\ i \in 0 .. MaxVolumes - 1
          BY <4>1
        <4>3. Vol(0) \in Paths /\ Vol(i) \in Paths
          BY <4>2, PathsDiffer
        <4> QED  BY <1>1, <2>1, <2>4, <3>2, <4>3 DEF Committed
      <3> QED  BY <3>1, <3>2
    <2>5. Committed'
      BY <1>2, <2>4 DEF Committed
    <2> QED  BY <1>1, <1>3, <2>3, <2>5 DEF ApartInv
  <1> QED  BY <1>4, <1>5 DEF Next

\* Volume 0 is the commit point: whoever finds a command's volume 0, even after
\* the command was killed, finds the other volumes it wrote, and every file that
\* has a name was synced before it got it.
THEOREM CommitPointHolds == ApartSpec => []VolumeZeroCommits
  <1>1. ApartInv => VolumeZeroCommits
    BY DEF ApartInv, BaseInv, Committed, VolumeZeroCommits
  <1> QED  BY <1>1, ApartInit, ApartStep, PTL DEF ApartSpec

\* What a command reported as done stays done, whatever the other commands do,
\* fail at and roll back later.
THEOREM SuccessAlwaysStands == ApartSpec => []SuccessStands
  <1>1. ApartInv => SuccessStands
    <2> SUFFICES ASSUME ApartInv, NEW c \in Commands, pc[c] = "succeeded",
                        NEW i \in 1 .. Len(outputs(c))
                 PROVE  owns(c, outputs(c)[i])
      BY DEF SuccessStands
    <2>1. outputs(c) \in Seq(Paths)
      BY Outputs DEF ApartInv, BaseInv, TypeOK
    <2>2. outputs(c)[i] \in Paths /\ among(outputs(c)[i], outputs(c))
      BY <2>1 DEF among
    <2> QED  BY <2>2 DEF ApartInv, Lower, MustOwn
  <1> QED  BY <1>1, ApartInit, ApartStep, PTL DEF ApartSpec

\* No step takes a file away but a rollback of the command that wrote it, or a
\* rename that was forced.
THEOREM OthersFilesAlwaysStay == ApartSpec => OthersFilesStay
  <1> DEFINE Stays == \A p \in Paths : fs'[p] # fs[p] =>
          \/ fs[p] = Absent
          \/ \E c \in Commands : owns(c, p) /\ pc[c] \in Removing /\ at'[c] # at[c]
          \/ \E c \in Commands : request[c].force /\ fs'[p].by = c
  <1>1. ApartInv /\ [Next]_vars => [Stays]_vars
    <2> SUFFICES ASSUME ApartInv, [Next]_vars, NEW p \in Paths, fs'[p] # fs[p]
                 PROVE  \/ fs[p] = Absent
                        \/ \E c \in Commands : owns(c, p) /\ pc[c] \in Removing /\ at'[c] # at[c]
                        \/ \E c \in Commands : request[c].force /\ fs'[p].by = c
      OBVIOUS
    <2>1. BaseInv /\ Lower /\ TypeOK
      BY DEF ApartInv, BaseInv
    <2>2. CASE Visit \/ UNCHANGED vars
      BY <2>1, <2>2 DEF Visit, vars, exists, TypeOK
    <2>3. ASSUME NEW c \in Commands, Step(c) \/ Kill(c)
          PROVE  \/ fs[p] = Absent
                 \/ owns(c, p) /\ pc[c] \in Removing /\ at'[c] # at[c]
                 \/ request[c].force /\ fs'[p].by = c
      <3>1. CASE Renames(c, p)
        <4>1. fs'[p] = file(c, TRUE)
          BY <2>1, <3>1, RenamedIsSynced DEF BaseInv
        <4>2. file(c, TRUE).by = c
          BY DEF file
        <4> QED  BY <3>1, <4>1, <4>2 DEF Renames, exists
      <3>2. CASE Removes(c, p)
        <4>1. at[c] \in Nat /\ at'[c] = at[c] + 1
          BY <2>1, <3>2 DEF Removes, Advance, TypeOK
        <4>2. owns(c, p)
          BY <2>1, <3>2, RemovesItsOwn
        <4>3. pc[c] \in Removing
          BY <3>2 DEF Removes
        <4>4. at'[c] # at[c]
          BY <4>1
        <4> QED  BY <4>2, <4>3, <4>4
      <3> QED  BY <2>1, <2>3, <3>1, <3>2, PathEffect
    <2> QED  BY <2>2, <2>3 DEF Next
  <1> QED  BY <1>1, ApartInit, ApartStep, PTL DEF ApartSpec, OthersFilesStay

-----------------------------------------------------------------------------
(***************************************************************************)
(* Commands that race for the same names                                   *)
(*                                                                         *)
(* Commands that share a name share the one they rename first, so the race *)
(* between them is decided there: who is second has renamed nothing yet,   *)
(* and who is first is refused nothing later.                              *)
(***************************************************************************)

\* The name a command renames first.
first(c) == IF request[c].kind = "keypair" THEN Secret ELSE order(c)[1]

\* The paths of the preflight are paths.
LEMMA PreflightPaths ==
    ASSUME request \in [Commands -> Requests], NEW c \in Commands
    PROVE  preflight_paths(c) \in Seq(Paths) /\ names(c) \subseteq Paths
  <1>1. MaxVolumes \in Nat
    BY RequestAssumption
  <1>2. \A i \in 1 .. MaxVolumes : Vol(i - 1) \in Paths
    <2> TAKE i \in 1 .. MaxVolumes
    <2>1. i - 1 \in 0 .. MaxVolumes - 1
      BY <1>1
    <2> QED  BY <2>1, PathsDiffer
  <1> DEFINE t == [i \in 1 .. MaxVolumes |-> Vol(i - 1)]
  <1>3. t \in Seq(Paths)
    BY <1>1, <1>2
  <1>4. <<Out>> \o t \in Seq(Paths)
    <2> HIDE DEF t
    <2>1. <<Out>> \in Seq(Paths)
      BY PathsDiffer
    <2> QED  BY <1>3, <2>1
  <1>5. preflight_paths(c) \in Seq(Paths)
    BY <1>4, Outputs DEF preflight_paths
  <1> QED  BY <1>5 DEF names

\* Two commands with an output in common rename the same name first.
LEMMA SameFirst ==
    ASSUME request \in [Commands -> Requests], NEW c \in Commands, NEW d \in Commands,
           NEW p, among(p, outputs(c)), among(p, outputs(d))
    PROVE  first(c) = first(d)
  <1> DEFINE single(x) == request[x].kind # "keypair" /\ request[x].volumes = 1
             several(x) == request[x].kind # "keypair" /\ request[x].volumes > 1
  <1>1. \A x \in Commands :
           /\ request[x].volumes \in Nat \ {0}
           /\ request[x].bootstrap => request[x].volumes = 1
    BY RequestType
  <1>2. ASSUME NEW x \in {c, d}, request[x].kind = "keypair"
        PROVE  first(x) = Secret /\ p \in {Secret, Public}
    <2>1. files(x) = <<Secret, Public>> /\ among(p, files(x))
      BY <1>2, AtomicPaths, Outputs
    <2> QED  BY <1>2, <2>1 DEF first, among
  <1>3. ASSUME NEW x \in {c, d}, request[x].kind # "keypair"
        PROVE  among(p, files(x)) => p = Boot /\ request[x].volumes = 1
    BY <1>1, <1>3 DEF files, atomic_outputs, among
  <1>4. ASSUME NEW x \in {c, d}, single(x)
        PROVE  first(x) = Out /\ p \in {Out, Boot}
    <2>1. archive_paths(x)[1] = Out /\ Len(archive_paths(x)) = 1
      BY <1>4, ArchivePaths
    <2>2. order(x)[1] = Out
      BY <1>4, <2>1, PublishOrder
    <2>3. among(p, archive_paths(x)) \/ among(p, files(x))
      BY Outputs
    <2>4. among(p, archive_paths(x)) => p = Out
      BY <2>1 DEF among
    <2> QED  BY <1>3, <1>4, <2>2, <2>3, <2>4 DEF first
  <1>5. ASSUME NEW x \in {c, d}, several(x)
        PROVE  first(x) = Vol(1) /\ \E i \in Nat : p = Vol(i)
    <2>1. request[x].volumes \in Nat /\ 1 \in 1 .. request[x].volumes - 1
          /\ 2 \in 1 .. request[x].volumes
      BY <1>1, <1>5
    <2>2. /\ Len(archive_paths(x)) = request[x].volumes
          /\ \A i \in 1 .. request[x].volumes : archive_paths(x)[i] = Vol(i - 1)
      BY <1>5, ArchivePaths
    <2>3. order(x)[1] = archive_paths(x)[1 + 1]
      BY <2>1, PublishOrder
    <2>4. archive_paths(x)[2] = Vol(2 - 1)
      BY <2>1, <2>2
    <2>5. order(x)[1] = Vol(1)
      BY <2>3, <2>4
    <2>6. among(p, archive_paths(x))
      BY <1>3, <1>5, <2>1, Outputs
    <2>7. \E i \in Nat : p = Vol(i)
      <3>1. PICK i \in 1 .. request[x].volumes : archive_paths(x)[i] = p
        BY <2>2, <2>6 DEF among
      <3>2. i - 1 \in Nat /\ p = Vol(i - 1)
        BY <2>1, <2>2, <3>1
      <3> QED  BY <3>2
    <2> QED  BY <1>5, <2>5, <2>7 DEF first
  <1>6. \A x \in {c, d} : request[x].kind = "keypair" \/ single(x) \/ several(x)
    BY <1>1
  <1>7. Out \notin {Secret, Public} /\ Boot \notin {Secret, Public}
    BY DEF Out, Boot, Secret, Public
  <1> HIDE DEF single, several
  <1> QED  BY <1>2, <1>4, <1>5, <1>6, <1>7, PathsDiffer

\* No system call failed, nobody was killed, and no other program has put a file
\* where a command that is not forced would write.
Undisturbed ==
    /\ ~faults
    /\ \A c \in Commands : ~request[c].force => \A p \in names(c) : fs[p].by # "visitor"

\* What the preflight of a command found free was not there from the start.
Seen(c) ==
    ~request[c].force /\ pc[c] \notin {"failed", "killed"} =>
        \A i \in 1 .. Len(preflight_paths(c)) :
            (pc[c] = "preflight" => i < at[c]) => fs[preflight_paths(c)[i]].by # "old"

\* A command that fails when nothing disturbs it was refused before it had renamed
\* anything, and what it was refused for is there.
Refused(c) ==
    /\ pc[c] # "remove_archive"
    /\ pc[c] = "rollback_files" => request[c].kind = "keypair"
    /\ pc[c] \in {"rollback", "rollback_files"} => persisted[c] = <<>>
    /\ pc[c] \in {"rollback", "rollback_files", "failed"} =>
          ~request[c].force /\ \E p \in names(c) : exists(p)

RaceInv ==
    /\ ApartInv
    /\ \A c \in Commands : Seen(c)
    /\ ~faults => stuck = {} /\ \A c \in Commands : pc[c] # "killed"
    /\ Undisturbed => \A c \in Commands : Refused(c)

\* Who owns anything owns the name it renamed first.
LEMMA OwnsFirst ==
    ASSUME RaceInv, Undisturbed, NEW c \in Commands, NEW p \in Paths, owns(c, p)
    PROVE  owns(c, first(c))
  <1>1. ApartInv /\ BaseInv /\ TypeOK /\ Lower /\ Refused(c) /\ stuck = {}
        /\ pc[c] # "killed" /\ MayOwn(c, p) /\ Control(c)
    BY DEF RaceInv, ApartInv, BaseInv, Upper, Undisturbed
  <1>2. /\ PathList(order(c)) /\ Len(order(c)) \in Nat \ {0}
        /\ \A q : among(q, order(c)) <=> among(q, archive_paths(c))
    BY <1>1, PublishOrder, RequestType DEF TypeOK
  <1>3. at[c] \in Nat \ {0} /\ pc[c] \in Labels /\ request[c].kind \in {"sink", "memory", "keypair"}
    BY <1>1, RequestType DEF TypeOK
  <1>4. PathList(files(c)) /\ (request[c].kind = "keypair" => files(c) = <<Secret, Public>>)
    BY <1>1, AtomicPaths DEF TypeOK
  <1>5. order(c)[1] \in Paths /\ among(order(c)[1], order(c)) /\ Secret \in Paths
    BY <1>2, PathsDiffer DEF PathList, among
  <1>6. request[c].kind # "keypair" => kept(c, order(c)[1])
    BY <1>2, <1>5 DEF kept
  <1>7. request[c].kind = "keypair" => among(Secret, files(c)) /\ among(Secret, outputs(c))
    <2>1. request[c].kind = "keypair" => among(Secret, files(c))
      BY <1>4 DEF among
    <2> QED  BY <1>1, <2>1, Outputs DEF TypeOK
  <1>8. ~from(p, <<>>, at[c])
    BY DEF from
  <1>9. MustOwn(c, first(c))
    <2>1. CASE pc[c] = "publish"
      <3>1. request[c].kind # "keypair" /\ before(p, order(c), at[c])
        BY <1>1, <2>1 DEF Control, MayOwn, Ended
      <3>2. before(order(c)[1], order(c), at[c])
        BY <1>2, <1>3, <3>1 DEF before
      <3> QED  BY <2>1, <3>1, <3>2 DEF MustOwn, first
    <2>2. CASE pc[c] \in {"check_files", "stage_files"}
      BY <1>1, <1>6, <2>2 DEF MayOwn, MustOwn, first, kept
    <2>3. CASE pc[c] = "publish_files"
      <3>1. CASE request[c].kind # "keypair"
        BY <1>6, <2>3, <3>1 DEF MustOwn, first
      <3>2. CASE request[c].kind = "keypair"
        <4>1. before(p, files(c), at[c])
          BY <1>1, <2>3, <3>2 DEF MayOwn, kept
        <4>2. before(Secret, files(c), at[c])
          BY <1>3, <1>4, <3>2, <4>1 DEF before
        <4> QED  BY <2>3, <3>2, <4>2 DEF MustOwn, first
      <3> QED  BY <3>1, <3>2
    <2>4. CASE pc[c] \in {"rollback", "rollback_files"}
      BY <1>1, <1>8, <2>4 DEF MayOwn, Refused, kept
    <2>5. CASE pc[c] = "succeeded"
      <3>1. request[c].kind # "keypair" => among(order(c)[1], outputs(c))
        BY <1>1, <1>6, Outputs DEF TypeOK, kept
      <3> QED  BY <1>7, <2>5, <3>1 DEF MustOwn, first
    <2>6. pc[c] \notin Staging \cup {"failed", "remove_archive", "killed"}
      BY <1>1 DEF MayOwn, Refused
    <2> QED  BY <1>3, <2>1, <2>2, <2>3, <2>4, <2>5, <2>6 DEF Labels, Removing, Ended
  <1>10. first(c) \in Paths
    BY <1>5 DEF first
  <1> QED  BY <1>1, <1>9, <1>10 DEF Lower

\* A command that owns the name it renames first finds its other names free.
LEMMA FirstIsNotRefused ==
    ASSUME RaceInv, Undisturbed, NEW c \in Commands, ~request[c].force,
           pc[c] \notin {"preflight", "failed", "killed"},
           NEW p \in Paths, among(p, outputs(c)), exists(p), owns(c, first(c))
    PROVE  owns(c, p)
  <1>1. ApartInv /\ BaseInv /\ TypeOK /\ request \in [Commands -> Requests]
    BY DEF RaceInv, ApartInv, BaseInv, TypeOK
  <1>2. p \in names(c)
    BY <1>1, Outputs
  <1>3. fs[p].by # "old"
    <2>1. PICK i \in 1 .. Len(preflight_paths(c)) : p = preflight_paths(c)[i]
      BY <1>2 DEF names
    <2> QED  BY <2>1 DEF RaceInv, Seen
  <1>4. fs[p].by # "visitor"
    BY <1>2 DEF Undisturbed
  <1>5. fs[p].by # "none"
    <2>1. fs[p] \in Files /\ fs[p].synced
      BY <1>1 DEF BaseInv, TypeOK
    <2>2. fs[p].by = "none" => fs[p] = [by |-> "none", synced |-> TRUE]
      BY <2>1 DEF Files
    <2> QED  BY <2>2 DEF exists, Absent
  <1>6. PICK d \in Commands : fs[p].by = d
    <2>1. fs[p].by \in Commands \cup {"none", "old", "visitor"}
      BY <1>1 DEF TypeOK, Files
    <2> QED  BY <1>3, <1>4, <1>5, <2>1
  <1>7. owns(d, first(d)) /\ owns(d, p)
    BY <1>6, OwnsFirst DEF owns
  <1>8. among(p, outputs(d))
    BY <1>1, <1>7 DEF BaseInv, Upper, MayOwn
  <1>9. first(c) = first(d)
    BY <1>1, <1>8, SameFirst
  <1> QED  BY <1>7, <1>9 DEF owns

\* A disturbance lasts.
LEMMA UndisturbedBefore ==
    ASSUME RaceInv, [Next]_vars, Undisturbed'
    PROVE  Undisturbed
  <1>1. ApartInv /\ BaseInv /\ Lower /\ ForcedApart /\ TypeOK /\ ApartInv'
    BY ApartStep DEF RaceInv, ApartInv, BaseInv
  <1>2. request' = request
    BY <1>1, Effects DEF Next, Visit, vars
  <1>3. ~faults
    <2>1. \/ faults' = faults \/ faults' = TRUE
      BY ZenonT(60) DEF Next, Visit, vars, Step, Kill, Preflight, BuildInMemory, Recheck, CreateTemp,
             WriteToSink, WriteVolume, SyncTemp, PublishArchive, Rollback, CheckFiles, StageFile,
             PublishFiles, RollbackFiles, RemoveArchive, Remove, Publish, RenameFails
    <2> QED  BY <2>1 DEF Undisturbed
  <1>4. ASSUME NEW c \in Commands, ~request[c].force, NEW p \in names(c), fs[p].by = "visitor"
        PROVE  FALSE
    <2>1. p \in Paths /\ fs[p] # Absent
      BY <1>1, <1>4, PreflightPaths, FileFields DEF TypeOK
    <2>2. fs'[p] = fs[p]
      <3>1. CASE Visit \/ UNCHANGED vars
        BY <1>1, <1>4, <2>1, <3>1, VisitorControl
      <3>2. ASSUME NEW d \in Commands, Step(d) \/ Kill(d) PROVE fs'[p] = fs[p]
        <4>1. ~Removes(d, p)
          BY <1>1, <1>4, <2>1, RemovesItsOwn, FileFields DEF owns
        <4>2. ~Renames(d, p)
          <5> SUFFICES ASSUME Renames(d, p) PROVE FALSE
            OBVIOUS
          <5>1. request[d].force /\ d # c
            BY <1>4, <2>1 DEF Renames, exists
          <5>2. among(p, outputs(d))'
            BY <1>1, <2>1, <3>2, OwnStep DEF BaseInv, MayOwn
          <5>3. among(p, outputs(d))
            BY <1>2, <5>2 DEF outputs, archive_paths, atomic_outputs
          <5>4. p \in names(d)
            BY <1>1, <5>3, Outputs DEF TypeOK
          <5> QED  BY <1>1, <5>1, <5>4 DEF ForcedApart
        <4> QED  BY <1>1, <2>1, <3>2, <4>1, <4>2, PathEffect
      <3> QED  BY <3>1, <3>2 DEF Next
    <2>3. names(c)' = names(c)
      <3>1. preflight_paths(c)' = preflight_paths(c)
        BY <1>2 DEF preflight_paths, outputs, archive_paths, atomic_outputs
      <3> QED  BY <3>1 DEF names
    <2> QED  BY <1>2, <1>4, <2>2, <2>3 DEF Undisturbed
  <1> QED  BY <1>3, <1>4 DEF Undisturbed

\* What was not there from the start does not come back.
LEMMA SeenStep ==
    ASSUME RaceInv, [Next]_vars, NEW c \in Commands
    PROVE  Seen(c)'
  <1>1. TypeOK /\ TypeOK' /\ Seen(c)
    BY TypeStep DEF RaceInv, ApartInv, BaseInv
  <1>2. request' = request
    BY <1>1, Effects DEF Next, Visit, vars
  <1>3. preflight_paths(c)' = preflight_paths(c)
    BY <1>2 DEF preflight_paths, outputs, archive_paths, atomic_outputs
  <1>4. ASSUME NEW p \in Paths, fs'[p].by = "old" PROVE fs[p].by = "old"
    <2>1. CASE Visit \/ UNCHANGED vars
      <3>1. file("visitor", TRUE).by # "old"
        BY DEF file
      <3>2. fs'[p] = fs[p] \/ fs'[p] = file("visitor", TRUE)
        BY <1>1, <2>1 DEF Visit, vars, TypeOK
      <3> QED  BY <1>4, <3>1, <3>2
    <2>2. ASSUME NEW d \in Commands, Step(d) \/ Kill(d) PROVE fs[p].by = "old"
      BY <1>1, <1>4, <2>2, PathEffect, FileFields
    <2> QED  BY <2>1, <2>2 DEF Next
  <1> DEFINE s == preflight_paths(c)
  <1>5. s \in Seq(Paths)
    BY <1>1, PreflightPaths DEF TypeOK
  <1>6. SUFFICES ASSUME ~request[c].force, pc'[c] \notin {"failed", "killed"}, NEW i \in 1 .. Len(s),
                        pc'[c] = "preflight" => i < at'[c]
                 PROVE  fs'[s[i]].by # "old"
    BY <1>2, <1>3 DEF Seen
  <1>7. s[i] \in Paths
    BY <1>5
  <1>8. CASE pc[c] \notin {"failed", "killed"} /\ (pc[c] = "preflight" => i < at[c])
    BY <1>1, <1>4, <1>6, <1>7, <1>8 DEF Seen
  <1>9. CASE pc[c] \in {"failed", "killed"}
    <2>1. pc'[c] = pc[c]
      <3>1. ~(Step(c) \/ Kill(c))
        BY <1>9 DEF Step, Kill, Preflight, BuildInMemory, Recheck, CreateTemp, WriteToSink,
             WriteVolume, SyncTemp, PublishArchive, Rollback, CheckFiles, StageFile, PublishFiles,
             RollbackFiles, RemoveArchive, Ended
      <3>2. \A d \in Commands \ {c} : Step(d) \/ Kill(d) => pc'[c] = pc[c]
        BY <1>1, Effects
      <3> QED  BY <1>9, <3>1, <3>2 DEF Next, Visit, vars
    <2> QED  BY <1>6, <1>9, <2>1
  <1>10. CASE pc[c] = "preflight" /\ ~(i < at[c])
    <2>1. /\ pc \in [Commands -> Labels] /\ at \in [Commands -> Nat \ {0}]
          /\ Len(s) \in Nat
      BY <1>1, <1>5 DEF TypeOK
    <2>2. Preflight(c)
      <3>1. pc'[c] # pc[c] \/ at'[c] # at[c]
        BY <1>6, <1>10
      <3>2. \A d \in Commands \ {c} : ~(Step(d) \/ Kill(d))
        BY <1>1, <3>1, Effects
      <3>3. Step(c) \/ Kill(c)
        BY <3>1, <3>2 DEF Next, Visit, vars
      <3>4. ~Kill(c)
        BY <1>6, <2>1 DEF Kill, Goto
      <3> QED  BY <1>10, <3>3, <3>4
            DEF Step, BuildInMemory, Recheck, CreateTemp, WriteToSink, WriteVolume, SyncTemp,
                PublishArchive, Rollback, CheckFiles, StageFile, PublishFiles, RollbackFiles,
                RemoveArchive
    <2>3. fs' = fs /\ ~Exit(c, "failed")
      BY <1>6, <2>1, <2>2 DEF Preflight, Exit, Goto
    <2>4. \/ at[c] <= Len(s) /\ ~exists(s[at[c]]) /\ Advance(c)
          \/ at[c] > Len(s)
      BY <1>6, <2>2, <2>3 DEF Preflight, PathsFree
    <2>5. i = at[c] /\ ~exists(s[at[c]])
      <3> HIDE DEF s
      <3>1. i \in Nat /\ at[c] \in Nat /\ i <= Len(s) /\ at[c] <= i
        BY <1>10, <2>1
      <3>2. ~exists(s[at[c]]) /\ Advance(c)
        BY <2>1, <2>4, <3>1 DEF exists, Advance
      <3>3. pc'[c] = "preflight" /\ at'[c] = at[c] + 1
        BY <1>10, <2>1, <3>2 DEF Advance
      <3> QED  BY <1>6, <3>1, <3>2, <3>3 DEF exists
    <2>6. fs[s[i]] = Absent
      BY <2>5 DEF exists
    <2> QED  BY <2>3, <2>6 DEF Absent
  <1> QED  BY <1>8, <1>9, <1>10

\* What a command is about to rename, or to look at, it does not own yet.
LEMMA NotYetOwned ==
    ASSUME BaseInv, NEW c \in Commands
    PROVE  /\ pc[c] = "publish" /\ at[c] <= Len(order(c)) =>
                 /\ order(c)[at[c]] \in Paths /\ among(order(c)[at[c]], outputs(c))
                 /\ ~owns(c, order(c)[at[c]])
           /\ pc[c] \in {"check_files", "publish_files"} /\ at[c] <= Len(files(c)) =>
                 /\ files(c)[at[c]] \in Paths /\ among(files(c)[at[c]], outputs(c))
                 /\ ~owns(c, files(c)[at[c]])
  <1>1. TypeOK /\ Control(c) /\ request \in [Commands -> Requests] /\ at[c] \in Nat \ {0}
    BY DEF BaseInv, TypeOK
  <1>2. PathList(order(c)) /\ PathList(files(c))
        /\ \A p : among(p, order(c)) <=> among(p, archive_paths(c))
    BY <1>1, PublishOrder, AtomicPaths
  <1>3. ASSUME pc[c] = "publish", at[c] <= Len(order(c))
        PROVE  /\ order(c)[at[c]] \in Paths /\ among(order(c)[at[c]], outputs(c))
               /\ ~owns(c, order(c)[at[c]])
    <2>1. at[c] \in 1 .. Len(order(c)) /\ order(c)[at[c]] \in Paths
      BY <1>1, <1>2, <1>3, PositionInList DEF PathList
    <2>2. request[c].kind # "keypair" /\ among(order(c)[at[c]], archive_paths(c))
      BY <1>1, <1>2, <1>3, <2>1 DEF Control, Ended, among
    <2>3. ~before(order(c)[at[c]], order(c), at[c])
      BY <1>2, <2>1 DEF PathList, before
    <2> QED  BY <1>1, <1>3, <2>1, <2>2, <2>3, Outputs DEF BaseInv, Upper, MayOwn
  <1>4. ASSUME pc[c] \in {"check_files", "publish_files"}, at[c] <= Len(files(c))
        PROVE  /\ files(c)[at[c]] \in Paths /\ among(files(c)[at[c]], outputs(c))
               /\ ~owns(c, files(c)[at[c]])
    <2>1. at[c] \in 1 .. Len(files(c)) /\ files(c)[at[c]] \in Paths
      BY <1>1, <1>2, <1>4, PositionInList DEF PathList
    <2>2. among(files(c)[at[c]], files(c))
      BY <2>1 DEF among
    <2>3. ~before(files(c)[at[c]], files(c), at[c])
      BY <1>2, <2>1 DEF PathList, before
    <2>4. ~kept(c, files(c)[at[c]])
      BY <1>1, <2>2, AtomicPaths DEF kept
    <2> QED  BY <1>1, <1>4, <2>1, <2>2, <2>3, <2>4, Outputs DEF BaseInv, Upper, MayOwn
  <1> QED  BY <1>3, <1>4

\* Undisturbed, nobody removes anything.
LEMMA ExistsStays ==
    ASSUME RaceInv, Undisturbed, [Next]_vars, NEW p \in Paths, exists(p)
    PROVE  exists(p)'
  <1>1. BaseInv /\ TypeOK /\ \A c \in Commands : Control(c) /\ Refused(c)
    BY DEF RaceInv, ApartInv, BaseInv
  <1>2. CASE Visit \/ UNCHANGED vars
    <2>1. file("visitor", TRUE) # Absent
      BY DEF file, Absent
    <2>2. fs'[p] = fs[p] \/ fs'[p] = file("visitor", TRUE)
      BY <1>1, <1>2 DEF Visit, vars, TypeOK
    <2> QED  BY <2>1, <2>2 DEF exists
  <1>3. ASSUME NEW c \in Commands, Step(c) \/ Kill(c) PROVE exists(p)'
    <2>1. ~Removes(c, p)
      <3>1. at[c] \in Nat \ {0}
        BY <1>1 DEF TypeOK
      <3>2. pc[c] \in Removing => removal_list(c) = <<>>
        BY <1>1 DEF Removing, Refused, removal_list
      <3>3. Len(<<>>) = 0
        OBVIOUS
      <3> QED  BY <3>1, <3>2, <3>3 DEF Removes
    <2>2. Renames(c, p) => fs'[p] = file(c, TRUE)
      BY <1>1, RenamedIsSynced
    <2>3. file(c, TRUE) # Absent
      BY RequestAssumption DEF file, Absent
    <2> QED  BY <1>1, <1>3, <2>1, <2>2, <2>3, PathEffect DEF exists
  <1> QED  BY <1>2, <1>3 DEF Next

\* A command that fails undisturbed is refused before it has renamed anything.
LEMMA RefusedStep ==
    ASSUME RaceInv, Undisturbed, NEW c \in Commands, Step(c) \/ Kill(c), ~faults'
    PROVE  Refused(c)'
  <1>1. ApartInv /\ BaseInv /\ TypeOK /\ Lower /\ Control(c) /\ Refused(c)
    BY DEF RaceInv, ApartInv, BaseInv
  <1>2. request' = request /\ request \in [Commands -> Requests]
    BY <1>1, Effects DEF TypeOK
  <1>3. names(c)' = names(c) /\ names(c) \subseteq Paths
    <2>1. preflight_paths(c)' = preflight_paths(c)
      BY <1>2 DEF preflight_paths, outputs, archive_paths, atomic_outputs
    <2> QED  BY <1>2, <2>1, PreflightPaths DEF names
  <1>4. /\ pc \in [Commands -> Labels] /\ at \in [Commands -> Nat \ {0}]
        /\ persisted \in [Commands -> Seq(Paths)]
        /\ request[c].kind \in {"sink", "memory", "keypair"}
        /\ request[c].force \in BOOLEAN
    BY <1>1, <1>2, RequestType DEF TypeOK
  <1>5. \A l : Goto(c, l) => pc'[c] = l /\ at'[c] = 1
    BY <1>4 DEF Goto
  <1>6. \A l : Exit(c, l) => pc'[c] = l /\ at'[c] = 1
    BY <1>5 DEF Exit
  <1>7. Advance(c) => pc'[c] = pc[c] /\ at'[c] = at[c] + 1
    BY <1>4 DEF Advance
  <1>8. ASSUME NEW p \in names(c), exists(p), ~request[c].force
        PROVE  (\E q \in names(c) : exists(q))' /\ ~request'[c].force
    <2>1. [Next]_vars
      BY DEF Next
    <2>2. exists(p)'
      BY <1>3, <1>8, <2>1, ExistsStays
    <2> QED  BY <1>2, <1>3, <1>8, <2>2
  <1>9. \A p : among(p, outputs(c)) => p \in names(c)
    BY <1>2, Outputs
  <1>10. ASSUME pc'[c] \notin Removing \cup {"failed"} PROVE Refused(c)'
    BY <1>10 DEF Refused, Removing
  <1>11. ~Kill(c)
    BY DEF Kill
  <1>12. CASE Preflight(c) \/ Recheck(c)
    <2>1. CASE /\ ~request[c].force
               /\ \/ at[c] <= Len(preflight_paths(c)) /\ exists(preflight_paths(c)[at[c]])
                  \/ at[c] <= Len(outputs(c)) /\ exists(outputs(c)[at[c]])
               /\ pc'[c] = "failed"
      <3>1. preflight_paths(c) \in Seq(Paths) /\ outputs(c) \in Seq(Paths) /\ at[c] \in Nat \ {0}
        BY <1>2, <1>4, PreflightPaths, Outputs
      <3>2. \E p \in names(c) : exists(p)
        <4>1. CASE at[c] <= Len(preflight_paths(c)) /\ exists(preflight_paths(c)[at[c]])
          <5>1. at[c] \in 1 .. Len(preflight_paths(c))
            BY <3>1, <4>1, PositionInList
          <5> QED  BY <4>1, <5>1 DEF names
        <4>2. CASE at[c] <= Len(outputs(c)) /\ exists(outputs(c)[at[c]])
          <5>1. at[c] \in 1 .. Len(outputs(c))
            BY <3>1, <4>2, PositionInList
          <5>2. among(outputs(c)[at[c]], outputs(c))
            BY <5>1 DEF among
          <5> QED  BY <1>9, <4>2, <5>2
        <4> QED  BY <2>1, <4>1, <4>2
      <3> QED  BY <1>2, <1>8, <2>1, <3>2 DEF Refused
    <2>2. CASE pc'[c] \in Staging \cup {"check_files"}
      BY <1>10, <2>2 DEF Staging, Removing
    <2>3. CASE Preflight(c)
      <3>1. \/ Advance(c) /\ pc[c] = "preflight"
            \/ Goto(c, "check_files") \/ Goto(c, "build") \/ Goto(c, "stage")
            \/ PathTaken(c, preflight_paths(c)) /\ Exit(c, "failed")
        BY <1>4, <2>3 DEF Preflight, PathsFree
      <3> QED  BY <1>5, <1>6, <1>7, <2>1, <2>2, <3>1 DEF PathTaken, Staging
    <2>4. CASE Recheck(c)
      <3>1. \/ Advance(c) /\ pc[c] = "recheck"
            \/ Goto(c, "stage")
            \/ PathTaken(c, outputs(c)) /\ Exit(c, "failed")
        BY <2>4 DEF Recheck, PathsFree
      <3> QED  BY <1>5, <1>6, <1>7, <2>1, <2>2, <3>1 DEF PathTaken, Staging
    <2> QED  BY <1>12, <2>3, <2>4
  <1>13. CASE \/ BuildInMemory(c) \/ CreateTemp(c) \/ WriteToSink(c) \/ WriteVolume(c)
              \/ SyncTemp(c) \/ StageFile(c)
    <2>1. \/ Advance(c) /\ pc[c] \in Staging \cup {"stage_files"}
          \/ Goto(c, "recheck") \/ Goto(c, "fill") \/ Goto(c, "sync") \/ Goto(c, "publish")
          \/ Goto(c, "publish_files")
      BY <1>13 DEF BuildInMemory, CreateTemp, WriteToSink, WriteVolume, SyncTemp, StageFile,
                   Staging
    <2> QED  BY <1>5, <1>7, <1>10, <2>1 DEF Staging, Removing
  <1>14. CASE PublishArchive(c)
    <2>1. pc[c] = "publish" /\ request[c].kind # "keypair"
          /\ Len(persisted[c]) = at[c] - 1 /\ begins(persisted[c], order(c))
      BY <1>1, <1>14 DEF PublishArchive, Control, Ended
    <2>2. CASE /\ at[c] <= Len(order(c)) /\ ~request[c].force /\ exists(order(c)[at[c]])
               /\ pc'[c] = "rollback" /\ persisted' = persisted
      <3> DEFINE p == order(c)[at[c]]
      <3>1. p \in Paths /\ among(p, outputs(c)) /\ ~owns(c, p)
        BY <1>1, <2>1, <2>2, NotYetOwned
      <3>2. at[c] = 1
        <4> SUFFICES ASSUME at[c] # 1 PROVE FALSE
          OBVIOUS
        <4>1. PathList(order(c)) /\ at[c] \in Nat \ {0} /\ Len(order(c)) \in Nat \ {0}
          BY <1>2, <1>4, PublishOrder, RequestType, SMTT(40)
        <4>2. before(first(c), order(c), at[c]) /\ first(c) \in Paths
          BY <2>1, <4>1 DEF before, first, PathList
        <4>3. owns(c, first(c))
          BY <1>1, <2>1, <4>2 DEF Lower, MustOwn
        <4> QED  BY <2>1, <2>2, <3>1, <4>3, FirstIsNotRefused
      <3>3. persisted'[c] = <<>>
        BY <1>4, <2>1, <2>2, <3>2
      <3>4. p \in names(c)
        BY <1>9, <3>1
      <3> QED  BY <1>2, <1>8, <2>2, <3>3, <3>4 DEF Refused
    <2>3. CASE pc'[c] \in {"publish", "check_files", "succeeded"}
      BY <1>10, <2>3 DEF Removing
    <2> QED  BY <1>5, <1>7, <1>14, <2>1, <2>2, <2>3
                DEF PublishArchive, Publish, RenameFails, order
  <1>15. CASE CheckFiles(c)
    <2>1. pc[c] = "check_files"
      BY <1>15 DEF CheckFiles
    <2>2. CASE PathTaken(c, files(c)) /\ FilesFail(c)
      <3> DEFINE p == files(c)[at[c]]
      <3>1. p \in Paths /\ among(p, outputs(c)) /\ ~owns(c, p) /\ exists(p) /\ ~request[c].force
        BY <1>1, <2>1, <2>2, NotYetOwned DEF PathTaken
      <3>2. request[c].kind = "keypair"
        <4> SUFFICES ASSUME request[c].kind # "keypair" PROVE FALSE
          OBVIOUS
        <4>1. order(c)[1] \in Paths /\ among(order(c)[1], order(c))
          <5>1. PathList(order(c)) /\ Len(order(c)) \in Nat \ {0}
            BY <1>2, PublishOrder, RequestType
          <5> QED  BY <5>1 DEF PathList, among
        <4>2. kept(c, order(c)[1])
          BY <1>2, <4>1, PublishOrder DEF kept
        <4>3. owns(c, first(c))
          BY <1>1, <2>1, <4>1, <4>2 DEF Lower, MustOwn, first
        <4> QED  BY <2>1, <3>1, <4>3, FirstIsNotRefused
      <3>3. pc'[c] = "failed"
        BY <1>6, <2>2, <3>2 DEF FilesFail
      <3>4. p \in names(c)
        BY <1>9, <3>1
      <3> QED  BY <1>2, <1>8, <3>1, <3>3, <3>4 DEF Refused
    <2>3. CASE pc'[c] \in {"check_files", "stage_files"}
      BY <1>10, <2>3 DEF Removing
    <2> QED  BY <1>5, <1>7, <1>15, <2>1, <2>2, <2>3 DEF CheckFiles, PathsFree, files
  <1>16. CASE PublishFiles(c)
    <2>1. pc[c] = "publish_files"
          /\ Len(persisted[c]) = at[c] - 1 /\ begins(persisted[c], files(c))
      BY <1>1, <1>16 DEF PublishFiles, Control
    <2>2. CASE /\ at[c] <= Len(files(c)) /\ ~request[c].force /\ exists(files(c)[at[c]])
               /\ pc'[c] = "rollback_files" /\ persisted' = persisted
      <3> DEFINE p == files(c)[at[c]]
      <3>1. p \in Paths /\ among(p, outputs(c)) /\ ~owns(c, p)
        BY <1>1, <2>1, <2>2, NotYetOwned
      <3>2. ~owns(c, first(c))
        BY <2>1, <2>2, <3>1, FirstIsNotRefused
      <3>3. request[c].kind = "keypair"
        <4> SUFFICES ASSUME request[c].kind # "keypair" PROVE FALSE
          OBVIOUS
        <4>1. order(c)[1] \in Paths /\ among(order(c)[1], order(c))
          <5>1. PathList(order(c)) /\ Len(order(c)) \in Nat \ {0}
            BY <1>2, PublishOrder, RequestType
          <5> QED  BY <5>1 DEF PathList, among
        <4>2. kept(c, order(c)[1])
          BY <1>2, <4>1, PublishOrder DEF kept
        <4> QED  BY <1>1, <2>1, <3>2, <4>1, <4>2 DEF Lower, MustOwn, first
      <3>4. at[c] = 1
        <4> SUFFICES ASSUME at[c] # 1 PROVE FALSE
          OBVIOUS
        <4>1. files(c) = <<Secret, Public>> /\ Secret \in Paths
          BY <1>2, <3>3, AtomicPaths, PathsDiffer
        <4>2. before(Secret, files(c), at[c])
          BY <1>4, <4>1 DEF before
        <4> QED  BY <1>1, <2>1, <3>2, <3>3, <4>1, <4>2 DEF Lower, MustOwn, first
      <3>5. persisted'[c] = <<>>
        BY <1>4, <2>1, <2>2, <3>4
      <3>6. p \in names(c)
        BY <1>9, <3>1
      <3> QED  BY <1>2, <1>8, <2>2, <3>3, <3>5, <3>6 DEF Refused
    <2>3. CASE pc'[c] \in {"publish_files", "succeeded"}
      BY <1>10, <2>3 DEF Removing
    <2> QED  BY <1>5, <1>7, <1>16, <2>1, <2>2, <2>3
                DEF PublishFiles, Publish, RenameFails, files
  <1>17. CASE Rollback(c) \/ RollbackFiles(c) \/ RemoveArchive(c)
    <2>1. pc[c] \in {"rollback", "rollback_files"} /\ persisted[c] = <<>>
          /\ (pc[c] = "rollback_files" => request[c].kind = "keypair")
          /\ ~request[c].force /\ \E p \in names(c) : exists(p)
      BY <1>1, <1>17 DEF Refused, Rollback, RollbackFiles, RemoveArchive
    <2>2. ~(at[c] <= Len(persisted[c]))
      BY <1>4, <2>1
    <2>3. pc'[c] = "failed"
      BY <1>6, <1>17, <2>1, <2>2
         DEF Rollback, RollbackFiles, RemoveArchive, FilesFail, rollback_paths
    <2> QED  BY <1>2, <1>8, <2>1, <2>3 DEF Refused
  <1> QED  BY <1>11, <1>12, <1>13, <1>14, <1>15, <1>16, <1>17 DEF Step

\* The invariant holds at the start ...
LEMMA RaceInit == Init /\ ForcedApart => RaceInv
  <1> SUFFICES ASSUME Init, ForcedApart PROVE RaceInv
    OBVIOUS
  <1>1. ApartInv
    BY ApartInit
  <1>2. \A c \in Commands : pc[c] = "preflight" /\ at[c] = 1
    BY DEF Init
  <1>3. \A c \in Commands : Seen(c)
    <2> TAKE c \in Commands
    <2>1. \A i \in 1 .. Len(preflight_paths(c)) : ~(i < 1)
      OBVIOUS
    <2> QED  BY <1>2, <2>1 DEF Seen
  <1>4. \A c \in Commands : Refused(c)
    BY <1>2 DEF Refused
  <1> QED  BY <1>1, <1>2, <1>3, <1>4 DEF RaceInv, Init

\* ... and is kept by every step.
LEMMA RaceStep == RaceInv /\ [Next]_vars => RaceInv'
  <1> SUFFICES ASSUME RaceInv, [Next]_vars PROVE RaceInv'
    OBVIOUS
  <1>1. ApartInv' /\ TypeOK
    BY ApartStep DEF RaceInv, ApartInv, BaseInv
  <1>2. \A c \in Commands : Seen(c)'
    BY SeenStep
  <1>3. ASSUME ~faults' PROVE stuck' = {} /\ \A c \in Commands : pc'[c] # "killed"
    <2>1. (faults' = faults /\ stuck' = stuck) \/ faults' = TRUE
      BY ZenonT(60) DEF Next, Visit, vars, Step, Kill, Preflight, BuildInMemory, Recheck, CreateTemp,
             WriteToSink, WriteVolume, SyncTemp, PublishArchive, Rollback, CheckFiles, StageFile,
             PublishFiles, RollbackFiles, RemoveArchive, Remove, Publish, RenameFails
    <2>2. ASSUME NEW c \in Commands PROVE pc'[c] # "killed"
      <3>1. pc[c] # "killed" /\ pc \in [Commands -> Labels]
        BY <1>1, <1>3, <2>1 DEF RaceInv, TypeOK
      <3>2. CASE Visit \/ UNCHANGED vars
        BY <3>1, <3>2 DEF Visit, vars
      <3>3. ASSUME NEW d \in Commands, Step(d) \/ Kill(d), d # c PROVE pc'[c] # "killed"
        BY <1>1, <3>1, <3>3, Effects
      <3>4. CASE Step(c)
        <4>1. request[c].kind \in {"sink", "memory", "keypair"}
          BY <1>1, RequestType DEF TypeOK
        <4>2. CASE Preflight(c)
          <5>1. \/ Advance(c) \/ Exit(c, "failed")
                \/ Goto(c, "check_files") \/ Goto(c, "build") \/ Goto(c, "stage")
            BY <4>1, <4>2 DEF Preflight, PathsFree, PathTaken
          <5> QED  BY <3>1, <5>1 DEF Advance, Exit, Goto
        <4>3. CASE \/ BuildInMemory(c) \/ Recheck(c)
                   \/ CreateTemp(c) \/ WriteToSink(c) \/ WriteVolume(c) \/ SyncTemp(c)
                   \/ PublishArchive(c) \/ Rollback(c)
                   \/ CheckFiles(c) \/ StageFile(c) \/ PublishFiles(c) \/ RollbackFiles(c)
                   \/ RemoveArchive(c)
          BY <3>1, <4>3
             DEF BuildInMemory, Recheck, CreateTemp, WriteToSink, WriteVolume,
                 SyncTemp, PublishArchive, Rollback, CheckFiles, StageFile, PublishFiles,
                 RollbackFiles, RemoveArchive, Publish, PathsFree, PathTaken, FilesFail, Exit,
                 Goto, Advance
        <4> QED  BY <3>4, <4>2, <4>3 DEF Step
      <3>5. ~Kill(c)
        BY <1>3 DEF Kill
      <3> QED  BY <3>2, <3>3, <3>4, <3>5 DEF Next
    <2> QED  BY <1>3, <2>1, <2>2 DEF RaceInv
  <1>4. ASSUME Undisturbed', NEW c \in Commands PROVE Refused(c)'
    <2>1. Undisturbed /\ ~faults'
      BY <1>4, UndisturbedBefore DEF Undisturbed
    <2>2. CASE Step(c) \/ Kill(c)
      BY <2>1, <2>2, RefusedStep
    <2>3. CASE ~(Step(c) \/ Kill(c))
      <3>1. Refused(c)
        BY <2>1 DEF RaceInv
      <3>2. /\ request' = request /\ pc'[c] = pc[c] /\ persisted'[c] = persisted[c]
        BY <1>1, <2>3, Effects DEF Next, Visit, vars
      <3>3. names(c)' = names(c) /\ names(c) \subseteq Paths
        <4>1. preflight_paths(c)' = preflight_paths(c)
          BY <3>2 DEF preflight_paths, outputs, archive_paths, atomic_outputs
        <4> QED  BY <1>1, <4>1, PreflightPaths DEF names, TypeOK
      <3>4. \A p \in names(c) : exists(p) => exists(p)'
        BY <2>1, <3>3, ExistsStays
      <3> QED  BY <3>1, <3>2, <3>3, <3>4 DEF Refused
    <2> QED  BY <2>2, <2>3
  <1> QED  BY <1>1, <1>2, <1>3, <1>4 DEF RaceInv

\* Commands that race for the same names never make each other all fail: a command
\* that was refused, when no system call failed, finds one of the files it was
\* refused for.
THEOREM RefusalAlwaysJustified == ApartSpec => []RefusalIsJustified
  <1>1. RaceInv => RefusalIsJustified
    <2> SUFFICES ASSUME RaceInv, ~faults, \A p \in Paths : fs[p].by # "visitor",
                        NEW c \in Commands, pc[c] = "failed"
                 PROVE  \E i \in 1 .. Len(preflight_paths(c)) : exists(preflight_paths(c)[i])
      BY DEF RefusalIsJustified
    <2>1. \A d \in Commands : names(d) \subseteq Paths
      BY PreflightPaths DEF RaceInv, ApartInv, BaseInv, TypeOK
    <2>2. Undisturbed
      BY <2>1 DEF Undisturbed
    <2>3. \E p \in names(c) : exists(p)
      BY <2>2 DEF RaceInv, Refused
    <2> QED  BY <2>3 DEF names
  <1> QED  BY <1>1, RaceInit, RaceStep, PTL DEF ApartSpec
=============================================================================
