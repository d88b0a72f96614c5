---------------------------- MODULE EntryFidelity ----------------------------
(***************************************************************************)
(* The native metadata of one entry on Linux: captured from a live object  *)
(* (linux_metadata.rs), planned against a restore policy (plan_restore of  *)
(* tar_model/restore.rs) and applied to the restored object one system     *)
(* call at a time (tar_model/os_restore.rs).                               *)
(*                                                                         *)
(* An object is a set of attributes and the ctime the kernel advances with *)
(* every change.  What of the entry is reported to the caller is the set   *)
(* `diagnostics`; "native" in it stands for one report about all of the    *)
(* entry's native metadata.                                                *)
(***************************************************************************)
EXTENDS Integers, Sequences, FiniteSets
LOCAL INSTANCE SequencesExt

CONSTANTS
    Objects,        \* [kind, attrs]: the objects there may be to capture
    Foreign,        \* entries of archives written on another system
    Requests,       \* [policy, authorized, degraded]
    MaxChanges,     \* bound: changes another process makes during the capture
    MaxRefusals     \* bound: changes the kernel refuses during the restore

\* aux_xattr and aux_system_xattr are extended attributes past the inline budget.
Native == {"acl", "xattr", "system_xattr", "aux_xattr", "aux_system_xattr",
           "flags", "no_change", "unknown_flags", "project_id", "birth"}
Auxiliary == {"aux_xattr", "aux_system_xattr"}

VARIABLES
    object,         \* the object captured, as it is now: [kind, attrs, ctime]
    history,        \* every state the object was in
    seen,           \* the identities read: before, after the open, at the end
    entry,          \* [kind, attrs, here, required, unknown, partial]
    request, changes, refusals,
    todo,           \* the steps left
    inode,          \* the attributes of the restored object
    diagnostics,
    outcome         \* "open", "capture_err", "refused", "err" or "ok"

vars == <<object, history, seen, entry, request, changes, refusals, todo, inode,
          diagnostics, outcome>>

nothing == [kind |-> "none", attrs |-> {}, here |-> TRUE, required |-> TRUE,
            unknown |-> FALSE, partial |-> "no"]

\* capture_linux_metadata and capture_linux_symlink_metadata, in the order of their reads.
capture_linux_metadata ==
    <<"identity", "open", "xattrs", "inode_flags", "project", "times", "reidentify">>
capture_linux_symlink_metadata == <<"identity", "xattrs", "times", "reidentify">>

Init ==
    /\ request \in Requests /\ changes = 0 /\ refusals = 0
    /\ inode = {} /\ diagnostics = {} /\ outcome = "open" /\ seen = {}
    /\ \/ \E o \in Objects :
             /\ object = [kind |-> o.kind, attrs |-> o.attrs, ctime |-> 0]
             /\ entry = [nothing EXCEPT !.kind = o.kind]
             /\ todo = IF o.kind = "symlink" THEN capture_linux_symlink_metadata
                                             ELSE capture_linux_metadata
       \/ /\ entry \in Foreign /\ todo = <<"plan">>
          /\ object = [kind |-> "none", attrs |-> {}, ctime |-> 0]
    /\ history = {object.attrs}

-----------------------------------------------------------------------------
(***************************************************************************)
(* Capture                                                                 *)
(***************************************************************************)

\* The extended attributes a listing may name, and the step that gets one.
capture_xattr == [acl |-> "get_acl", xattr |-> "get_xattr", system_xattr |-> "get_system_xattr",
                  aux_xattr |-> "get_aux_xattr", aux_system_xattr |-> "get_aux_system_xattr"]

Capturing == outcome = "open" /\ todo # <<>> /\ Head(todo) \in
                ToSet(capture_linux_metadata) \cup Range(capture_xattr)

\* Another process sets or removes an attribute.
Change ==
    /\ Capturing /\ changes < MaxChanges /\ changes' = changes + 1
    /\ \E a \in {"acl", "xattr", "flags", "project_id"} :
          /\ object.kind # "symlink" \/ a = "xattr"
          /\ LET after == IF a \in object.attrs THEN object.attrs \ {a} ELSE object.attrs \cup {a}
             IN  /\ object' = [object EXCEPT !.attrs = after, !.ctime = @ + 1]
                 /\ history' = history \cup {after}
    /\ UNCHANGED <<seen, entry, request, refusals, todo, inode, diagnostics, outcome>>

\* Mutant: what identifies an object leaves out when it last changed.
identity_without_ctime(o) == [kind |-> o.kind, ctime |-> 0]

\* What of an object tells one state of it from another.
identity(o) == [kind |-> o.kind, ctime |-> o.ctime]

Reading(step) ==
    /\ Capturing /\ Head(todo) = step /\ todo' = Tail(todo)
    /\ UNCHANGED <<object, history, request, changes, refusals, inode, diagnostics>>

Record(step, class) ==
    /\ Reading(step)
    /\ entry' = [entry EXCEPT !.attrs = @ \cup (object.attrs \cap class)]
    /\ UNCHANGED <<seen, outcome>>

Identify == /\ Reading("identity") /\ seen' = {identity(object)}
            /\ UNCHANGED <<entry, outcome>>

\* open_linux_metadata_file: a file that cannot be opened is pinned without being
\* read, and then its inode flags and project id are not captured.
Open ==
    /\ Capturing /\ Head(todo) = "open"
    /\ IF seen # {identity(object)}
       THEN outcome' = "capture_err" /\ UNCHANGED todo
       ELSE /\ \/ todo' = Tail(todo)
               \/ todo' = SelectSeq(Tail(todo), LAMBDA s : s \notin {"inode_flags", "project"})
            /\ UNCHANGED outcome
    /\ UNCHANGED <<object, history, seen, entry, request, changes, refusals, inode, diagnostics>>

\* The names are listed first, then the value of each is read.
ListXattrs ==
    /\ Capturing /\ Head(todo) = "xattrs"
    /\ LET names == SetToSeq(object.attrs \cap DOMAIN capture_xattr)
       IN  todo' = [k \in DOMAIN names |-> capture_xattr[names[k]]] \o Tail(todo)
    /\ UNCHANGED <<object, history, seen, entry, request, changes, refusals, inode, diagnostics, outcome>>

\* A name that was listed and is gone is the error "xattr changed during metadata capture".
GetXattr ==
    \E a \in DOMAIN capture_xattr :
        /\ Reading(capture_xattr[a])
        /\ IF a \in object.attrs
           THEN entry' = [entry EXCEPT !.attrs = @ \cup {a}] /\ UNCHANGED outcome
           ELSE outcome' = "capture_err" /\ UNCHANGED entry
        /\ UNCHANGED seen

CaptureInodeFlags == Record("inode_flags", {"flags", "no_change", "unknown_flags"})
CaptureProjectId == Record("project", {"project_id"})
\* Mode, ownership and mtime come with the object; the birth time is read here.
CaptureTimes == Record("times", {"birth", "mtime", "mode", "setid", "owner", "wide_owner", "atime", "sparse", "hidden"})

Reidentify ==
    /\ Capturing /\ Head(todo) = "reidentify"
    /\ IF seen = {identity(object)}
       THEN todo' = <<"plan">> /\ UNCHANGED outcome
       ELSE outcome' = "capture_err" /\ UNCHANGED todo
    /\ UNCHANGED <<object, history, seen, entry, request, changes, refusals, inode, diagnostics>>

-----------------------------------------------------------------------------
(***************************************************************************)
(* plan_restore                                                            *)
(***************************************************************************)

requests_same_os == request.policy \in {"SameOs", "System"}
requests_system == request.policy = "System"
restores_system == requests_system /\ request.authorized
has_native == entry.attrs \cap Native # {}
required_native == has_native /\ entry.required

system_xattr_name == {"system_xattr", "aux_system_xattr"}
source_os_matches_current_host == entry.here
native_auxiliary_restore_supported(include_system) ==
    IF include_system THEN Auxiliary ELSE Auxiliary \ system_xattr_name

\* The native scalars a Linux host cannot restore.
linux_inode_flags_restore_unsupported == "unknown_flags" \in entry.attrs
native_primary_restore_unsupported(include_system) ==
    \/ linux_inode_flags_restore_unsupported
    \/ ~include_system /\ "project_id" \in entry.attrs
    \/ ~entry.here /\ entry.attrs \cap {"flags", "no_change", "birth"} # {}

capture_omission == [refuse |-> entry.partial = "required" /\ ~request.degraded,
                     report |-> {}]
unknown_profiles == [refuse |-> entry.unknown /\ entry.required /\ ~request.degraded,
                     report |-> {}]
content_policy ==
    [refuse |-> FALSE,
     report |-> IF request.policy # "Content" THEN {}
                ELSE {"mode", "mtime"} \cup (IF entry.kind = "symlink" THEN {"object"} ELSE {})]
special_object == [refuse |-> FALSE,
                   report |-> IF entry.kind = "fifo" /\ ~restores_system THEN {"object"} ELSE {}]
\* Linux writes sparse files natively.
sparse_layout == [refuse |-> FALSE,
                  report |-> IF request.policy = "Content" THEN {"sparse"} ELSE {}]
\* A wide owner has an id that uid_t or gid_t cannot hold.
numeric_ownership_supported == "wide_owner" \notin entry.attrs
ownership_and_setid ==
    [refuse |-> requests_system /\ ~numeric_ownership_supported /\ ~request.degraded,
     report |-> IF requests_system THEN {"wide_owner"} ELSE {"owner", "wide_owner", "setid"}]
\* No Linux attribute stands for the portable hidden bit.
portable_attributes ==
    [refuse |-> "hidden" \in entry.attrs /\ request.policy # "Content" /\ ~request.degraded,
     report |-> {"hidden"}]
outside_same_os ==
    [refuse |-> FALSE,
     report |-> {"atime"} \cup
                IF requests_same_os /\ ~requests_system
                THEN {"system_xattr", "no_change"} ELSE {}]
native_support ==
    LET unsupported == \/ requests_system /\ ~numeric_ownership_supported
                       \/ required_native /\ native_primary_restore_unsupported(requests_system)
                       \/ required_native /\ ~source_os_matches_current_host
    IN  [refuse |-> requests_same_os /\ unsupported /\ ~request.degraded,
         report |-> IF requests_same_os /\ unsupported THEN {"native"} ELSE {}]
native_outside_policy ==
    [refuse |-> FALSE,
     report |->
        IF \/ has_native /\ ~requests_same_os
           \/ /\ requests_same_os /\ has_native /\ ~entry.required
              /\ \/ native_primary_restore_unsupported(requests_system)
                 \/ ~source_os_matches_current_host
        THEN {"native"} ELSE {}]
\* An optional record is reported as unsupported whether or not it is restored.
auxiliary_records ==
    [refuse |-> FALSE,
     report |-> IF ~requests_same_os \/ ~entry.required THEN Auxiliary
                ELSE IF requests_system THEN {} ELSE {"aux_system_xattr"}]

planned == {capture_omission, unknown_profiles, content_policy, special_object, sparse_layout,
            ownership_and_setid, portable_attributes, outside_same_os, native_support,
            native_outside_policy, auxiliary_records}
plan_refuses == (requests_system /\ ~request.authorized) \/ \E p \in planned : p.refuse
plan_reports == UNION {p.report : p \in planned}

\* Mutant: the ownership is changed after what the change clears was restored.
metadata_parts_owner_late ==
    <<"mode", "acl", "aux", "xattr", "owner", "mtime", "project_id", "flags">>

apply_restored_regular_file_metadata_parts ==
    <<"owner", "mode", "acl", "aux", "xattr", "mtime", "project_id", "flags">>

symlink_metadata == <<"owner", "xattr", "aux", "mtime">>

\* on_member decides whether the object is restored at all.
skipped == \/ entry.kind = "symlink" /\ request.policy = "Content"
           \/ entry.kind = "fifo" /\ ~restores_system

plan_restore ==
    /\ outcome = "open" /\ todo = <<"plan">>
    /\ IF plan_refuses
       THEN outcome' = "refused" /\ todo' = <<>> /\ UNCHANGED <<diagnostics, inode>>
       ELSE /\ diagnostics' = plan_reports
            /\ inode' = IF entry.kind = "regular" THEN {"data"} \cup (entry.attrs \cap {"sparse"}) ELSE {"data"}
            /\ todo' = IF skipped \/ request.policy = "Content" THEN <<>>
                       ELSE IF entry.kind = "symlink" THEN symlink_metadata
                       ELSE apply_restored_regular_file_metadata_parts
            /\ outcome' = IF skipped \/ request.policy = "Content" THEN "ok" ELSE "open"
    /\ UNCHANGED <<object, history, seen, entry, request, changes, refusals>>

-----------------------------------------------------------------------------
(***************************************************************************)
(* The application, one attribute class after the other                    *)
(***************************************************************************)

finished == IF Len(todo) = 1 THEN "ok" ELSE "open"

\* record_metadata_application_failure; without --degraded the object is removed.
record_metadata_application_failure(class) ==
    IF request.degraded
    THEN /\ diagnostics' = diagnostics \cup class /\ todo' = Tail(todo) /\ outcome' = finished
         /\ UNCHANGED inode
    ELSE /\ outcome' = "err" /\ todo' = <<>> /\ inode' = {} /\ UNCHANGED diagnostics

\* One system call that puts `class` on the object and clears `cleared`; the kernel
\* may refuse it, and refuses any once the object is immutable.
Apply(step, class, cleared) ==
    /\ outcome = "open" /\ todo # <<>> /\ Head(todo) = step
    /\ \/ /\ class = {} \/ "no_change" \notin inode
          /\ inode' = IF class = {} THEN inode ELSE (inode \ cleared) \cup class
          /\ todo' = Tail(todo) /\ outcome' = finished
          /\ UNCHANGED <<diagnostics, refusals>>
       \/ /\ class # {} /\ (refusals < MaxRefusals \/ "no_change" \in inode)
          /\ refusals' = IF "no_change" \in inode THEN refusals ELSE refusals + 1
          /\ record_metadata_application_failure(class)
    /\ UNCHANGED <<object, history, seen, entry, request, changes>>

archived(class) == entry.attrs \cap class
same_os(class) == IF entry.here /\ requests_same_os THEN archived(class) ELSE {}

\* chown drops the set-id bits and the file capabilities.  An id too wide for the
\* host ends the restore even where a degraded one was asked for.
apply_regular_file_ownership ==
    \/ /\ ~restores_system \/ numeric_ownership_supported
       /\ Apply("owner", IF restores_system THEN archived({"owner"}) ELSE {},
                {"setid", "system_xattr", "aux_system_xattr"})
    \/ /\ outcome = "open" /\ todo # <<>> /\ Head(todo) = "owner"
       /\ restores_system /\ ~numeric_ownership_supported
       /\ outcome' = "err" /\ todo' = <<>> /\ inode' = {}
       /\ UNCHANGED <<object, history, seen, entry, request, changes, refusals, diagnostics>>
apply_regular_file_mode ==
    Apply("mode", IF restores_system THEN archived({"mode", "setid"}) ELSE archived({"mode"}), {})
apply_regular_file_posix_acl == Apply("acl", same_os({"acl"}), {})
\* Only the records begin_auxiliary_payload staged are left to apply.
begin_auxiliary_payload ==
    IF requests_same_os THEN native_auxiliary_restore_supported(requests_system) ELSE {}
apply_generic_xattr_auxiliaries == Apply("aux", archived(begin_auxiliary_payload), {})
apply_regular_file_xattrs ==
    Apply("xattr", same_os(IF restores_system THEN {"xattr", "system_xattr"} ELSE {"xattr"}), {})
apply_regular_file_mtime == Apply("mtime", archived({"mtime"}), {})
apply_linux_project_id ==
    Apply("project_id", IF entry.here /\ restores_system THEN archived({"project_id"}) ELSE {}, {})
\* Immutable or append-only among the flags keeps all of them for a system restore.
apply_linux_inode_flags ==
    Apply("flags",
          IF "no_change" \in entry.attrs /\ ~restores_system THEN {}
          ELSE same_os({"flags", "no_change"}), {})

Next ==
    \/ Change \/ Identify \/ Open \/ ListXattrs \/ GetXattr \/ CaptureInodeFlags \/ CaptureProjectId
    \/ CaptureTimes \/ Reidentify \/ plan_restore
    \/ apply_regular_file_ownership \/ apply_regular_file_mode \/ apply_regular_file_posix_acl
    \/ apply_generic_xattr_auxiliaries \/ apply_regular_file_xattrs \/ apply_regular_file_mtime
    \/ apply_linux_project_id \/ apply_linux_inode_flags

Spec == Init /\ [][Next]_vars

-----------------------------------------------------------------------------
(***************************************************************************)
(* Properties                                                              *)
(***************************************************************************)

\* A capture that succeeds while another process changes the object recorded the
\* attributes of one moment, never some of before and some of after a change (an
\* object that cannot be opened is captured without its inode flags).
CaptureIsConsistent ==
    outcome \notin {"capture_err"} /\ ~Capturing /\ object.kind # "none" =>
        \E h \in history :
           entry.attrs \in {h, h \ {"flags", "no_change", "unknown_flags", "project_id"}}

reported(a) == a \in diagnostics \/ (a \in Native /\ "native" \in diagnostics)
               \/ "object" \in diagnostics
lost == entry.attrs \ inode

\* What the steps of the restore put on an object under the policy: all that is
\* portable, of an entry of this system what needs no authorisation, and the rest
\* for an authorised system restore.
PolicyApplies ==
    {"mode", "mtime"} \cup
    (IF ~(entry.here /\ requests_same_os) THEN {}
     ELSE {"acl", "xattr", "aux_xattr"} \cup (IF "no_change" \in entry.attrs THEN {} ELSE {"flags"})) \cup
    (IF ~(entry.here /\ restores_system) THEN {}
     ELSE {"owner", "setid", "system_xattr", "aux_system_xattr", "project_id", "flags", "no_change"})

\* full_fidelity_possible of metadata_verification_report.
full_fidelity_possible ==
    /\ entry.partial = "no" /\ entry.here /\ "hidden" \notin entry.attrs
    /\ numeric_ownership_supported
    /\ ~(entry.required /\ (entry.unknown \/ "unknown_flags" \in entry.attrs))

\* No step undoes or blocks another: after a restore that succeeds, what the policy
\* applies of the archived attributes is still on the object or its loss is reported,
\* whichever changes the kernel refused; and when `verify` calls full fidelity possible
\* and the kernel refused none, an authorised system restore has left it all there
\* (os_restore.rs:565-590).
AppliedMetadataStands ==
    outcome = "ok" =>
        /\ \A a \in lost \cap PolicyApplies : reported(a)
        /\ full_fidelity_possible /\ restores_system /\ refusals = 0 /\ entry.required =>
              lost \cap PolicyApplies = {}

\* The specification's "No silent success after metadata loss": a restore that
\* succeeds has put every archived attribute on the object or reported it.  The birth
\* time, which the plan counts as supported and no step applies, breaks it
\* (os_restore.rs:296, 555-592).
NoSilentLoss == outcome = "ok" => \A a \in lost : reported(a)
=============================================================================
