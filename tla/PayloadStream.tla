---------------------------- MODULE PayloadStream ----------------------------
(***************************************************************************)
(* What every payload writer promises, and all the metadata writer and the *)
(* reader rely on: the payload is a sequence of objects laid out one after *)
(* the other from block 0, the blocks are written in order and object by   *)
(* object, a success leaves nothing unwritten, and after a failure no more *)
(* is written.                                                             *)
(*                                                                         *)
(* ParallelWriter and SinglePassWriter implement it.                       *)
(***************************************************************************)
EXTENDS Integers, Sequences

CONSTANT Sizes   \* the numbers of blocks an object may have

VARIABLES
    objects,     \* the layout: first block and number of blocks of each object
    written,     \* the number of blocks written
    status       \* "open", "ok" or "failed"

svars == <<objects, written, status>>

\* The number of blocks laid out so far.
planned ==
    IF objects = <<>> THEN 0
    ELSE objects[Len(objects)].first + objects[Len(objects)].size

Init == objects = <<>> /\ written = 0 /\ status = "open"

\* An object is laid out after the ones before it.
Plan ==
    /\ status = "open"
    /\ \E n \in Sizes : objects' = Append(objects, [first |-> planned, size |-> n])
    /\ UNCHANGED <<written, status>>

\* The first object that is not written is written whole.
Write ==
    /\ status = "open"
    /\ \E i \in DOMAIN objects :
          /\ objects[i].first = written
          /\ written' = objects[i].first + objects[i].size
    /\ UNCHANGED <<objects, status>>

\* An object is laid out and written in one step.
PlanAndWrite ==
    /\ status = "open"
    /\ written = planned
    /\ \E n \in Sizes : /\ objects' = Append(objects, [first |-> planned, size |-> n])
                        /\ written' = planned + n
    /\ UNCHANGED status

\* The writer gives up, perhaps in the middle of an object.
Fail ==
    /\ status = "open"
    /\ status' = "failed"
    /\ \/ written' = written
       \/ \E i \in DOMAIN objects :
             /\ objects[i].first = written
             /\ \E n \in 0 .. objects[i].size : written' = written + n
       \/ /\ written = planned
          /\ \E n \in Sizes : \E k \in 0 .. n : written' = written + k
    /\ UNCHANGED objects

Succeed ==
    /\ status = "open"
    /\ written = planned
    /\ status' = "ok"
    /\ UNCHANGED <<objects, written>>

Next == Plan \/ Write \/ PlanAndWrite \/ Fail \/ Succeed

Spec == Init /\ [][Next]_svars
==============================================================================
