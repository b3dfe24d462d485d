------------------------------ MODULE FolderMove ------------------------------
(***************************************************************************)
(* s3.py, s3_move_folder_between_buckets: the files of a folder are listed *)
(* and, one after the other, copied to another bucket and deleted.  Calls  *)
(* run side by side, fail at any of their requests, and are made again;    *)
(* other programs go on uploading into the folder.                         *)
(*                                                                         *)
(* A file is its name below the folder; the marker object of the folder    *)
(* itself stays where it is and is left out.  Files are moved in any order *)
(* here, in that of the listing there.  A request that fails has taken     *)
(* effect by then or never will.                                           *)
(***************************************************************************)
EXTENDS Integers, FiniteSets

CONSTANTS Files, Movers,
          MaxVersion   \* bound: uploads of a file

ASSUME MoveAssumption == MaxVersion \in Nat /\ Files # {}

VARIABLES
  source, dest,     \* the version of each file that each bucket holds, or 0
  step,             \* what each mover does next, or how its call has ended
  objects_to_move,  \* what remains of them
  obj_key,          \* the file it is at
  \* History:
  newest,           \* the version of each file uploaded last
  torn,             \* files uploaded last between a copy and its delete
  listed            \* the versions that each mover's listing found

move_vars ==
  <<source, dest, step, objects_to_move, obj_key, newest, torn, listed>>

Absent == 0
Versions == Absent..MaxVersion
Ended == {"returned", "raised"}

MoveInit ==
  /\ source = [f \in Files |-> Absent]
  /\ dest = [f \in Files |-> Absent]
  /\ step = [m \in Movers |-> "returned"]
  /\ objects_to_move = [m \in Movers |-> {}]
  /\ obj_key = [m \in Movers |-> CHOOSE f \in Files : TRUE]
  /\ newest = [f \in Files |-> Absent]
  /\ torn = {}
  /\ listed = [m \in Movers |-> source]

Upload(f) ==
  /\ newest[f] < MaxVersion
  /\ newest' = [newest EXCEPT ![f] = @ + 1]
  /\ source' = [source EXCEPT ![f] = newest[f] + 1]
  /\ \/ /\ \E m \in Movers : step[m] = "delete" /\ obj_key[m] = f
        /\ torn' = torn \cup {f}
     \/ /\ ~\E m \in Movers : step[m] = "delete" /\ obj_key[m] = f
        /\ torn' = torn \ {f}
  /\ UNCHANGED <<dest, step, objects_to_move, obj_key, listed>>

List(m) ==
  /\ step[m] \in Ended
  /\ objects_to_move' = [objects_to_move EXCEPT ![m] =
                           {f \in Files : source[f] # Absent}]
  /\ listed' = [listed EXCEPT ![m] = source]
  /\ step' = [step EXCEPT ![m] = "copy"]
  /\ UNCHANGED <<source, dest, obj_key, newest, torn>>

CopyObject(f) ==
  /\ source[f] # Absent
  /\ dest' = [dest EXCEPT ![f] = source[f]]

Copy(m) ==
  /\ step[m] = "copy"
  /\ \E f \in objects_to_move[m] :
       /\ CopyObject(f)
       /\ obj_key' = [obj_key EXCEPT ![m] = f]
  /\ step' = [step EXCEPT ![m] = "delete"]
  /\ UNCHANGED <<source, objects_to_move, newest, torn, listed>>

(* Mutant of DeleteObject: all that was listed.                            *)
DeleteListed(m) ==
  source' = [f \in Files |-> IF f \in objects_to_move[m] THEN Absent ELSE source[f]]

(* It is no error if the file is no longer there.                          *)
DeleteObject(m) == source' = [source EXCEPT ![obj_key[m]] = Absent]

Delete(m) ==
  /\ step[m] = "delete"
  /\ DeleteObject(m)
  /\ objects_to_move' = [objects_to_move EXCEPT ![m] = @ \ {obj_key[m]}]
  /\ step' = [step EXCEPT ![m] = "copy"]
  /\ UNCHANGED <<dest, obj_key, newest, torn, listed>>

Done(m) == objects_to_move[m] = {}

Return(m) ==
  /\ step[m] = "copy"
  /\ Done(m)
  /\ step' = [step EXCEPT ![m] = "returned"]
  /\ UNCHANGED <<source, dest, objects_to_move, obj_key, newest, torn, listed>>

(* Any request fails, a timeout is raised or the process ends; a file that *)
(* another call has moved cannot be copied.                                *)
Raise(m) ==
  /\ step[m] \notin Ended
  /\ step' = [step EXCEPT ![m] = "raised"]
  /\ objects_to_move' = [objects_to_move EXCEPT ![m] = {}]
  /\ UNCHANGED <<source, dest, obj_key, newest, torn, listed>>

MoveNext ==
  \/ \E f \in Files : Upload(f)
  \/ \E m \in Movers : List(m) \/ Copy(m) \/ Delete(m) \/ Return(m) \/ Raise(m)

MoveSpec == MoveInit /\ [][MoveNext]_move_vars

-----------------------------------------------------------------------------
(* Properties.                                                             *)

MoveTypeOK ==
  /\ source \in [Files -> Versions]
  /\ dest \in [Files -> Versions]
  /\ step \in [Movers -> {"copy", "delete"} \cup Ended]
  /\ objects_to_move \in [Movers -> SUBSET Files]
  /\ obj_key \in [Movers -> Files]
  /\ newest \in [Files -> Versions]
  /\ torn \subseteq Files
  /\ listed \in [Movers -> [Files -> Versions]]

(* Whatever fails, and whoever else moves the same folder, what was        *)
(* uploaded last is in one of the buckets, unless it was uploaded over a   *)
(* file that had been copied and was about to be deleted.                  *)
NothingIsLost == \A f \in Files \ torn : newest[f] \in {source[f], dest[f]}

(* A call that returns without an exception has moved all it listed, in    *)
(* the version it listed or in a newer one.                                *)
ReturnedMeansMoved ==
  \A m \in Movers :
    step[m] = "returned" => \A f \in Files : listed[m][f] <= dest[f]
=============================================================================
