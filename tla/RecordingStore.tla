--------------------------- MODULE RecordingStore ---------------------------
(***************************************************************************)
(* The recordings of servo_controller on disk: one JSON file per name, the *)
(* preference .active_parking, the legacy file, and what the node keeps of *)
(* them: the index of names, the buffer that a playback plays, its name    *)
(* and the recording chosen for parking.                                   *)
(*                                                                         *)
(* Files are rewritten in place and never synced.  A write may fail (the   *)
(* disk is full), the node may be killed, and the robot may lose power: a  *)
(* file that had not reached the disk is then torn.  The node's memory is  *)
(* lost in both cases, so a crash in the middle of a write is a loss of    *)
(* power after it.                                                         *)
(*                                                                         *)
(* Callbacks and buttons are atomic; the wheels, the joystick and the mode *)
(* are in ServoController, which takes the contents of the disk for given. *)
(***************************************************************************)
EXTENDS Integers, FiniteSets, Sequences

CONSTANTS
  Name,       \* safe names of recordings; their order is that of sorted()
  Default,    \* 'default', the name the legacy file is migrated to
  Sample,     \* samples (motor_pwm, servo_angle)
  MaxSamples  \* bound of record_buffer

NoName == 0   \* ''

ASSUME StoreAssumption ==
  /\ IsFiniteSet(Name) /\ Name \subseteq Nat \ {NoName} /\ Default \in Name
  /\ MaxSamples \in Nat

VARIABLES
  disk,    \* the files, and which of them are only in the page cache
  node,    \* the node, when it is up
  chosen,  \* history: the choice for parking that a restart has to find
  mixed    \* history: set_active loaded the buffer of a running recording

vars == <<disk, node, chosen, mixed>>

File   == [state : {"absent", "torn", "whole"}, take : Seq(Sample)]
Absent == [state |-> "absent", take |-> << >>]
Torn   == [state |-> "torn", take |-> << >>]
Whole(take) == [state |-> "whole", take |-> take]

\* An empty .active_parking reads like a missing one.
Disk == [ file     : [Name -> File],
          legacy   : File,                      \* ~/recorded_movement.json
          pref     : Name \cup {NoName},        \* .active_parking
          unsynced : SUBSET Name,
          prefUnsynced : BOOLEAN ]

Node == [ up      : BOOLEAN,
          index   : SUBSET Name,                \* saved_recordings
          current : Name \cup {NoName},         \* current_recording_name
          active  : Name \cup {NoName},         \* active_parking_recording
          buf     : Seq(Sample),                \* record_buffer
          rp      : {"IDLE", "RECORDING", "PLAYBACK"},
          cycle   : Int ]                       \* _cycling_index

Blank == [ up |-> FALSE, index |-> {}, current |-> NoName, active |-> NoName,
           buf |-> << >>, rp |-> "IDLE", cycle |-> -1 ]

TypeOK ==
  /\ disk \in Disk
  /\ node \in Node
  /\ chosen \in Name \cup {NoName}
  /\ mixed \in BOOLEAN

\* The robot is new, or comes from the version with a single recording.
Init ==
  /\ \E old \in {Absent, Torn} \cup {Whole(<<s>>) : s \in Sample} :
       disk = [ file |-> [n \in Name |-> Absent], legacy |-> old, pref |-> NoName,
                unsynced |-> {}, prefUnsynced |-> FALSE ]
  /\ node = Blank
  /\ chosen = NoName
  /\ mixed = FALSE

-----------------------------------------------------------------------------
(* Reading and writing.                                                    *)

IsWhole(n) == disk.file[n].state = "whole"

\* _scan_saved_recordings: a file that is not JSON is left out.
Listed(files) == {n \in Name : files[n].state = "whole"}

Position(names, n) == IF n \in names THEN Cardinality({m \in names : m < n}) ELSE -1

\* _load_recording_by_name: without a readable file nothing changes.
Loaded(nd, files, n) ==
  IF files[n].state # "whole" THEN nd
  ELSE [nd EXCEPT !.buf = files[n].take, !.current = n, !.cycle = Position(nd.index, n)]

\* A file after a write of a take, which may fail half way.
Outcome(take) == {Whole(take), Torn}

-----------------------------------------------------------------------------
(* Start and end of the node.                                              *)

Migrates == disk.legacy.state = "whole" /\ disk.file[Default].state = "absent"

\* Mutant: the preference is not looked at.
PreferredIgnored(names) == CHOOSE n \in names : \A m \in names : n <= m

\* _load_active_parking_recording: the choice, or the first of the names.
Preferred(names) ==
  IF disk.pref \in names THEN disk.pref ELSE CHOOSE n \in names : \A m \in names : n <= m

\* __init__: migrate, scan, load.
Boot ==
  /\ ~node.up
  /\ \E f \in IF Migrates THEN Outcome(disk.legacy.take) ELSE {disk.file[Default]} :
       LET files == [disk.file EXCEPT ![Default] = f]
           names == Listed(files)
           fresh == [Blank EXCEPT !.up = TRUE, !.index = names]
       IN  /\ disk' = [disk EXCEPT !.file = files,
                         !.unsynced = IF Migrates THEN @ \cup {Default} ELSE @]
           /\ node' = IF names = {} THEN fresh
                      ELSE LET n == Preferred(names)
                           IN  Loaded([fresh EXCEPT !.active = n], files, n)
  /\ mixed' = FALSE
  /\ UNCHANGED chosen

Killed ==
  /\ node.up
  /\ node' = Blank
  /\ UNCHANGED <<disk, chosen, mixed>>

PowerLoss ==
  /\ node' = Blank
  /\ \E lost \in SUBSET disk.unsynced,
        pref \in {disk.pref} \cup (IF disk.prefUnsynced THEN {NoName} ELSE {}) :
       /\ disk' = [disk EXCEPT
                     !.file = [n \in Name |-> IF n \in lost THEN Torn ELSE disk.file[n]],
                     !.pref = pref, !.unsynced = {}, !.prefUnsynced = FALSE]
       /\ chosen' = IF chosen \in lost \/ pref # chosen THEN NoName ELSE chosen
  /\ UNCHANGED mixed

\* The kernel writes its pages back.
WriteBack ==
  /\ disk' = [disk EXCEPT !.unsynced = {}, !.prefUnsynced = FALSE]
  /\ UNCHANGED <<node, chosen, mixed>>

-----------------------------------------------------------------------------
(* Recording and playback, as far as the buffer goes.                      *)

Idle == node.up /\ node.rp = "IDLE"

\* Mutant: the name of the old buffer stays.
RecordKeepsName ==
  /\ Idle
  /\ node' = [node EXCEPT !.rp = "RECORDING", !.buf = << >>]
  /\ mixed' = FALSE
  /\ UNCHANGED <<disk, chosen>>

Record ==
  /\ Idle
  /\ node' = [node EXCEPT !.rp = "RECORDING", !.buf = << >>, !.current = NoName]
  /\ mixed' = FALSE
  /\ UNCHANGED <<disk, chosen>>

RecordSample(s) ==
  /\ node.rp = "RECORDING" /\ Len(node.buf) < MaxSamples
  /\ node' = [node EXCEPT !.buf = Append(@, s)]
  /\ UNCHANGED <<disk, chosen, mixed>>

Play ==
  /\ Idle /\ node.buf # << >>
  /\ node' = [node EXCEPT !.rp = "PLAYBACK"]
  /\ UNCHANGED <<disk, chosen, mixed>>

\* By button, command or change of mode, and at the end of a playback.
Stop ==
  /\ node.rp # "IDLE"
  /\ node' = [node EXCEPT !.rp = "IDLE"]
  /\ UNCHANGED <<disk, chosen, mixed>>

-----------------------------------------------------------------------------
(* The commands on names.  A name that is typed in becomes a safe name; the *)
(* name taken from the clock is that of the same second at worst.          *)

\* A write that fails leaves the node as it was and the file torn.
Save(n) ==
  /\ Idle /\ node.buf # << >>
  /\ \E f \in Outcome(node.buf) :
       LET files == [disk.file EXCEPT ![n] = f]
       IN  /\ disk' = [disk EXCEPT !.file = files, !.unsynced = @ \cup {n}]
           /\ node' = IF f = Torn THEN node
                      ELSE [node EXCEPT !.current = n, !.index = Listed(files)]
           /\ mixed' = (mixed /\ f = Torn)
           /\ chosen' = IF f = Torn /\ n = chosen THEN NoName ELSE chosen

Load(n) ==
  /\ Idle
  /\ node' = Loaded(node, disk.file, n)
  /\ mixed' = (mixed /\ ~IsWhole(n))
  /\ UNCHANGED <<disk, chosen>>

Delete(n) ==
  /\ Idle /\ disk.file[n].state # "absent"
  /\ LET files == [disk.file EXCEPT ![n] = Absent]
         gone(m) == IF m = n THEN NoName ELSE m
     IN  /\ disk' = [disk EXCEPT !.file = files, !.unsynced = @ \ {n}]
         /\ node' = [node EXCEPT !.index = Listed(files),
                       !.current = gone(@), !.active = gone(@),
                       !.buf = IF node.current = n THEN << >> ELSE @]
         /\ chosen' = gone(chosen)
  /\ mixed' = (mixed /\ node.current # n)

\* Whatever rp_state is.  A preference that cannot be written is swallowed.
SetActive(n) ==
  /\ node.up /\ n \in node.index
  /\ \E pref \in {n, NoName, disk.pref} :
       /\ disk' = [disk EXCEPT !.pref = pref, !.prefUnsynced = TRUE]
       /\ chosen' = IF pref = n /\ IsWhole(n) THEN n ELSE NoName
  /\ node' = Loaded([node EXCEPT !.active = n], disk.file, n)
  /\ mixed' = IF IsWhole(n) THEN node.rp = "RECORDING" ELSE mixed

\* D-Pad left and right.
Cycle(direction) ==
  /\ Idle /\ node.index # {}
  /\ LET k == (node.cycle + direction) % Cardinality(node.index)
     IN  \E n \in node.index :
           /\ Position(node.index, n) = k
           /\ node' = Loaded([node EXCEPT !.cycle = k], disk.file, n)
           /\ mixed' = (mixed /\ ~IsWhole(n))
  /\ UNCHANGED <<disk, chosen>>

List ==
  /\ node.up
  /\ node' = [node EXCEPT !.index = Listed(disk.file)]
  /\ UNCHANGED <<disk, chosen, mixed>>

Next ==
  \/ Boot \/ Killed \/ PowerLoss \/ WriteBack
  \/ Record \/ Play \/ Stop \/ List
  \/ \E s \in Sample : RecordSample(s)
  \/ \E n \in Name : Save(n) \/ Load(n) \/ Delete(n) \/ SetActive(n)
  \/ \E direction \in {1, -1} : Cycle(direction)

Spec == Init /\ [][Next]_vars

-----------------------------------------------------------------------------
(* Properties.                                                             *)

\* What the state topic shows of the recordings is true: every name listed has a
\* file, every readable file is listed, and the recording that is named as loaded
\* is what a playback will play, whatever failed or was deleted in between.
\* (Only set_active in the middle of a recording breaks the last: the samples
\* that follow are appended to the recording it has loaded.)
ShownIsTrue ==
  node.up =>
    /\ \A n \in Name : IsWhole(n) => n \in node.index
    /\ \A n \in node.index \cup ({node.current, node.active} \ {NoName}) :
         disk.file[n].state # "absent"
    /\ node.current # NoName /\ IsWhole(node.current) /\ ~mixed =>
         node.buf = disk.file[node.current].take

\* A restart finds the recording that was chosen for parking, after a kill or a
\* loss of power at any moment, if its file and the preference had been written;
\* and whatever was torn, it has something to play while one readable file is left.
RestartFindsChoice ==
  [][~node.up /\ node'.up =>
       /\ chosen # NoName => node'.active = chosen
       /\ (\E n \in Name : IsWhole(n)) =>
            /\ node'.active # NoName /\ node'.current = node'.active
            /\ node'.buf = disk'.file[node'.active].take]_vars
=============================================================================
