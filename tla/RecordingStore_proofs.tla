----------------------- MODULE RecordingStore_proofs -----------------------
(***************************************************************************)
(* Proofs about RecordingStore, for every set of names and every take.     *)
(* ShownIsTrue is inductive with one fact more, that a running recording   *)
(* has no name or was mixed; a restart finds the choice because what the   *)
(* history calls chosen is on the disk, in the preference and as a file.   *)
(***************************************************************************)
EXTENDS RecordingStore, FiniteSetTheorems, WellFoundedInduction, TLAPS

\* A running recording is not shown under the name of another one.
RecordingUnnamed ==
  node.rp = "RECORDING" => node.current = NoName \/ mixed

\* The choice is on the disk.
ChoiceStored ==
  chosen # NoName => disk.pref = chosen /\ IsWhole(chosen)

IInv ==
  /\ TypeOK
  /\ ShownIsTrue
  /\ RecordingUnnamed
  /\ ChoiceStored

-----------------------------------------------------------------------------
(* Facts about the helpers.                                                *)

\* The first of the sorted names exists.
LEMMA LeastName ==
  ASSUME NEW names \in SUBSET Name, names # {}
  PROVE  \E n \in names : \A m \in names : n <= m
<1> DEFINE upTo(n) == {m \in names : m <= n}
            tails == {upTo(n) : n \in names}
<1>1. names \subseteq Nat /\ IsFiniteSet(names)
  BY StoreAssumption, FS_Subset
<1>2. IsWellFoundedOn(StrictSubsetOrdering(names), FiniteSubsetsOf(names))
  BY FS_StrictSubsetOrderingWellFounded
<1>3. tails \subseteq FiniteSubsetsOf(names) /\ tails # {}
  <2>1. \A n \in names : upTo(n) \in SUBSET names /\ IsFiniteSet(upTo(n))
    BY <1>1, FS_Subset
  <2>2. QED
    BY <2>1 DEF FiniteSubsetsOf
<1>4. PICK n \in names : \A m \in names : ~ (<<upTo(m), upTo(n)>> \in StrictSubsetOrdering(names))
  <2>1. \E t \in tails : \A u \in tails : ~ (<<u, t>> \in StrictSubsetOrdering(names))
    BY <1>2, <1>3, WFMin
  <2> QED BY <2>1
<1>5. \A m \in names : n <= m
  <2>1. SUFFICES ASSUME NEW m \in names, m < n PROVE FALSE
    BY <1>1
  <2>2. m \in Nat /\ n \in Nat
    BY <1>1
  <2>3. n \in upTo(n) /\ n \notin upTo(m)
    BY <2>1, <2>2
  <2>4. upTo(m) \subseteq upTo(n)
    <3>1. \A k \in names : k <= m => k <= n
      BY <2>1, <2>2, <1>1
    <3>2. QED
      BY <3>1
  <2>5. upTo(m) \in SUBSET names /\ upTo(n) \in SUBSET names
    OBVIOUS
  <2> HIDE DEF upTo
  <2>6. QED
    BY <2>3, <2>4, <2>5, <1>4 DEF StrictSubsetOrdering
<1>6. QED
  BY <1>5

LEMMA PreferredListed ==
  ASSUME NEW names \in SUBSET Name, names # {}
  PROVE  /\ Preferred(names) \in names
         /\ disk.pref \in names => Preferred(names) = disk.pref
BY LeastName DEF Preferred

LEMMA PositionType ==
  ASSUME NEW names \in SUBSET Name, NEW n
  PROVE  Position(names, n) \in Int
<1>1. IsFiniteSet({m \in names : m < n})
  BY StoreAssumption, FS_Subset
<1>2. QED
  BY <1>1, FS_CardinalityType DEF Position

\* Loading a name that is not empty.
LEMMA LoadedLemma ==
  ASSUME NEW nd \in Node, NEW files \in [Name -> File], NEW n \in Name
  PROVE  /\ Loaded(nd, files, n) \in Node
         /\ Loaded(nd, files, n).up = nd.up /\ Loaded(nd, files, n).index = nd.index
         /\ Loaded(nd, files, n).active = nd.active /\ Loaded(nd, files, n).rp = nd.rp
         /\ files[n].state = "whole" =>
              Loaded(nd, files, n).current = n /\ Loaded(nd, files, n).buf = files[n].take
         /\ files[n].state # "whole" => Loaded(nd, files, n) = nd
<1>1. Position(nd.index, n) \in Int
  BY PositionType DEF Node
<1>2. files[n].take \in Seq(Sample)
  BY DEF File
<1>3. QED
  BY <1>1, <1>2 DEF Loaded, Node

\* A take that is written is a file.
LEMMA OutcomeType ==
  ASSUME NEW take \in Seq(Sample)
  PROVE  /\ Outcome(take) \subseteq File
         /\ \A f \in Outcome(take) : f.state # "absent"
         /\ \A f \in Outcome(take) : f # Torn => f = Whole(take) /\ f.state = "whole"
         /\ Torn.state = "torn" /\ Absent.state = "absent" /\ Absent \in File
BY DEF Outcome, Whole, Torn, Absent, File

LEMMA BlankType ==
  /\ Blank \in Node /\ ~Blank.up /\ Blank.rp = "IDLE"
  /\ Blank.current = NoName /\ Blank.active = NoName
<1>1. << >> \in Seq(Sample)
  OBVIOUS
<1>2. QED
  BY <1>1 DEF Blank, Node

-----------------------------------------------------------------------------
(* Every action keeps the invariant.                                       *)

LEMMA InitKeeps == Init => IInv
<1> SUFFICES ASSUME Init PROVE IInv
  OBVIOUS
<1>1. Absent \in File /\ Torn \in File /\ \A s \in Sample : Whole(<<s>>) \in File
  BY DEF Absent, Torn, Whole, File
<1>2. disk \in Disk
  <2>1. PICK old \in {Absent, Torn} \cup {Whole(<<s>>) : s \in Sample} :
          disk = [ file |-> [n \in Name |-> Absent], legacy |-> old, pref |-> NoName,
                   unsynced |-> {}, prefUnsynced |-> FALSE ]
    BY DEF Init
  <2>2. old \in File /\ [n \in Name |-> Absent] \in [Name -> File]
    BY <1>1
  <2>3. QED
    BY <2>1, <2>2 DEF Disk
<1>3. QED
  BY <1>2, BlankType DEF Init, IInv, TypeOK, ShownIsTrue, RecordingUnnamed, ChoiceStored

\* What a start does: what it finds, lists and loads.
LEMMA BootLemma ==
  ASSUME IInv, Boot
  PROVE  /\ disk' \in Disk /\ node' \in Node /\ node'.up
         /\ disk'.pref = disk.pref
         /\ node'.index = Listed(disk'.file) /\ node'.rp = "IDLE"
         /\ \A n \in Name : IsWhole(n) => disk'.file[n] = disk.file[n]
         /\ node'.index = {} => node'.active = NoName /\ node'.current = NoName
         /\ node'.index # {} =>
              /\ node'.active \in node'.index /\ node'.current = node'.active
              /\ node'.buf = disk'.file[node'.active].take
              /\ disk.pref \in node'.index => node'.active = disk.pref
<1> USE DEF IInv, TypeOK
<1>0. PICK f \in IF Migrates THEN Outcome(disk.legacy.take) ELSE {disk.file[Default]} :
        LET files == [disk.file EXCEPT ![Default] = f]
            names == Listed(files)
            fresh == [Blank EXCEPT !.up = TRUE, !.index = names]
        IN  /\ disk' = [disk EXCEPT !.file = files,
                          !.unsynced = IF Migrates THEN @ \cup {Default} ELSE @]
            /\ node' = IF names = {} THEN fresh
                       ELSE LET n == Preferred(names)
                            IN  Loaded([fresh EXCEPT !.active = n], files, n)
  BY DEF Boot
<1> DEFINE files == [disk.file EXCEPT ![Default] = f]
           names == Listed(files)
           fresh == [Blank EXCEPT !.up = TRUE, !.index = names]
           n == Preferred(names)
           nd == [fresh EXCEPT !.active = n]
<1>1. Default \in Name
  BY StoreAssumption
<1>2. f \in File /\ (Migrates \/ f = disk.file[Default])
  <2>1. disk.legacy.take \in Seq(Sample) /\ disk.file[Default] \in File
    BY <1>1 DEF Disk, File
  <2>2. QED
    BY <1>0, <2>1, OutcomeType
<1>3. files \in [Name -> File]
  BY <1>2 DEF Disk
<1>4. /\ disk' \in Disk /\ disk'.pref = disk.pref /\ disk'.file = files
  <2>1. disk' = [disk EXCEPT !.file = files,
                    !.unsynced = IF Migrates THEN @ \cup {Default} ELSE @]
    BY <1>0
  <2> HIDE DEF files
  <2>2. QED
    BY <2>1, <1>1, <1>3 DEF Disk
<1>5. \A m \in Name : IsWhole(m) => files[m] = disk.file[m]
  BY <1>1, <1>2 DEF IsWhole, Migrates, Disk
<1>6. names \in SUBSET Name
  BY DEF Listed
<1>7. fresh \in Node /\ fresh.up /\ fresh.index = names /\ fresh.rp = "IDLE"
      /\ fresh.active = NoName /\ fresh.current = NoName
  <2> HIDE DEF names
  <2>1. QED
    BY <1>6, BlankType DEF Node
<1>8. CASE names = {}
  <2>1. node' = fresh
    BY <1>0, <1>8
  <2> HIDE DEF fresh, names
  <2>2. QED
    BY <2>1, <1>4, <1>5, <1>7, <1>8 DEF names
<1>9. CASE names # {}
  <2>1. node' = Loaded(nd, files, n)
    BY <1>0, <1>9
  <2>2. n \in names /\ n \in Name /\ (disk.pref \in names => n = disk.pref)
    BY <1>6, <1>9, PreferredListed
  <2> HIDE DEF fresh, n
  <2>3. nd \in Node /\ nd.up /\ nd.index = names /\ nd.rp = "IDLE" /\ nd.active = n
    BY <1>7, <2>2 DEF Node
  <2>4. files[n].state = "whole"
    BY <2>2 DEF Listed
  <2> HIDE DEF nd, files
  <2>5. /\ node' \in Node /\ node'.up /\ node'.index = names /\ node'.rp = "IDLE"
        /\ node'.active = n /\ node'.current = n /\ node'.buf = files[n].take
    BY <2>1, <2>2, <2>3, <2>4, <1>3, LoadedLemma
  <2>6. QED
    BY <2>2, <2>5, <1>4, <1>5, <1>9
<1>10. QED
  BY <1>8, <1>9

LEMMA BootKeeps == IInv /\ Boot => IInv'
<1> SUFFICES ASSUME IInv, Boot PROVE IInv'
  OBVIOUS
<1> USE BootLemma
<1>1. mixed' = FALSE /\ chosen' = chosen
  BY DEF Boot
<1>2. TypeOK'
  BY <1>1 DEF IInv, TypeOK
<1>3. /\ node'.index \subseteq Name
      /\ \A n \in Name : disk'.file[n].state = "whole" <=> n \in node'.index
  BY DEF Listed
<1>4. ShownIsTrue'
  <2>1. CASE node'.index = {}
    BY <1>3, <2>1 DEF ShownIsTrue, IsWhole
  <2>2. CASE node'.index # {}
    BY <1>3, <2>2 DEF ShownIsTrue, IsWhole
  <2>3. QED
    BY <2>1, <2>2
<1>5. RecordingUnnamed'
  BY DEF RecordingUnnamed
<1>6. ChoiceStored'
  BY <1>1 DEF IInv, TypeOK, ChoiceStored, IsWhole
<1>7. QED
  BY <1>2, <1>4, <1>5, <1>6 DEF IInv

\* The end of the process and the disk.
LEMMA EndsKeep ==
  ASSUME IInv, Killed \/ PowerLoss \/ WriteBack
  PROVE  IInv'
<1> USE DEF IInv, TypeOK
<1>0. Blank \in Node /\ ~Blank.up /\ Blank.rp = "IDLE"
  BY BlankType
<1>1. CASE Killed
  BY <1>0, <1>1 DEF Killed, ShownIsTrue, RecordingUnnamed, ChoiceStored, IsWhole
<1>2. CASE PowerLoss
  <2>1. PICK lost \in SUBSET disk.unsynced,
             pref \in {disk.pref} \cup (IF disk.prefUnsynced THEN {NoName} ELSE {}) :
          /\ disk' = [disk EXCEPT
                        !.file = [n \in Name |-> IF n \in lost THEN Torn ELSE disk.file[n]],
                        !.pref = pref, !.unsynced = {}, !.prefUnsynced = FALSE]
          /\ chosen' = IF chosen \in lost \/ pref # chosen THEN NoName ELSE chosen
    BY <1>2 DEF PowerLoss
  <2>2. Torn \in File /\ pref \in Name \cup {NoName}
    BY DEF Torn, File, Disk
  <2>3. /\ disk' \in Disk /\ disk'.pref = pref
        /\ \A n \in Name \ lost : disk'.file[n] = disk.file[n]
    BY <2>1, <2>2 DEF Disk
  <2>4. node' = Blank /\ mixed' = mixed
    BY <1>2 DEF PowerLoss
  <2>5. ChoiceStored'
    BY <2>1, <2>3 DEF ChoiceStored, IsWhole
  <2>6. QED
    BY <2>1, <2>3, <2>4, <2>5, <1>0 DEF ShownIsTrue, RecordingUnnamed
<1>3. CASE WriteBack
  <2>1. disk' \in Disk /\ disk'.file = disk.file /\ disk'.pref = disk.pref
    BY <1>3 DEF WriteBack, Disk
  <2>2. QED
    BY <2>1, <1>3 DEF WriteBack, ShownIsTrue, RecordingUnnamed, ChoiceStored, IsWhole
<1>4. QED
  BY <1>1, <1>2, <1>3

\* Recording, playing and listing leave the files alone.
LEMMA BufferKeeps ==
  ASSUME IInv, Record \/ Play \/ Stop \/ List \/ \E s \in Sample : RecordSample(s)
  PROVE  IInv'
<1> USE DEF IInv, TypeOK
<1>0. node \in Node /\ disk \in Disk
  OBVIOUS
<1>1. CASE Record
  <2>1. node' \in Node /\ node'.up = node.up /\ node'.index = node.index
        /\ node'.current = NoName /\ node'.active = node.active
    <3>1. << >> \in Seq(Sample)
      OBVIOUS
    <3>2. QED
      BY <3>1, <1>1 DEF Record, Node
  <2>2. QED
    BY <2>1, <1>1 DEF Record, ShownIsTrue, RecordingUnnamed, ChoiceStored, IsWhole
<1>2. CASE Play \/ Stop
  <2>1. /\ node' \in Node /\ node'.up = node.up /\ node'.index = node.index
        /\ node'.current = node.current /\ node'.active = node.active /\ node'.buf = node.buf
        /\ node'.rp \in {"IDLE", "PLAYBACK"}
    <3>1. \E to \in {"IDLE", "PLAYBACK"} : node' = [node EXCEPT !.rp = to]
      BY <1>2 DEF Play, Stop
    <3>2. QED
      BY <3>1, <1>0 DEF Node
  <2>2. QED
    BY <2>1, <1>2 DEF Play, Stop, ShownIsTrue, RecordingUnnamed, ChoiceStored, IsWhole
<1>3. CASE List
  <2>1. Listed(disk.file) \in SUBSET Name
    BY DEF Listed
  <2>2. /\ node' \in Node /\ node'.up = node.up /\ node'.index = Listed(disk.file)
        /\ node'.current = node.current /\ node'.active = node.active /\ node'.buf = node.buf
        /\ node'.rp = node.rp
    BY <2>1, <1>3 DEF List, Node
  <2>3. QED
    BY <2>2, <1>3 DEF List, Listed, ShownIsTrue, RecordingUnnamed, ChoiceStored, IsWhole
<1>4. ASSUME NEW s \in Sample, RecordSample(s) PROVE IInv'
  <2>1. /\ node' \in Node /\ node'.up = node.up /\ node'.index = node.index
        /\ node'.current = node.current /\ node'.active = node.active
        /\ node'.rp = node.rp
    <3>1. Append(node.buf, s) \in Seq(Sample)
      BY <1>4 DEF Node
    <3>2. node' = [node EXCEPT !.buf = Append(node.buf, s)]
      BY <1>4 DEF RecordSample
    <3>3. QED
      BY <3>1, <3>2, <1>0 DEF Node
  <2>2. node.current = NoName \/ mixed
    BY <1>4 DEF RecordSample, RecordingUnnamed
  <2>3. QED
    BY <2>1, <2>2, <1>4 DEF RecordSample, ShownIsTrue, RecordingUnnamed, ChoiceStored, IsWhole
<1>5. QED
  BY <1>1, <1>2, <1>3, <1>4

LEMMA SaveKeeps ==
  ASSUME IInv, NEW n \in Name, Save(n)
  PROVE  IInv'
<1> USE DEF IInv, TypeOK
<1>0. PICK f \in Outcome(node.buf) :
        LET files == [disk.file EXCEPT ![n] = f]
        IN  /\ disk' = [disk EXCEPT !.file = files, !.unsynced = @ \cup {n}]
            /\ node' = IF f = Torn THEN node
                       ELSE [node EXCEPT !.current = n, !.index = Listed(files)]
            /\ mixed' = (mixed /\ f = Torn)
            /\ chosen' = IF f = Torn /\ n = chosen THEN NoName ELSE chosen
  BY DEF Save
<1> DEFINE files == [disk.file EXCEPT ![n] = f]
<1>1. /\ f \in File /\ f.state # "absent" /\ Torn.state = "torn"
      /\ f # Torn => f = Whole(node.buf) /\ f.state = "whole" /\ f.take = node.buf
  <2>1. node.buf \in Seq(Sample)
    BY DEF Node
  <2>2. QED
    BY <2>1, OutcomeType DEF Whole
<1>2. files \in [Name -> File] /\ files[n] = f /\ \A m \in Name \ {n} : files[m] = disk.file[m]
  BY <1>1 DEF Disk
<1>3. disk' \in Disk /\ disk'.file = files /\ disk'.pref = disk.pref
  <2> HIDE DEF files
  <2>1. QED
    BY <1>0, <1>2 DEF Disk, files
<1>4. node.rp = "IDLE" /\ node.up
  BY DEF Save, Idle
<1> HIDE DEF files
<1>5. ChoiceStored'
  BY <1>0, <1>1, <1>2, <1>3 DEF ChoiceStored, IsWhole
<1>6. CASE f = Torn
  <2>1. node' = node /\ mixed' = mixed /\ mixed' \in BOOLEAN /\ chosen' \in Name \cup {NoName}
    BY <1>0, <1>6
  <2>2. ShownIsTrue'
    BY <1>1, <1>2, <1>3, <1>6, <2>1 DEF ShownIsTrue, IsWhole, Node
  <2>3. QED
    BY <1>3, <1>4, <1>5, <2>1, <2>2 DEF RecordingUnnamed
<1>7. CASE f # Torn
  <2>1. Listed(files) \in SUBSET Name
    BY DEF Listed
  <2>2. /\ node' \in Node /\ node'.up = node.up /\ node'.index = Listed(files)
        /\ node'.current = n /\ node'.active = node.active /\ node'.buf = node.buf
        /\ node'.rp = "IDLE"
    BY <1>0, <1>4, <1>7, <2>1 DEF Node, files
  <2>3. mixed' = FALSE /\ chosen' \in Name \cup {NoName}
    BY <1>0, <1>7
  <2>4. ShownIsTrue'
    BY <1>1, <1>2, <1>3, <1>7, <2>2 DEF ShownIsTrue, IsWhole, Listed, Node
  <2>5. QED
    BY <1>3, <1>5, <2>2, <2>3, <2>4 DEF RecordingUnnamed
<1>8. QED
  BY <1>6, <1>7

LEMMA DeleteKeeps ==
  ASSUME IInv, NEW n \in Name, Delete(n)
  PROVE  IInv'
<1> USE DEF IInv, TypeOK
<1> DEFINE files == [disk.file EXCEPT ![n] = Absent]
           gone(m) == IF m = n THEN NoName ELSE m
<1>1. Absent \in File /\ Absent.state = "absent"
  BY DEF Absent, File
<1>2. /\ files \in [Name -> File] /\ files[n] = Absent
      /\ \A m \in Name \ {n} : files[m] = disk.file[m]
  BY <1>1 DEF Disk
<1>3. Listed(files) \in SUBSET Name
  BY DEF Listed
<1>4. /\ disk' = [disk EXCEPT !.file = files, !.unsynced = @ \ {n}]
      /\ node' = [node EXCEPT !.index = Listed(files),
                    !.current = gone(@), !.active = gone(@),
                    !.buf = IF node.current = n THEN << >> ELSE @]
      /\ chosen' = gone(chosen) /\ mixed' = (mixed /\ node.current # n)
      /\ node.up /\ node.rp = "IDLE"
  BY DEF Delete, Idle
<1> HIDE DEF files
<1>5. disk' \in Disk /\ disk'.file = files /\ disk'.pref = disk.pref
  BY <1>2, <1>4 DEF Disk
<1>6. /\ node' \in Node /\ node'.up = node.up /\ node'.index = Listed(files)
      /\ node'.current = gone(node.current) /\ node'.active = gone(node.active)
      /\ node.current # n => node'.buf = node.buf
      /\ node'.rp = "IDLE"
  <2>1. /\ gone(node.current) \in Name \cup {NoName} /\ gone(node.active) \in Name \cup {NoName}
        /\ (IF node.current = n THEN << >> ELSE node.buf) \in Seq(Sample)
    BY DEF Node
  <2> DEFINE current == gone(node.current)  active == gone(node.active)
             buf == IF node.current = n THEN << >> ELSE node.buf
  <2>2. node' = [node EXCEPT !.index = Listed(files), !.current = current,
                             !.active = active, !.buf = buf]
    BY <1>4
  <2>3. node.current # n => buf = node.buf
    OBVIOUS
  <2> HIDE DEF current, active, buf
  <2>4. /\ node' \in Node /\ node'.up = node.up /\ node'.index = Listed(files)
        /\ node'.current = current /\ node'.active = active /\ node'.buf = buf
        /\ node'.rp = "IDLE"
    BY <2>1, <2>2, <1>3, <1>4 DEF Node, current, active, buf
  <2>5. QED
    BY <2>3, <2>4 DEF current, active
<1>7. ChoiceStored'
  BY <1>2, <1>4, <1>5 DEF ChoiceStored, IsWhole
<1>8. n # NoName
  BY StoreAssumption
<1>9. ShownIsTrue'
  <2>1. \A m \in Name : m # n => disk'.file[m] = disk.file[m]
    BY <1>2, <1>5
  <2>2. \A m \in Name : disk'.file[m].state = "whole" <=> m \in node'.index
    BY <1>5, <1>6 DEF Listed
  <2>3. node'.index \subseteq Name
    BY <1>3, <1>6
  <2>4. node'.current = NoName \/ (node'.current = node.current /\ node.current # n)
    BY <1>6
  <2>5. node'.active = NoName \/ (node'.active = node.active /\ node.active # n)
    BY <1>6
  <2>6. node.current \in Name \cup {NoName} /\ node.active \in Name \cup {NoName}
    BY DEF Node
  <2>7. \A m \in node'.index \cup ({node'.current, node'.active} \ {NoName}) :
          disk'.file[m].state # "absent"
    BY <2>1, <2>2, <2>3, <2>4, <2>5, <2>6, <1>4 DEF ShownIsTrue
  <2>8. node'.current # NoName /\ disk'.file[node'.current].state = "whole" /\ ~mixed' =>
          node'.buf = disk'.file[node'.current].take
    BY <2>1, <2>4, <2>6, <1>4, <1>6 DEF ShownIsTrue, IsWhole
  <2>9. QED
    BY <2>2, <2>7, <2>8 DEF ShownIsTrue, IsWhole
<1>10. QED
  BY <1>4, <1>5, <1>6, <1>7, <1>9 DEF RecordingUnnamed

\* Loading over a node that shows the truth: by name, by D-pad or by set_active.
LEMMA LoadingKeeps ==
  ASSUME IInv, node.up, NEW n \in Name, NEW nd \in Node,
         nd.up = node.up, nd.index = node.index, nd.current = node.current,
         nd.buf = node.buf, nd.rp = node.rp,
         nd.active \in node.index \cup {node.active},
         node' = Loaded(nd, disk.file, n), disk'.file = disk.file, disk' \in Disk,
         mixed' = IF IsWhole(n) THEN node.rp = "RECORDING" ELSE mixed
  PROVE  node' \in Node /\ mixed' \in BOOLEAN /\ ShownIsTrue' /\ RecordingUnnamed'
<1> USE DEF IInv, TypeOK
<1>1. disk.file \in [Name -> File]
  BY DEF Disk
<1>2. n # NoName
  BY StoreAssumption
<1>3. /\ node' \in Node /\ node'.up = node.up /\ node'.index = node.index
      /\ node'.active = nd.active /\ node'.rp = node.rp
      /\ IsWhole(n) => node'.current = n /\ node'.buf = disk.file[n].take
      /\ ~IsWhole(n) => node'.current = node.current /\ node'.buf = node.buf
  BY <1>1, LoadedLemma DEF IsWhole
<1>4. mixed' \in BOOLEAN
  OBVIOUS
<1>5. CASE IsWhole(n)
  BY <1>2, <1>3, <1>4, <1>5 DEF ShownIsTrue, RecordingUnnamed, IsWhole, Node
<1>6. CASE ~IsWhole(n)
  BY <1>3, <1>4, <1>6 DEF ShownIsTrue, RecordingUnnamed, IsWhole, Node
<1>7. QED
  BY <1>5, <1>6

LEMMA LoadKeeps ==
  ASSUME IInv, NEW n \in Name, Load(n)
  PROVE  IInv'
<1>1. /\ node.up /\ node.rp = "IDLE" /\ node' = Loaded(node, disk.file, n)
      /\ mixed' = (mixed /\ ~IsWhole(n)) /\ UNCHANGED <<disk, chosen>>
  BY DEF Load, Idle
<1>2. mixed' = IF IsWhole(n) THEN node.rp = "RECORDING" ELSE mixed
  BY <1>1 DEF IInv, TypeOK
<1>3. node \in Node /\ disk' \in Disk
  BY <1>1 DEF IInv, TypeOK
<1>4. node' \in Node /\ mixed' \in BOOLEAN /\ ShownIsTrue' /\ RecordingUnnamed'
  BY <1>1, <1>2, <1>3, LoadingKeeps
<1>5. QED
  BY <1>1, <1>4 DEF IInv, TypeOK, ChoiceStored, IsWhole

LEMMA CycleKeeps ==
  ASSUME IInv, NEW direction \in {1, -1}, Cycle(direction)
  PROVE  IInv'
<1> DEFINE k == (node.cycle + direction) % Cardinality(node.index)
           nd == [node EXCEPT !.cycle = k]
<1>1. PICK n \in node.index :
        /\ Position(node.index, n) = k
        /\ node' = Loaded(nd, disk.file, n)
        /\ mixed' = (mixed /\ ~IsWhole(n))
  BY DEF Cycle
<1>2. node.up /\ node.rp = "IDLE" /\ UNCHANGED <<disk, chosen>> /\ node \in Node
  BY DEF Cycle, Idle, IInv, TypeOK
<1>3. n \in Name /\ k \in Int
  <2>1. node.index \in SUBSET Name
    BY <1>2 DEF Node
  <2>2. QED
    BY <2>1, <1>1, PositionType
<1> HIDE DEF k
<1>4. /\ nd \in Node /\ nd.up = node.up /\ nd.index = node.index /\ nd.current = node.current
      /\ nd.buf = node.buf /\ nd.rp = node.rp /\ nd.active = node.active
  BY <1>2, <1>3 DEF Node
<1> HIDE DEF nd
<1>5. mixed' = IF IsWhole(n) THEN node.rp = "RECORDING" ELSE mixed
  BY <1>1, <1>2 DEF IInv, TypeOK
<1>6. node' \in Node /\ mixed' \in BOOLEAN /\ ShownIsTrue' /\ RecordingUnnamed'
  <2>1. disk' \in Disk
    BY <1>2 DEF IInv, TypeOK
  <2>2. QED
    BY <2>1, <1>1, <1>2, <1>3, <1>4, <1>5, LoadingKeeps
<1>7. QED
  BY <1>2, <1>6 DEF IInv, TypeOK, ChoiceStored, IsWhole

LEMMA SetActiveKeeps ==
  ASSUME IInv, NEW n \in Name, SetActive(n)
  PROVE  IInv'
<1> DEFINE nd == [node EXCEPT !.active = n]
<1>1. PICK pref \in {n, NoName, disk.pref} :
        /\ disk' = [disk EXCEPT !.pref = pref, !.prefUnsynced = TRUE]
        /\ chosen' = IF pref = n /\ IsWhole(n) THEN n ELSE NoName
  BY DEF SetActive
<1>2. /\ node.up /\ n \in node.index /\ node' = Loaded(nd, disk.file, n)
      /\ mixed' = IF IsWhole(n) THEN node.rp = "RECORDING" ELSE mixed
      /\ node \in Node /\ disk \in Disk
  BY DEF SetActive, IInv, TypeOK
<1>3. disk' \in Disk /\ disk'.file = disk.file /\ disk'.pref = pref
  BY <1>1, <1>2 DEF Disk
<1>4. /\ nd \in Node /\ nd.up = node.up /\ nd.index = node.index /\ nd.current = node.current
      /\ nd.buf = node.buf /\ nd.rp = node.rp /\ nd.active = n
  BY <1>2 DEF Node
<1> HIDE DEF nd
<1>5. node' \in Node /\ mixed' \in BOOLEAN /\ ShownIsTrue' /\ RecordingUnnamed'
  BY <1>2, <1>3, <1>4, LoadingKeeps
<1>6. chosen' \in Name \cup {NoName} /\ ChoiceStored'
  BY <1>1, <1>3 DEF ChoiceStored, IsWhole
<1>7. QED
  BY <1>3, <1>5, <1>6 DEF IInv, TypeOK

LEMMA NextKeeps == IInv /\ [Next]_vars => IInv'
<1> SUFFICES ASSUME IInv, [Next]_vars PROVE IInv'
  OBVIOUS
<1>1. CASE Boot
  BY <1>1, BootKeeps
<1>2. CASE Killed \/ PowerLoss \/ WriteBack
  BY <1>2, EndsKeep
<1>3. CASE Record \/ Play \/ Stop \/ List \/ \E s \in Sample : RecordSample(s)
  BY <1>3, BufferKeeps
<1>4. CASE \E n \in Name : Save(n) \/ Load(n) \/ Delete(n) \/ SetActive(n)
  BY <1>4, SaveKeeps, LoadKeeps, DeleteKeeps, SetActiveKeeps
<1>5. CASE \E direction \in {1, -1} : Cycle(direction)
  BY <1>5, CycleKeeps
<1>6. CASE UNCHANGED vars
  BY <1>6 DEF vars, IInv, TypeOK, ShownIsTrue, RecordingUnnamed, ChoiceStored, IsWhole
<1>7. QED
  BY <1>1, <1>2, <1>3, <1>4, <1>5, <1>6 DEF Next

LEMMA Invariance == Spec => []IInv
<1>1. QED
  BY InitKeeps, NextKeeps, PTL DEF Spec

-----------------------------------------------------------------------------
(* The results.                                                            *)

\* Every reachable state of the store is well typed.
THEOREM TypeCorrect == Spec => []TypeOK
<1>1. IInv => TypeOK
  BY DEF IInv
<1>2. QED
  BY <1>1, Invariance, PTL

\* What the state topic shows of the recordings is true, for any number of names
\* and takes and through any failure (_publish_rp_state and the commands on names).
THEOREM ShownTheorem == Spec => []ShownIsTrue
<1>1. IInv => ShownIsTrue
  BY DEF IInv
<1>2. QED
  BY <1>1, Invariance, PTL

\* Only a start makes the node come up.
LEMMA OnlyBootStarts ==
  ASSUME Next, ~node.up, node'.up, node \in Node, disk \in Disk
  PROVE  Boot
<1>1. CASE Killed \/ PowerLoss \/ WriteBack
  <2>1. node' \in {node, Blank}
    BY <1>1 DEF Killed, PowerLoss, WriteBack
  <2>2. QED
    BY <2>1, BlankType
<1>2. CASE Record \/ Play \/ List
  BY <1>2 DEF Record, Play, List, Idle
<1>6. CASE Stop \/ \E s \in Sample : RecordSample(s)
  <2>1. CASE Stop
    <3>1. node' = [node EXCEPT !.rp = "IDLE"]
      BY <2>1 DEF Stop
    <3>2. QED
      BY <3>1 DEF Node
  <2>2. ASSUME NEW s \in Sample, RecordSample(s) PROVE node'.up = node.up
    <3>1. node' = [node EXCEPT !.buf = Append(node.buf, s)]
      BY <2>2 DEF RecordSample
    <3>2. QED
      BY <3>1 DEF Node
  <2>3. QED
    BY <1>6, <2>1, <2>2
<1>3. CASE \E n \in Name : Save(n) \/ Load(n) \/ Delete(n) \/ SetActive(n)
  BY <1>3 DEF Save, Load, Delete, SetActive, Idle
<1>4. CASE \E direction \in {1, -1} : Cycle(direction)
  BY <1>4 DEF Cycle, Idle
<1>5. QED
  BY <1>1, <1>2, <1>3, <1>4, <1>6 DEF Next

\* A start after any crash finds the recording chosen for parking, or any that is
\* readable (_load_active_parking_recording).
THEOREM RestartTheorem == Spec => RestartFindsChoice
<1> DEFINE Found ==
      /\ chosen # NoName => node'.active = chosen
      /\ (\E n \in Name : IsWhole(n)) =>
           /\ node'.active # NoName /\ node'.current = node'.active
           /\ node'.buf = disk'.file[node'.active].take
<1>1. ASSUME IInv, [Next]_vars, ~node.up, node'.up
      PROVE  Found
  <2>1. Boot
    <3>1. Next
      BY <1>1 DEF vars
    <3>2. QED
      BY <3>1, <1>1, OnlyBootStarts DEF IInv, TypeOK
  <2>2. \A n \in Name : IsWhole(n) => n \in node'.index
    BY <2>1, <1>1, BootLemma DEF IsWhole, Listed
  <2>3. node'.index \subseteq Name
    BY <2>1, <1>1, BootLemma DEF Listed
  <2>4. chosen # NoName => disk.pref = chosen /\ chosen \in node'.index
    BY <1>1, <2>2 DEF IInv, TypeOK, ChoiceStored
  <2>5. QED
    BY <2>1, <2>2, <2>3, <2>4, <1>1, BootLemma, StoreAssumption
<1>2. IInv /\ [Next]_vars => [~node.up /\ node'.up => Found]_vars
  BY <1>1
<1>3. QED
  BY <1>2, Invariance, PTL DEF Spec, RestartFindsChoice
=============================================================================
