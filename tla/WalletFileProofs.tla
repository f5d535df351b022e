-------------------------- MODULE WalletFileProofs --------------------------
(***************************************************************************)
(* Proofs about WalletFile, for every number of versions and whether or    *)
(* not writes fail.  NotLost is proved for callers that do not repeat a    *)
(* Save that left the wallet file torn; TLC shows why it needs that.       *)
(***************************************************************************)
EXTENDS WalletFile, TLAPS

\* What each place of SaveBinary has already achieved.
PlacesOK ==
  /\ pc # "idle" => memory # 0
  /\ pc \in {"tmpWritten", "fillTarget"} => tmp[memory] = memory
  /\ pc = "fillTarget" => target = Torn
  /\ pc = "targetWritten" => target = memory

\* Versions only move forward: nothing older than the acknowledged data is in
\* memory or in a readable wallet file.
Forward ==
  /\ acked <= latest
  /\ memory <= latest
  /\ memory # 0 => acked <= memory
  /\ target = Absent => acked = 0
  /\ target \in Versions => acked <= target /\ target <= latest

\* While the wallet file is torn a tmp file has the data, and SaveBinary is not
\* writing that very file.
Backed ==
  target = Torn =>
    \E v \in Versions : tmp[v] = v /\ acked <= v /\ (pc = "fillTmp" => v # memory)

FileInv ==
  /\ TypeOK
  /\ PlacesOK
  /\ Forward
  /\ TmpFilesExplained
  /\ ~RetriesFailed => Backed

LEMMA InitFileInv == Init => FileInv
BY WalletFileAssumption
   DEF Init, FileInv, TypeOK, PlacesOK, Forward, TmpFilesExplained, Backed,
       Contents, Versions, Absent, Torn, Places

LEMMA ChangeFileInv == FileInv /\ Change => FileInv'
BY WalletFileAssumption
   DEF Change, FileInv, TypeOK, PlacesOK, Forward, TmpFilesExplained, Backed,
       Contents, Versions, Absent, Torn, Places

LEMMA LoadFileInv == FileInv /\ Load => FileInv'
BY WalletFileAssumption
   DEF Load, FileInv, TypeOK, PlacesOK, Forward, TmpFilesExplained, Backed,
       Contents, Versions, Absent, Torn, Places

LEMMA CrashFileInv == FileInv /\ Crash => FileInv'
BY WalletFileAssumption
   DEF Crash, FileInv, TypeOK, PlacesOK, Forward, TmpFilesExplained, Backed,
       Contents, Versions, Absent, Torn, Places

\* A Save that returns an error after a step that failed.
LEMMA FailsFileInv ==
  FileInv /\ pc # "idle" /\ Fails /\ UNCHANGED <<target, tmp, memory, latest>> => FileInv'
BY WalletFileAssumption
   DEF Fails, Return, FileInv, TypeOK, PlacesOK, Forward, TmpFilesExplained, Backed,
       Contents, Versions, Absent, Torn, Places

\* The tmp file of a Save is opened while another one may be all there is of
\* the data: the two are different because the torn Save is not repeated.
LEMMA SaveBinaryFileInv == FileInv /\ SaveBinary => FileInv'
<1>1. FileInv /\ SaveBinary => (TypeOK /\ PlacesOK /\ Forward)'
  BY WalletFileAssumption
     DEF SaveBinary, Fails, Return, FileInv, TypeOK, PlacesOK, Forward,
         Contents, Versions, Absent, Torn, Places
<1>2. FileInv /\ SaveBinary => TmpFilesExplained'
  BY WalletFileAssumption
     DEF SaveBinary, Fails, Return, FileInv, TypeOK, TmpFilesExplained,
         Contents, Versions, Absent, Torn
<1>3. ASSUME FileInv, SaveBinary, ~RetriesFailed, target' = Torn PROVE Backed'
  <2>1. target = Torn /\ memory \notin failed /\ pc = "idle"
    BY <1>3 DEF SaveBinary
  <2>2. PICK v \in Versions : tmp[v] = v /\ acked <= v
    BY <1>3, <2>1 DEF FileInv, Backed
  <2>3. v \in failed
    BY <1>3, <2>1, <2>2, WalletFileAssumption DEF FileInv, TmpFilesExplained, Versions, Absent
  <2>4. tmp'[v] = v /\ acked' <= v /\ memory' # v
    BY <1>3, <2>1, <2>2, <2>3, WalletFileAssumption
       DEF SaveBinary, Fails, Return, FileInv, TypeOK, Versions
  <2> QED
    BY <2>4 DEF Backed
<1> QED
  BY <1>1, <1>2, <1>3 DEF FileInv, Backed

LEMMA FillTmpFileInv == FileInv /\ FillTmp => FileInv'
BY WalletFileAssumption
   DEF FillTmp, Fails, Return, FileInv, TypeOK, PlacesOK, Forward, TmpFilesExplained,
       Backed, Contents, Versions, Absent, Torn, Places

LEMMA OpenTargetFileInv == FileInv /\ OpenTarget => FileInv'
<1>1. ASSUME FileInv, OpenTarget, Fails /\ UNCHANGED target PROVE FileInv'
  BY <1>1, FailsFileInv DEF OpenTarget
<1>2. ASSUME FileInv, OpenTarget, target' = Torn, pc' = "fillTarget",
             UNCHANGED <<result, acked, failed>>
      PROVE  FileInv'
  <2>1. /\ pc = "tmpWritten" /\ memory' = memory /\ tmp' = tmp /\ latest' = latest
        /\ result' = result /\ acked' = acked /\ failed' = failed
    BY <1>2 DEF OpenTarget
  <2>2. memory \in Versions /\ tmp[memory] = memory /\ acked <= memory
    BY <1>2, <2>1 DEF FileInv, TypeOK, PlacesOK, Forward
  <2>3. Backed'
    BY <1>2, <2>1, <2>2 DEF Backed
  <2>4. TypeOK' /\ PlacesOK' /\ TmpFilesExplained'
    BY <1>2, <2>1, <2>2 DEF FileInv, TypeOK, PlacesOK, TmpFilesExplained, Contents, Places
  <2>5. Forward'
    BY <1>2, <2>1, WalletFileAssumption DEF FileInv, Forward, Versions, Absent, Torn
  <2> QED
    BY <2>3, <2>4, <2>5 DEF FileInv
<1> QED
  BY <1>1, <1>2 DEF OpenTarget

LEMMA FillTargetFileInv == FileInv /\ FillTarget => FileInv'
BY WalletFileAssumption
   DEF FillTarget, Fails, Return, FileInv, TypeOK, PlacesOK, Forward, TmpFilesExplained,
       Backed, Contents, Versions, Absent, Torn, Places

\* The tmp file is gone and Save returns nil.
LEMMA RemovedFileInv ==
  ASSUME FileInv, pc = "targetWritten",
         target' = target, memory' = memory, latest' = latest,
         tmp' = [tmp EXCEPT ![memory] = Absent], pc' = "idle", result' = "ok",
         acked' = IF memory > acked THEN memory ELSE acked,
         failed' = failed \ {memory}
  PROVE  FileInv'
<1>1. memory \in Versions /\ target = memory /\ acked <= memory
  BY DEF FileInv, TypeOK, PlacesOK, Forward
<1>2. memory \in Int /\ acked \in Int
  BY WalletFileAssumption DEF FileInv, TypeOK, Versions
<1>3. acked' = memory
  BY <1>1, <1>2
<1>4. TypeOK'
  <2>1. tmp' \in [Versions -> Contents]
    BY DEF FileInv, TypeOK, Contents
  <2>2. failed' \in SUBSET Versions
    BY DEF FileInv, TypeOK
  <2> QED
    BY <1>1, <1>3, <2>1, <2>2 DEF FileInv, TypeOK, Places
<1>5. PlacesOK'
  BY <1>1, WalletFileAssumption DEF PlacesOK, Versions
<1>6. Forward'
  BY <1>1, <1>2, <1>3, WalletFileAssumption DEF FileInv, Forward, Versions, Absent
<1>7. TmpFilesExplained'
  <2> SUFFICES ASSUME NEW v \in Versions, tmp'[v] # Absent PROVE v \in failed'
    BY DEF TmpFilesExplained
  <2>1. v # memory /\ tmp[v] # Absent
    BY DEF FileInv, TypeOK
  <2> QED
    BY <2>1 DEF FileInv, TmpFilesExplained
<1>8. Backed'
  <2>1. target' # Torn
    BY <1>1, WalletFileAssumption DEF Versions, Torn
  <2> QED
    BY <2>1 DEF Backed
<1> QED
  BY <1>4, <1>5, <1>6, <1>7, <1>8 DEF FileInv

LEMMA RemoveTmpFileInv == FileInv /\ RemoveTmp => FileInv'
<1>1. ASSUME FileInv, RemoveTmp, Fails PROVE FileInv'
  BY <1>1, FailsFileInv DEF RemoveTmp, Fails, Return
<1>2. ASSUME FileInv, RemoveTmp, ~Fails PROVE FileInv'
  BY <1>2, RemovedFileInv DEF RemoveTmp, Return
<1> QED
  BY <1>1, <1>2

LEMMA StutterFileInv == FileInv /\ UNCHANGED vars => FileInv'
BY DEF vars, FileInv, TypeOK, PlacesOK, Forward, TmpFilesExplained, Backed

LEMMA SpecFileInv == Spec => []FileInv
<1>1. FileInv /\ [Next]_vars => FileInv'
  BY ChangeFileInv, SaveBinaryFileInv, FillTmpFileInv, OpenTargetFileInv, FillTargetFileInv,
     RemoveTmpFileInv, LoadFileInv, CrashFileInv, StutterFileInv DEF Next, Step
<1> QED
  BY <1>1, InitFileInv, PTL DEF Spec

\* The files, the versions and the history of Save stay in their types.
THEOREM FileTypeCorrect == Spec => []TypeOK
<1>1. FileInv => TypeOK
  BY DEF FileInv
<1> QED
  BY <1>1, SpecFileInv, PTL

\* For every number of versions and with every write allowed to fail: as long as
\* no torn wallet file is written again with the same data, a complete copy of
\* the data whose Save returned nil, or of newer data, is always on the disk.
THEOREM SavedDataNotLost ==
  ASSUME ~RetriesFailed
  PROVE  Spec => []NotLost
<1>1. FileInv => NotLost
  <2> SUFFICES ASSUME FileInv, acked # 0 PROVE CopiesFrom(acked) # {}
    BY DEF NotLost
  <2>1. target # Absent /\ (target \in Versions => acked <= target) /\ target \in Contents
    BY DEF FileInv, Forward, TypeOK
  <2>2. CASE target = Torn
    <3>1. PICK v \in Versions : tmp[v] = v /\ acked <= v
      BY <2>2 DEF FileInv, Backed
    <3>2. v >= acked
      BY <3>1, WalletFileAssumption DEF Versions, FileInv, TypeOK
    <3> QED
      BY <3>1, <3>2 DEF CopiesFrom
  <2>3. CASE target \in Versions
    <3>1. target >= acked
      BY <2>1, <2>3, WalletFileAssumption DEF Versions, FileInv, TypeOK
    <3> QED
      BY <2>3, <3>1 DEF CopiesFrom
  <2> QED
    BY <2>1, <2>2, <2>3 DEF Contents
<1> QED
  BY <1>1, SpecFileInv, PTL

\* Whether or not failed Saves are repeated: a wallet that Load returns is never
\* older than one whose Save returned nil.
THEOREM LoadNeverGoesBack == Spec => LoadedNotOlder
<1>1. FileInv /\ [Next]_vars => [memory = 0 /\ memory' # 0 => memory' >= acked]_vars
  <2> SUFFICES ASSUME FileInv, Next, memory = 0, memory' # 0 PROVE memory' >= acked
    OBVIOUS
  <2>1. acked \in Int /\ latest \in Int /\ acked <= latest
    BY WalletFileAssumption DEF FileInv, TypeOK, Forward, Versions
  <2>2. CASE Change
    BY <2>1, <2>2 DEF Change
  <2>3. CASE Load
    <3>1. target \in Versions /\ memory' = target
      BY <2>3 DEF Load, FileInv, TypeOK, Contents
    <3> QED
      BY <2>1, <3>1, WalletFileAssumption DEF FileInv, Forward, Versions
  <2>4. pc = "idle"
    BY DEF FileInv, PlacesOK
  <2> QED
    BY <2>2, <2>3, <2>4 DEF Next, Step, SaveBinary, FillTmp, OpenTarget, FillTarget,
       RemoveTmp, Crash
<1> QED
  BY <1>1, SpecFileInv, PTL DEF Spec, LoadedNotOlder

\* Tmp files are left behind by failed and interrupted Saves only.
THEOREM OnlyFailuresLeaveTmpFiles == Spec => []TmpFilesExplained
<1>1. FileInv => TmpFilesExplained
  BY DEF FileInv
<1> QED
  BY <1>1, SpecFileInv, PTL
=============================================================================
