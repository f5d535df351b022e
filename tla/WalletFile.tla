----------------------------- MODULE WalletFile -----------------------------
(***************************************************************************)
(* How a wallet reaches the disk: wallet.Save calls file.SaveJSON, which   *)
(* calls file.SaveBinary: the data go to <file>.tmp.<hash of the data>,    *)
(* then to <file> itself, then the tmp file is removed.  A write is        *)
(* ioutil.WriteFile, which truncates the file and then fills it, so a file *)
(* can be caught half written.  wallet.Load reads <file> and nothing else. *)
(*                                                                         *)
(* Every state of the wallet that may be saved is a version; versions grow *)
(* as the wallet changes.  The process can exit between any two steps; the *)
(* data of a finished system call survive it.                              *)
(***************************************************************************)
EXTENDS Integers

CONSTANTS
  MaxVersion,    \* bound: how often the wallet changes
  WritesFail,    \* TRUE: opening, writing and removing a file may fail
  RetriesFailed  \* TRUE: after an error the caller saves the same data again,
                 \*   even if the error left the wallet file torn

ASSUME WalletFileAssumption ==
  /\ MaxVersion \in Nat
  /\ WritesFail \in BOOLEAN
  /\ RetriesFailed \in BOOLEAN

Versions == 1 .. MaxVersion

\* A file holds a version or is absent or torn: truncated or partly written.
Absent == 0
Torn == -1
Contents == Versions \cup {Absent, Torn}

VARIABLES
  target,   \* the wallet file
  tmp,      \* per version, its tmp file: the name is a hash of the data
  memory,   \* the version of the wallet in memory, 0 if there is none
  latest,   \* history: the largest version there has been
  pc,       \* where SaveBinary is
  result,   \* what the last Save or Load returned
  acked,    \* history: the largest version whose Save returned nil
  failed    \* history: the versions whose Save returned an error or was cut off

vars == <<target, tmp, memory, latest, pc, result, acked, failed>>

Places == {"idle", "fillTmp", "tmpWritten", "fillTarget", "targetWritten"}

Init ==
  /\ target = Absent
  /\ tmp = [v \in Versions |-> Absent]
  /\ memory = 0
  /\ latest = 0
  /\ pc = "idle"
  /\ result = "ok"
  /\ acked = 0
  /\ failed = {}

-----------------------------------------------------------------------------
\* A new wallet carries the time it was created at: its data are like no earlier
\* ones.  A change of the one in memory leads to new data or, after a restart,
\* to data that were there before.
Change ==
  /\ pc = "idle"
  /\ memory' \in (IF memory = 0 THEN latest ELSE memory) + 1 .. latest + 1
  /\ memory' \in Versions
  /\ latest' = IF memory' > latest THEN memory' ELSE latest
  /\ UNCHANGED <<target, tmp, pc, result, acked, failed>>

\* Save returns: nil, or the error of the call that failed.
Return(r) ==
  /\ pc' = "idle"
  /\ result' = r
  /\ acked' = IF r = "ok" /\ memory > acked THEN memory ELSE acked
  /\ failed' = IF r = "ok" THEN failed \ {memory} ELSE failed \cup {memory}

Fails == WritesFail /\ Return("error")

\* SaveBinary opens the tmp file, which truncates it, or cannot open it.
SaveBinary ==
  /\ pc = "idle"
  /\ memory # 0
  /\ target = Torn /\ memory \in failed => RetriesFailed
  /\ \/ /\ tmp' = [tmp EXCEPT ![memory] = Torn]
        /\ pc' = "fillTmp"
        /\ UNCHANGED <<result, acked, failed>>
     \/ Fails /\ UNCHANGED tmp
  /\ UNCHANGED <<target, memory, latest>>

FillTmpIgnoresError ==
  /\ pc = "fillTmp"
  /\ tmp' = [tmp EXCEPT ![memory] = memory] \/ (WritesFail /\ UNCHANGED tmp)
  /\ pc' = "tmpWritten"
  /\ UNCHANGED <<target, memory, latest, result, acked, failed>>

FillTmp ==
  /\ pc = "fillTmp"
  /\ \/ /\ tmp' = [tmp EXCEPT ![memory] = memory]
        /\ pc' = "tmpWritten"
        /\ UNCHANGED <<result, acked, failed>>
     \/ Fails /\ UNCHANGED tmp
  /\ UNCHANGED <<target, memory, latest>>

OpenTarget ==
  /\ pc = "tmpWritten"
  /\ \/ /\ target' = Torn
        /\ pc' = "fillTarget"
        /\ UNCHANGED <<result, acked, failed>>
     \/ Fails /\ UNCHANGED target
  /\ UNCHANGED <<tmp, memory, latest>>

FillTarget ==
  /\ pc = "fillTarget"
  /\ \/ /\ target' = memory
        /\ pc' = "targetWritten"
        /\ UNCHANGED <<result, acked, failed>>
     \/ Fails /\ UNCHANGED target
  /\ UNCHANGED <<tmp, memory, latest>>

RemoveTmpForgotten ==
  /\ pc = "targetWritten"
  /\ Return("ok")
  /\ UNCHANGED <<target, tmp, memory, latest>>

\* The tmp file is removed in the end; the error of os.Remove is Save's error.
RemoveTmp ==
  /\ pc = "targetWritten"
  /\ \/ tmp' = [tmp EXCEPT ![memory] = Absent] /\ Return("ok")
     \/ Fails /\ UNCHANGED tmp
  /\ UNCHANGED <<target, memory, latest>>

LoadUnchecked ==
  /\ pc = "idle"
  /\ memory = 0
  /\ result' = "ok"
  /\ memory' = target
  /\ UNCHANGED <<target, tmp, latest, pc, acked, failed>>

LoadTriesTmp ==
  /\ pc = "idle"
  /\ memory = 0
  /\ result' = "ok"
  /\ \E v \in Versions : (IF target = Torn THEN tmp[v] ELSE target) = v /\ memory' = v
  /\ UNCHANGED <<target, tmp, latest, pc, acked, failed>>

\* Load finds no file, cannot decode it, or reads its version.
Load ==
  /\ pc = "idle"
  /\ memory = 0
  /\ IF target \in {Absent, Torn}
     THEN result' = "error" /\ UNCHANGED memory
     ELSE result' = "ok" /\ memory' = target
  /\ UNCHANGED <<target, tmp, latest, pc, acked, failed>>

\* The process exits or crashes; whatever Save had done is on the disk.
Crash ==
  /\ memory # 0
  /\ memory' = 0
  /\ pc' = "idle"
  /\ failed' = IF pc = "idle" THEN failed ELSE failed \cup {memory}
  /\ UNCHANGED <<target, tmp, latest, result, acked>>

Step == FillTmp \/ OpenTarget \/ FillTarget \/ RemoveTmp

Next == Change \/ SaveBinary \/ Step \/ Load \/ Crash

Spec == Init /\ [][Next]_vars

-----------------------------------------------------------------------------
(***************************************************************************)
(* Properties                                                              *)
(***************************************************************************)

TypeOK ==
  /\ target \in Contents
  /\ tmp \in [Versions -> Contents]
  /\ memory \in Versions \cup {0}
  /\ latest \in Versions \cup {0}
  /\ pc \in Places
  /\ result \in {"ok", "error"}
  /\ acked \in Versions \cup {0}
  /\ failed \in SUBSET Versions

\* The complete copies on the disk that are not older than version v.
CopiesFrom(v) == { c \in Versions : c >= v /\ (target = c \/ tmp[c] = c) }

\* "In this way, the wallet data would not be lost" (file.go:156): from the time
\* Save has returned nil there is, at every moment and however the process ends,
\* a complete copy of those data or of newer ones, in the wallet file or in a
\* tmp file.  It holds only as long as nobody repeats a Save whose write of the
\* wallet file failed: the repeated Save first truncates the only copy.
NotLost == acked # 0 => CopiesFrom(acked) # {}

\* A wallet that Load returns is never older than one whose Save returned nil.
LoadedNotOlder == [][memory = 0 /\ memory' # 0 => memory' >= acked]_vars

\* Only a Save that failed or was cut off leaves a tmp file, which may hold an
\* unencrypted wallet and which nothing ever removes.
TmpFilesExplained ==
  \A v \in Versions : tmp[v] # Absent => v \in failed \/ (pc # "idle" /\ v = memory)
=============================================================================
