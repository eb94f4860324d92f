--------------------------- MODULE OwnedPathProofs ---------------------------
(***************************************************************************)
(* Proof that the owner of a path never unlinks what others made, and      *)
(* leaves nothing of its own behind when nothing hindered it (OwnedPath),  *)
(* for any number of inodes and of foreign interventions.                  *)
(***************************************************************************)
EXTENDS OwnedPath, TLAPS

Private == {"stage", "quarantine"}
MaybeInode == Inodes \cup {None}

BeforeCleanup == {"capture", "create", "bind", "own", "prepare", "publish", "write", "live", "drop"}
InCleanup == {"rename", "verify", "unlink", "restore", "rmdir", "release"}
InDirectory == {"mkdir", "stat", "open"}
Owning == {"prepare", "publish", "write", "live", "drop", "rename", "verify", "unlink"}

PathTypeOK ==
    /\ at \in [Places -> MaybeInode]
    /\ maker \in [Inodes -> {"us", "them"}]
    /\ pc \in BeforeCleanup \cup InCleanup \cup InDirectory \cup {"dropstage", "end"}
    /\ making \in Private
    /\ dir \in [Private -> MaybeInode]
    /\ identity \in MaybeInode
    /\ home \in {"staged", "public"}
    /\ pin \in MaybeInode

(* Inodes that are ours for as long as something refers to them.           *)
OursInv ==
    /\ pin # None => maker[pin] = "us"
    /\ \A p \in Private : dir[p] # None => maker[dir[p]] = "us"
    /\ at["staged"] # None => maker[at["staged"]] = "us"
    /\ home = "staged" /\ at["candidate"] # None => maker[at["candidate"]] = "us"
    /\ pc = "stat" => at[making] # None /\ maker[at[making]] = "us"

(* What is known of the directory being made at each step,                 *)
DirectoryInv ==
    /\ pc \in BeforeCleanup => making = "stage"
    /\ pc \in InCleanup => making = "quarantine"
    /\ making = "stage" => dir["quarantine"] = None
    /\ pc \in {"capture", "mkdir", "stat"} => dir[making] = None

(* and of the entry: until its path is cleaned up, its descriptor is open, *)
(* and so its inode number is not given to another file.                   *)
PinInv ==
    /\ pc \in {"capture", "create", "bind"} \/ (making = "stage" /\ pc \in InDirectory)
          => pin = None /\ identity = None
    /\ pc = "own" => identity = None /\ pin # None /\ at["staged"] = pin
    /\ pc \in Owning \/ (making = "quarantine" /\ pc \in InDirectory)
          => identity # None /\ pin = identity
    /\ pc = "unlink" => at["candidate"] = identity
    /\ pc = "dropstage" /\ pin # None => pin = identity /\ making = "stage"

PathInv == PathTypeOK /\ OursInv /\ DirectoryInv /\ PinInv

LEMMA PathInvInit == PathInit => PathInv
  <1> SUFFICES ASSUME PathInit PROVE PathInv
    OBVIOUS
  <1> USE InodesAssumption DEF PathInit, Places, Private, MaybeInode
  <1>1. PathTypeOK
    BY DEF PathTypeOK, BeforeCleanup
  <1>2. OursInv /\ DirectoryInv /\ PinInv
    BY DEF OursInv, DirectoryInv, PinInv, BeforeCleanup, InCleanup, InDirectory, Owning
  <1> QED
    BY <1>1, <1>2 DEF PathInv

LEMMA CaptureKeepsInv == PathInv /\ Capture => PathInv'
  <1> SUFFICES ASSUME PathInv, Capture PROVE PathInv'
    OBVIOUS
  <1> USE InodesAssumption DEF PathInv, PathTypeOK, Outside, Places, Private, MaybeInode,
          BeforeCleanup, InCleanup, InDirectory, Owning, Capture
  <1>1. PathTypeOK'
    OBVIOUS
  <1>2. OursInv'
    BY DEF OursInv, DirectoryInv, PinInv
  <1>3. DirectoryInv'
    BY DEF DirectoryInv
  <1>4. PinInv'
    BY DEF PinInv, DirectoryInv
  <1> QED
    BY <1>1, <1>2, <1>3, <1>4

LEMMA MakeDirectoryKeepsInv == PathInv /\ MakeDirectory => PathInv'
  <1> SUFFICES ASSUME PathInv, MakeDirectory PROVE PathInv'
    OBVIOUS
  <1> USE InodesAssumption DEF PathInv, PathTypeOK, Outside, Places, Private, MaybeInode,
          BeforeCleanup, InCleanup, InDirectory, Owning, MakeDirectory, Make, Put, Free, Linked
  <1>1. PathTypeOK'
    OBVIOUS
  <1>2. OursInv'
    BY DEF OursInv, DirectoryInv, PinInv
  <1>3. DirectoryInv'
    BY DEF DirectoryInv
  <1>4. PinInv'
    BY DEF PinInv, DirectoryInv
  <1> QED
    BY <1>1, <1>2, <1>3, <1>4

LEMMA StatDirectoryKeepsInv == PathInv /\ StatDirectory => PathInv'
  <1> SUFFICES ASSUME PathInv, StatDirectory PROVE PathInv'
    OBVIOUS
  <1> USE InodesAssumption DEF PathInv, PathTypeOK, Outside, Places, Private, MaybeInode,
          BeforeCleanup, InCleanup, InDirectory, Owning, StatDirectory
  <1>1. PathTypeOK'
    OBVIOUS
  <1>2. OursInv'
    BY DEF OursInv, DirectoryInv, PinInv
  <1>3. DirectoryInv'
    BY DEF DirectoryInv
  <1>4. PinInv'
    BY DEF PinInv, DirectoryInv
  <1> QED
    BY <1>1, <1>2, <1>3, <1>4

LEMMA OpenDirectoryKeepsInv == PathInv /\ OpenDirectory => PathInv'
  <1> SUFFICES ASSUME PathInv, OpenDirectory PROVE PathInv'
    OBVIOUS
  <1> USE InodesAssumption DEF PathInv, PathTypeOK, Outside, Places, Private, MaybeInode,
          BeforeCleanup, InCleanup, InDirectory, Owning, OpenDirectory
  <1>1. PathTypeOK'
    OBVIOUS
  <1>2. OursInv'
    BY DEF OursInv, DirectoryInv, PinInv
  <1>3. DirectoryInv'
    BY DEF DirectoryInv
  <1>4. PinInv'
    BY DEF PinInv, DirectoryInv
  <1> QED
    BY <1>1, <1>2, <1>3, <1>4

LEMMA DirectoryFailsKeepsInv == PathInv /\ DirectoryFails => PathInv'
  <1> SUFFICES ASSUME PathInv, DirectoryFails PROVE PathInv'
    OBVIOUS
  <1> USE InodesAssumption DEF PathInv, PathTypeOK, Outside, Places, Private, MaybeInode,
          BeforeCleanup, InCleanup, InDirectory, Owning, DirectoryFails, Put, RemoveDirectory, Leave
  <1>1. PathTypeOK'
    OBVIOUS
  <1>2. OursInv'
    BY DEF OursInv, DirectoryInv, PinInv
  <1>3. DirectoryInv'
    BY DEF DirectoryInv
  <1>4. PinInv'
    BY DEF PinInv, DirectoryInv
  <1> QED
    BY <1>1, <1>2, <1>3, <1>4

LEMMA BindKeepsInv == PathInv /\ Bind => PathInv'
  <1> SUFFICES ASSUME PathInv, Bind PROVE PathInv'
    OBVIOUS
  <1> USE InodesAssumption DEF PathInv, PathTypeOK, Outside, Places, Private, MaybeInode,
          BeforeCleanup, InCleanup, InDirectory, Owning, Bind, Put, Free, Linked
  <1>1. PathTypeOK'
    OBVIOUS
  <1>2. OursInv'
    BY DEF OursInv, DirectoryInv, PinInv
  <1>3. DirectoryInv'
    BY DEF DirectoryInv
  <1>4. PinInv'
    BY DEF PinInv, DirectoryInv
  <1> QED
    BY <1>1, <1>2, <1>3, <1>4

LEMMA OwnEntryKeepsInv == PathInv /\ OwnEntry => PathInv'
  <1> SUFFICES ASSUME PathInv, OwnEntry PROVE PathInv'
    OBVIOUS
  <1> USE InodesAssumption DEF PathInv, PathTypeOK, Outside, Places, Private, MaybeInode,
          BeforeCleanup, InCleanup, InDirectory, Owning, OwnEntry
  <1>1. PathTypeOK'
    OBVIOUS
  <1>2. OursInv'
    BY DEF OursInv, DirectoryInv, PinInv
  <1>3. DirectoryInv'
    BY DEF DirectoryInv
  <1>4. PinInv'
    BY DEF PinInv, DirectoryInv
  <1> QED
    BY <1>1, <1>2, <1>3, <1>4

LEMMA PrepareSocketKeepsInv == PathInv /\ PrepareSocket => PathInv'
  <1> SUFFICES ASSUME PathInv, PrepareSocket PROVE PathInv'
    OBVIOUS
  <1> USE InodesAssumption DEF PathInv, PathTypeOK, Outside, Places, Private, MaybeInode,
          BeforeCleanup, InCleanup, InDirectory, Owning, PrepareSocket
  <1>1. PathTypeOK'
    OBVIOUS
  <1>2. OursInv'
    BY DEF OursInv, DirectoryInv, PinInv
  <1>3. DirectoryInv'
    BY DEF DirectoryInv
  <1>4. PinInv'
    BY DEF PinInv, DirectoryInv
  <1> QED
    BY <1>1, <1>2, <1>3, <1>4

LEMMA PublishIntoKeepsInv == PathInv /\ PublishInto => PathInv'
  <1> SUFFICES ASSUME PathInv, PublishInto PROVE PathInv'
    OBVIOUS
  <1> USE InodesAssumption DEF PathInv, PathTypeOK, Outside, Places, Private, MaybeInode,
          BeforeCleanup, InCleanup, InDirectory, Owning, PublishInto, Renames
  <1>1. PathTypeOK'
    OBVIOUS
  <1>2. OursInv'
    BY DEF OursInv, DirectoryInv, PinInv
  <1>3. DirectoryInv'
    BY DEF DirectoryInv
  <1>4. PinInv'
    BY DEF PinInv, DirectoryInv
  <1> QED
    BY <1>1, <1>2, <1>3, <1>4

LEMMA PublishRefusedKeepsInv == PathInv /\ PublishRefused => PathInv'
  <1> SUFFICES ASSUME PathInv, PublishRefused PROVE PathInv'
    OBVIOUS
  <1> USE InodesAssumption DEF PathInv, PathTypeOK, Outside, Places, Private, MaybeInode,
          BeforeCleanup, InCleanup, InDirectory, Owning, PublishRefused
  <1>1. PathTypeOK'
    OBVIOUS
  <1>2. OursInv'
    BY DEF OursInv, DirectoryInv, PinInv
  <1>3. DirectoryInv'
    BY DEF DirectoryInv
  <1>4. PinInv'
    BY DEF PinInv, DirectoryInv
  <1> QED
    BY <1>1, <1>2, <1>3, <1>4

LEMMA SocketFailsKeepsInv == PathInv /\ SocketFails => PathInv'
  <1> SUFFICES ASSUME PathInv, SocketFails PROVE PathInv'
    OBVIOUS
  <1> USE InodesAssumption DEF PathInv, PathTypeOK, Outside, Places, Private, MaybeInode,
          BeforeCleanup, InCleanup, InDirectory, Owning, SocketFails, Put
  <1>1. PathTypeOK'
    OBVIOUS
  <1>2. OursInv'
    BY DEF OursInv, DirectoryInv, PinInv
  <1>3. DirectoryInv'
    BY DEF DirectoryInv
  <1>4. PinInv'
    BY DEF PinInv, DirectoryInv
  <1> QED
    BY <1>1, <1>2, <1>3, <1>4

LEMMA DropStageKeepsInv == PathInv /\ DropStage => PathInv'
  <1> SUFFICES ASSUME PathInv, DropStage PROVE PathInv'
    OBVIOUS
  <1> USE InodesAssumption DEF PathInv, PathTypeOK, Outside, Places, Private, MaybeInode,
          BeforeCleanup, InCleanup, InDirectory, Owning, DropStage, Put, RemoveDirectory
  <1>1. PathTypeOK'
    OBVIOUS
  <1>2. OursInv'
    BY DEF OursInv, DirectoryInv, PinInv
  <1>3. DirectoryInv'
    BY DEF DirectoryInv, PinInv
  <1>4. PinInv'
    BY DEF PinInv, DirectoryInv
  <1> QED
    BY <1>1, <1>2, <1>3, <1>4

LEMMA CreateNewFileKeepsInv == PathInv /\ CreateNewFile => PathInv'
  <1> SUFFICES ASSUME PathInv, CreateNewFile PROVE PathInv'
    OBVIOUS
  <1> USE InodesAssumption DEF PathInv, PathTypeOK, Outside, Places, Private, MaybeInode,
          BeforeCleanup, InCleanup, InDirectory, Owning, CreateNewFile, Put, Free, Linked
  <1>1. PathTypeOK'
    OBVIOUS
  <1>2. OursInv'
    BY DEF OursInv, DirectoryInv, PinInv
  <1>3. DirectoryInv'
    BY DEF DirectoryInv
  <1>4. PinInv'
    BY DEF PinInv, DirectoryInv
  <1> QED
    BY <1>1, <1>2, <1>3, <1>4

LEMMA NewFileUnownedKeepsInv == PathInv /\ NewFileUnowned => PathInv'
  <1> SUFFICES ASSUME PathInv, NewFileUnowned PROVE PathInv'
    OBVIOUS
  <1> USE InodesAssumption DEF PathInv, PathTypeOK, Outside, Places, Private, MaybeInode,
          BeforeCleanup, InCleanup, InDirectory, Owning, NewFileUnowned, Make, Put, Free, Linked
  <1>1. PathTypeOK'
    OBVIOUS
  <1>2. OursInv'
    BY DEF OursInv, DirectoryInv, PinInv
  <1>3. DirectoryInv'
    BY DEF DirectoryInv
  <1>4. PinInv'
    BY DEF PinInv, DirectoryInv
  <1> QED
    BY <1>1, <1>2, <1>3, <1>4

LEMMA WritePidKeepsInv == PathInv /\ WritePid => PathInv'
  <1> SUFFICES ASSUME PathInv, WritePid PROVE PathInv'
    OBVIOUS
  <1> USE InodesAssumption DEF PathInv, PathTypeOK, Outside, Places, Private, MaybeInode,
          BeforeCleanup, InCleanup, InDirectory, Owning, WritePid
  <1>1. PathTypeOK'
    OBVIOUS
  <1>2. OursInv'
    BY DEF OursInv, DirectoryInv, PinInv
  <1>3. DirectoryInv'
    BY DEF DirectoryInv
  <1>4. PinInv'
    BY DEF PinInv, DirectoryInv
  <1> QED
    BY <1>1, <1>2, <1>3, <1>4

LEMMA DropKeepsInv == PathInv /\ Drop => PathInv'
  <1> SUFFICES ASSUME PathInv, Drop PROVE PathInv'
    OBVIOUS
  <1> USE InodesAssumption DEF PathInv, PathTypeOK, Outside, Places, Private, MaybeInode,
          BeforeCleanup, InCleanup, InDirectory, Owning, Drop
  <1>1. PathTypeOK'
    OBVIOUS
  <1>2. OursInv'
    BY DEF OursInv, DirectoryInv, PinInv
  <1>3. DirectoryInv'
    BY DEF DirectoryInv
  <1>4. PinInv'
    BY DEF PinInv, DirectoryInv
  <1> QED
    BY <1>1, <1>2, <1>3, <1>4

LEMMA CleanupKeepsInv == PathInv /\ Cleanup => PathInv'
  <1> SUFFICES ASSUME PathInv, Cleanup PROVE PathInv'
    OBVIOUS
  <1> USE InodesAssumption DEF PathInv, PathTypeOK, Outside, Places, Private, MaybeInode,
          BeforeCleanup, InCleanup, InDirectory, Owning, Cleanup
  <1>1. PathTypeOK'
    OBVIOUS
  <1>2. OursInv'
    BY DEF OursInv, DirectoryInv, PinInv
  <1>3. DirectoryInv'
    BY DEF DirectoryInv
  <1>4. PinInv'
    BY DEF PinInv, DirectoryInv
  <1> QED
    BY <1>1, <1>2, <1>3, <1>4

LEMMA QuarantineEntryKeepsInv == PathInv /\ QuarantineEntry => PathInv'
  <1> SUFFICES ASSUME PathInv, QuarantineEntry PROVE PathInv'
    OBVIOUS
  <1> USE InodesAssumption DEF PathInv, PathTypeOK, Outside, Places, Private, MaybeInode,
          BeforeCleanup, InCleanup, InDirectory, Owning, QuarantineEntry, Put, Renames, DropNamespaceGuard, RemoveDirectory
  <1>1. PathTypeOK'
    OBVIOUS
  <1>2. OursInv'
    BY DEF OursInv, DirectoryInv, PinInv
  <1>3. DirectoryInv'
    BY DEF DirectoryInv
  <1>4. PinInv'
    BY DEF PinInv, DirectoryInv
  <1> QED
    BY <1>1, <1>2, <1>3, <1>4

LEMMA QuarantineMatchesKeepsInv == PathInv /\ QuarantineMatches => PathInv'
  <1> SUFFICES ASSUME PathInv, QuarantineMatches PROVE PathInv'
    OBVIOUS
  <1> USE InodesAssumption DEF PathInv, PathTypeOK, Outside, Places, Private, MaybeInode,
          BeforeCleanup, InCleanup, InDirectory, Owning, QuarantineMatches
  <1>1. PathTypeOK'
    OBVIOUS
  <1>2. OursInv'
    BY DEF OursInv, DirectoryInv, PinInv
  <1>3. DirectoryInv'
    BY DEF DirectoryInv
  <1>4. PinInv'
    BY DEF PinInv, DirectoryInv
  <1> QED
    BY <1>1, <1>2, <1>3, <1>4

LEMMA RemoveQuarantineKeepsInv == PathInv /\ RemoveQuarantine => PathInv'
  <1> SUFFICES ASSUME PathInv, RemoveQuarantine PROVE PathInv'
    OBVIOUS
  <1> USE InodesAssumption DEF PathInv, PathTypeOK, Outside, Places, Private, MaybeInode,
          BeforeCleanup, InCleanup, InDirectory, Owning, RemoveQuarantine, Put
  <1>1. PathTypeOK'
    OBVIOUS
  <1>2. OursInv'
    BY DEF OursInv, DirectoryInv, PinInv
  <1>3. DirectoryInv'
    BY DEF DirectoryInv
  <1>4. PinInv'
    BY DEF PinInv, DirectoryInv
  <1> QED
    BY <1>1, <1>2, <1>3, <1>4

LEMMA RestoreQuarantineKeepsInv == PathInv /\ RestoreQuarantine => PathInv'
  <1> SUFFICES ASSUME PathInv, RestoreQuarantine PROVE PathInv'
    OBVIOUS
  <1> USE InodesAssumption DEF PathInv, PathTypeOK, Outside, Places, Private, MaybeInode,
          BeforeCleanup, InCleanup, InDirectory, Owning, RestoreQuarantine, Renames
  <1>1. PathTypeOK'
    OBVIOUS
  <1>2. OursInv'
    BY DEF OursInv, DirectoryInv, PinInv
  <1>3. DirectoryInv'
    BY DEF DirectoryInv
  <1>4. PinInv'
    BY DEF PinInv, DirectoryInv
  <1> QED
    BY <1>1, <1>2, <1>3, <1>4

LEMMA RemovePrivateDirectoryKeepsInv == PathInv /\ RemovePrivateDirectory => PathInv'
  <1> SUFFICES ASSUME PathInv, RemovePrivateDirectory PROVE PathInv'
    OBVIOUS
  <1> USE InodesAssumption DEF PathInv, PathTypeOK, Outside, Places, Private, MaybeInode,
          BeforeCleanup, InCleanup, InDirectory, Owning, RemovePrivateDirectory, Put
  <1>1. PathTypeOK'
    OBVIOUS
  <1>2. OursInv'
    BY DEF OursInv, DirectoryInv, PinInv
  <1>3. DirectoryInv'
    BY DEF DirectoryInv
  <1>4. PinInv'
    BY DEF PinInv, DirectoryInv
  <1> QED
    BY <1>1, <1>2, <1>3, <1>4

LEMMA QuarantineFailsKeepsInv == PathInv /\ QuarantineFails => PathInv'
  <1> SUFFICES ASSUME PathInv, QuarantineFails PROVE PathInv'
    OBVIOUS
  <1> USE InodesAssumption DEF PathInv, PathTypeOK, Outside, Places, Private, MaybeInode,
          BeforeCleanup, InCleanup, InDirectory, Owning, QuarantineFails, Put, DropNamespaceGuard, RemoveDirectory
  <1>1. PathTypeOK'
    OBVIOUS
  <1>2. OursInv'
    BY DEF OursInv, DirectoryInv, PinInv
  <1>3. DirectoryInv'
    BY DEF DirectoryInv
  <1>4. PinInv'
    BY DEF PinInv, DirectoryInv
  <1> QED
    BY <1>1, <1>2, <1>3, <1>4

LEMMA UnpinKeepsInv == PathInv /\ Unpin => PathInv'
  <1> SUFFICES ASSUME PathInv, Unpin PROVE PathInv'
    OBVIOUS
  <1> USE InodesAssumption DEF PathInv, PathTypeOK, Outside, Places, Private, MaybeInode,
          BeforeCleanup, InCleanup, InDirectory, Owning, Unpin, Pinned
  <1>1. PathTypeOK'
    OBVIOUS
  <1>2. OursInv'
    BY DEF OursInv, DirectoryInv, PinInv
  <1>3. DirectoryInv'
    BY DEF DirectoryInv
  <1>4. PinInv'
    BY DEF PinInv, DirectoryInv
  <1> QED
    BY <1>1, <1>2, <1>3, <1>4

LEMMA ReleaseKeepsInv == PathInv /\ Release => PathInv'
  <1> SUFFICES ASSUME PathInv, Release PROVE PathInv'
    OBVIOUS
  <1> USE InodesAssumption DEF PathInv, PathTypeOK, Outside, Places, Private, MaybeInode,
          BeforeCleanup, InCleanup, InDirectory, Owning, Release
  <1>1. PathTypeOK'
    OBVIOUS
  <1>2. OursInv'
    BY DEF OursInv, DirectoryInv, PinInv
  <1>3. DirectoryInv'
    BY DEF DirectoryInv
  <1>4. PinInv'
    BY DEF PinInv, DirectoryInv
  <1> QED
    BY <1>1, <1>2, <1>3, <1>4

LEMMA OwnStepKeepsInv == PathInv /\ OwnStep => PathInv'
  BY CaptureKeepsInv, MakeDirectoryKeepsInv, StatDirectoryKeepsInv,
       OpenDirectoryKeepsInv, DirectoryFailsKeepsInv, BindKeepsInv,
       OwnEntryKeepsInv, PrepareSocketKeepsInv, PublishIntoKeepsInv,
       PublishRefusedKeepsInv, SocketFailsKeepsInv, DropStageKeepsInv,
       CreateNewFileKeepsInv, NewFileUnownedKeepsInv, WritePidKeepsInv,
       DropKeepsInv, CleanupKeepsInv, QuarantineEntryKeepsInv,
       QuarantineMatchesKeepsInv, RemoveQuarantineKeepsInv,
       RestoreQuarantineKeepsInv, RemovePrivateDirectoryKeepsInv,
       QuarantineFailsKeepsInv, UnpinKeepsInv, ReleaseKeepsInv
     DEF OwnStep

(* Other processes reach the public name and the private directories, but  *)
(* nothing below these, and get no inode number that is in use.            *)
LEMMA OthersKeepInv ==
    ASSUME PathInv,
           \/ OtherCreates \/ OtherRemoves \/ BoundaryChanges
           \/ \E p \in Private : OtherReplacesPrivate(p)
    PROVE  PathInv'
  <1> USE InodesAssumption DEF PathInv, PathTypeOK, Outside, ownVars, Places, Private, MaybeInode,
          BeforeCleanup, InCleanup, InDirectory, Owning, Make, Put, Free, Linked
  <1>1. CASE OtherCreates
    BY <1>1 DEF OtherCreates, OursInv, DirectoryInv, PinInv
  <1>2. CASE OtherRemoves
    BY <1>2 DEF OtherRemoves, OursInv, DirectoryInv, PinInv
  <1>3. CASE BoundaryChanges
    BY <1>3 DEF BoundaryChanges, OursInv, DirectoryInv, PinInv
  <1>4. ASSUME NEW p \in Private, OtherReplacesPrivate(p) PROVE PathInv'
    <2> USE <1>4 DEF OtherReplacesPrivate
    <2>1. PathTypeOK'
      OBVIOUS
    <2>2. OursInv'
      BY DEF OursInv, DirectoryInv
    <2>3. DirectoryInv' /\ PinInv'
      BY DEF DirectoryInv, PinInv
    <2> QED
      BY <2>1, <2>2, <2>3
  <1> QED
    BY <1>1, <1>2, <1>3, <1>4

LEMMA PathInvStep == PathInv /\ [PathNext]_pathVars => PathInv'
  <1> SUFFICES ASSUME PathInv, [PathNext]_pathVars PROVE PathInv'
    OBVIOUS
  <1>1. CASE OwnStep
    BY <1>1, OwnStepKeepsInv
  <1>2. CASE \/ OtherCreates \/ OtherRemoves \/ BoundaryChanges
             \/ \E p \in Private : OtherReplacesPrivate(p)
    BY <1>2, OthersKeepInv
  <1>3. CASE UNCHANGED pathVars
    BY <1>3 DEF PathInv, PathTypeOK, OursInv, DirectoryInv, PinInv, pathVars, ownVars
  <1> QED
    BY <1>1, <1>2, <1>3 DEF PathNext, Private

(* The inductive invariant: what the owner refers to is its own, and a     *)
(* path it will clean up is pinned by an open descriptor until then.       *)
THEOREM PathInvariant == PathSpec => []PathInv
  BY PathInvInit, PathInvStep, PTL DEF PathSpec

(***************************************************************************)
(* What a step of the owner may unlink.                                    *)
(***************************************************************************)
Survives == \A i \in Inodes : maker[i] = "them" /\ Linked(i) => Linked(i)'

(* Replacing the entry of place p, when that is none or ours.              *)
LEMMA PutSurvives ==
    ASSUME PathInv, NEW p \in Places, NEW i \in MaybeInode, Put(p, i),
           at[p] # None => maker[at[p]] = "us"
    PROVE  Survives
  BY InodesAssumption DEF PathInv, PathTypeOK, Put, Survives, Linked, MaybeInode

LEMMA SameSurvives ==
    ASSUME UNCHANGED at
    PROVE  Survives
  BY DEF Survives, Linked

(* A rename moves an entry to a free place.                                *)
LEMMA RenameSurvives ==
    ASSUME PathInv, NEW from \in Places, NEW to \in Places, Renames(from, to)
    PROVE  Survives
  <1> SUFFICES ASSUME NEW i \in Inodes, maker[i] = "them", Linked(i) PROVE Linked(i)'
    BY DEF Survives
  <1>1. PICK p \in Places : at[p] = i
    BY DEF Linked
  <1>2. CASE p = from
    <2>1. at'[to] = i
      BY <1>1, <1>2 DEF Renames, PathInv, PathTypeOK
    <2> QED
      BY <2>1 DEF Linked
  <1>3. CASE p # from
    <2>1. at'[p] = i
      BY InodesAssumption, <1>1, <1>3 DEF Renames, PathInv, PathTypeOK
    <2> QED
      BY <2>1 DEF Linked
  <1> QED
    BY <1>2, <1>3

LEMMA RemoveDirectorySurvives ==
    ASSUME PathInv, NEW p \in Private, RemoveDirectory(p)
    PROVE  Survives
  <1>1. CASE StillOurs(p) /\ Put(p, None)
    <2>1. at[p] # None => maker[at[p]] = "us"
      BY <1>1 DEF StillOurs, PathInv, OursInv
    <2> QED
      BY <1>1, <2>1, PutSurvives DEF Private, Places, MaybeInode
  <1>2. CASE UNCHANGED at
    BY <1>2, SameSurvives
  <1> QED
    BY <1>1, <1>2 DEF RemoveDirectory

LEMMA OwnStepSurvives == PathInv /\ OwnStep => Survives
  <1> SUFFICES ASSUME PathInv, OwnStep PROVE Survives
    OBVIOUS
  <1> USE DEF Places, Private, MaybeInode
  <1>1. CASE Capture \/ StatDirectory \/ OpenDirectory \/ OwnEntry \/ PrepareSocket
             \/ PublishRefused \/ WritePid \/ Drop \/ Cleanup \/ QuarantineMatches \/ Unpin
             \/ Release
    BY <1>1, SameSurvives DEF Capture, StatDirectory, OpenDirectory, OwnEntry, PrepareSocket,
       PublishRefused, WritePid, Drop, Cleanup, QuarantineMatches, Unpin, Release
  <1>2. CASE MakeDirectory
    BY <1>2, PutSurvives DEF MakeDirectory, Make, PathInv, PathTypeOK
  <1>3. CASE DirectoryFails
    <2>1. making \in Private
      BY DEF PathInv, PathTypeOK
    <2>2. CASE pc = "stat" /\ Put(making, None)
      BY <2>1, <2>2, PutSurvives DEF PathInv, OursInv
    <2> QED
      BY <1>3, <2>1, <2>2, SameSurvives, RemoveDirectorySurvives DEF DirectoryFails
  <1>4. CASE Bind
    BY <1>4, PutSurvives DEF Bind, PathInv, OursInv
  <1>5. CASE PublishInto
    BY <1>5, RenameSurvives DEF PublishInto
  <1>6. CASE SocketFails
    <2>1. CASE Put("staged", None)
      BY <2>1, PutSurvives DEF PathInv, OursInv
    <2> QED
      BY <1>6, <2>1, SameSurvives DEF SocketFails
  <1>7. CASE DropStage
    BY <1>7, RemoveDirectorySurvives DEF DropStage
  <1>8. CASE CreateNewFile
    <2>1. ASSUME NEW i \in Inodes, at["public"] = None, Put("public", i) PROVE Survives
      BY <2>1, PutSurvives
    <2> QED
      BY <1>8, <2>1, SameSurvives DEF CreateNewFile
  <1>9. CASE NewFileUnowned
    BY <1>9, PutSurvives DEF NewFileUnowned, Make
  <1>10. CASE QuarantineEntry
    <2>1. home \in Places
      BY DEF PathInv, PathTypeOK
    <2> QED
      BY <1>10, <2>1, RenameSurvives, RemoveDirectorySurvives
         DEF QuarantineEntry, DropNamespaceGuard
  <1>11. CASE RemoveQuarantine
    <2>1. at["candidate"] = pin /\ maker[pin] = "us"
      BY <1>11 DEF RemoveQuarantine, PathInv, OursInv, PinInv, Owning
    <2> QED
      BY <1>11, <2>1, PutSurvives DEF RemoveQuarantine
  <1>12. CASE RestoreQuarantine
    <2>1. home \in Places
      BY DEF PathInv, PathTypeOK
    <2> QED
      BY <1>12, <2>1, RenameSurvives, SameSurvives DEF RestoreQuarantine
  <1>13. CASE RemovePrivateDirectory
    <2>1. CASE StillOurs("quarantine") /\ Put("quarantine", None)
      BY <2>1, PutSurvives DEF StillOurs, PathInv, OursInv
    <2> QED
      BY <1>13, <2>1, SameSurvives DEF RemovePrivateDirectory
  <1>14. CASE QuarantineFails
    BY <1>14, RemoveDirectorySurvives, SameSurvives DEF QuarantineFails, DropNamespaceGuard
  <1> QED
    BY <1>1, <1>2, <1>3, <1>4, <1>5, <1>6, <1>7, <1>8, <1>9, <1>10, <1>11, <1>12, <1>13, <1>14
       DEF OwnStep

(* No step of the owner unlinks an inode that another process made,        *)
(* however many inodes there are, and however often others create, remove  *)
(* and replace what is at the public name and at the private ones.         *)
THEOREM ForeignEntriesSurvive == PathSpec => ForeignSurvives
  <1>1. PathInv /\ [PathNext]_pathVars
          => [OwnStep => \A i \in Inodes : maker[i] = "them" /\ Linked(i) => Linked(i)']_pathVars
    BY OwnStepSurvives DEF Survives
  <1> QED
    BY <1>1, PathInvariant, PTL DEF PathSpec, ForeignSurvives

-----------------------------------------------------------------------------
(* What is left behind by an owner that nothing hindered.  Its private     *)
(* directories are the ones it made,                                       *)
BeforeRename == {"mkdir", "stat", "open", "rename"}

StageLeft ==
    /\ trusted /\ anchored
    /\ pc = "capture" => home = IF kind = "socket" THEN "staged" ELSE "public"
    /\ pc = "create" => home = "public"
    /\ pc \in {"bind", "own", "prepare", "publish"} => home = "staged"
    /\ making = "stage" /\ pc \in InDirectory => home = "staged"
    /\ ~(making = "stage" /\ pc = "stat") => at["stage"] = dir["stage"]
    /\ pc \in {"create", "end"} => dir["stage"] = None
    /\ pc = "dropstage" /\ making = "stage" => pin # None /\ home = "public"

(* the quarantine stays only with what was reported in it,                 *)
QuarantineLeft ==
    /\ pc \in {"release", "dropstage", "end"} => dir["quarantine"] = None
    /\ pc \in {"rename", "verify", "unlink", "restore", "rmdir"} => dir["quarantine"] # None
    /\ making = "quarantine" /\ pc = "open" => dir["quarantine"] # None
    /\ ~reported /\ ~(making = "quarantine" /\ pc = "stat") => at["quarantine"] = dir["quarantine"]
    /\ ~reported => (at["candidate"] # None <=> pc \in {"verify", "unlink", "restore"})
    /\ reported => /\ pc \in {"release", "dropstage", "end"}
                   /\ making = "quarantine" /\ home = "public"
                   /\ at["quarantine"] # None
                   /\ at["candidate"] # None /\ maker[at["candidate"]] = "them"

(* and what is ours at a place is the entry, before it is cleaned up.      *)
EntryLeft ==
    /\ at["staged"] # None => /\ home = "staged"
                              /\ \/ pc \in {"own", "prepare", "publish", "drop"}
                                 \/ making = "quarantine" /\ pc \in BeforeRename
                              /\ pc # "own" => at["staged"] = identity
    /\ at["public"] # None /\ maker[at["public"]] = "us"
          => /\ home = "public" /\ at["public"] = identity
             /\ \/ pc \in {"write", "live", "drop"}
                \/ making = "stage" /\ pc = "dropstage"
                \/ making = "quarantine" /\ pc \in BeforeRename
    /\ at["candidate"] # None /\ maker[at["candidate"]] = "us" => at["candidate"] = identity
    /\ home = "staged" /\ at["candidate"] # None => at["candidate"] = identity
    /\ pc = "restore" => at["candidate"] # identity

LeftInv == ~hindered => StageLeft /\ QuarantineLeft /\ EntryLeft

LEMMA LeftInvInit == PathInit => LeftInv
  <1> SUFFICES ASSUME PathInit PROVE StageLeft /\ QuarantineLeft /\ EntryLeft
    BY DEF LeftInv
  <1> USE InodesAssumption DEF PathInit, Places, InDirectory
  <1>1. at["stage"] = None /\ at["staged"] = None /\ at["quarantine"] = None
        /\ at["candidate"] = None /\ (at["public"] # None => maker[at["public"]] = "them")
    OBVIOUS
  <1> QED
    BY <1>1 DEF StageLeft, QuarantineLeft, EntryLeft

LEMMA CaptureKeepsLeft == PathInv /\ LeftInv /\ Capture => LeftInv'
  <1> SUFFICES ASSUME PathInv, LeftInv, Capture, ~hindered'
               PROVE  StageLeft' /\ QuarantineLeft' /\ EntryLeft'
    BY DEF LeftInv
  <1>1. ~hindered
    BY DEF Capture
  <1>2. StageLeft /\ QuarantineLeft /\ EntryLeft
    BY <1>1 DEF LeftInv
  <1> USE InodesAssumption DEF PathInv, PathTypeOK, Outside, Places, Private, MaybeInode,
          BeforeCleanup, InCleanup, InDirectory, BeforeRename, Owning,
          Capture
  <1>3. StageLeft'
    BY <1>2 DEF StageLeft, QuarantineLeft, EntryLeft, DirectoryInv, PinInv
  <1>4. QuarantineLeft'
    BY <1>2 DEF StageLeft, QuarantineLeft, EntryLeft, DirectoryInv, PinInv, OursInv
  <1>5. EntryLeft'
    BY <1>2 DEF StageLeft, QuarantineLeft, EntryLeft, DirectoryInv, PinInv, OursInv
  <1> QED
    BY <1>3, <1>4, <1>5

LEMMA MakeDirectoryKeepsLeft == PathInv /\ LeftInv /\ MakeDirectory => LeftInv'
  <1> SUFFICES ASSUME PathInv, LeftInv, MakeDirectory, ~hindered'
               PROVE  StageLeft' /\ QuarantineLeft' /\ EntryLeft'
    BY DEF LeftInv
  <1>1. ~hindered
    BY SMTT(30) DEF MakeDirectory
  <1>2. StageLeft /\ QuarantineLeft /\ EntryLeft
    BY <1>1 DEF LeftInv
  <1> USE InodesAssumption DEF PathInv, PathTypeOK, Outside, Places, Private, MaybeInode,
          BeforeCleanup, InCleanup, InDirectory, BeforeRename, Owning,
          MakeDirectory, Make, Put, Free, Linked
  <1>3. StageLeft'
    BY <1>2 DEF StageLeft, QuarantineLeft, EntryLeft, DirectoryInv, PinInv
  <1>4. QuarantineLeft'
    BY ZenonT(30), <1>2 DEF StageLeft, QuarantineLeft, EntryLeft, DirectoryInv, PinInv, OursInv
  <1>5. EntryLeft'
    BY <1>2 DEF StageLeft, QuarantineLeft, EntryLeft, DirectoryInv, PinInv, OursInv
  <1> QED
    BY <1>3, <1>4, <1>5

LEMMA StatDirectoryKeepsLeft == PathInv /\ LeftInv /\ StatDirectory => LeftInv'
  <1> SUFFICES ASSUME PathInv, LeftInv, StatDirectory, ~hindered'
               PROVE  StageLeft' /\ QuarantineLeft' /\ EntryLeft'
    BY DEF LeftInv
  <1>1. ~hindered
    BY DEF StatDirectory
  <1>2. StageLeft /\ QuarantineLeft /\ EntryLeft
    BY <1>1 DEF LeftInv
  <1> USE InodesAssumption DEF PathInv, PathTypeOK, Outside, Places, Private, MaybeInode,
          BeforeCleanup, InCleanup, InDirectory, BeforeRename, Owning,
          StatDirectory
  <1>3. StageLeft'
    BY ZenonT(30), <1>2 DEF StageLeft, QuarantineLeft, EntryLeft, DirectoryInv, PinInv
  <1>4. QuarantineLeft'
    BY <1>2 DEF StageLeft, QuarantineLeft, EntryLeft, DirectoryInv, PinInv, OursInv
  <1>5. EntryLeft'
    BY <1>2 DEF StageLeft, QuarantineLeft, EntryLeft, DirectoryInv, PinInv, OursInv
  <1> QED
    BY <1>3, <1>4, <1>5

LEMMA OpenDirectoryKeepsLeft == PathInv /\ LeftInv /\ OpenDirectory => LeftInv'
  <1> SUFFICES ASSUME PathInv, LeftInv, OpenDirectory, ~hindered'
               PROVE  StageLeft' /\ QuarantineLeft' /\ EntryLeft'
    BY DEF LeftInv
  <1>1. ~hindered
    BY SMTT(30) DEF OpenDirectory
  <1>2. StageLeft /\ QuarantineLeft /\ EntryLeft
    BY <1>1 DEF LeftInv
  <1> USE InodesAssumption DEF PathInv, PathTypeOK, Outside, Places, Private, MaybeInode,
          BeforeCleanup, InCleanup, InDirectory, BeforeRename, Owning,
          OpenDirectory
  <1>3. StageLeft'
    BY <1>2 DEF StageLeft, QuarantineLeft, EntryLeft, DirectoryInv, PinInv
  <1>4. QuarantineLeft'
    BY <1>2 DEF StageLeft, QuarantineLeft, EntryLeft, DirectoryInv, PinInv, OursInv
  <1>5. EntryLeft'
    BY <1>2 DEF StageLeft, QuarantineLeft, EntryLeft, DirectoryInv, PinInv, OursInv
  <1> QED
    BY <1>3, <1>4, <1>5

LEMMA BindKeepsLeft == PathInv /\ LeftInv /\ Bind => LeftInv'
  <1> SUFFICES ASSUME PathInv, LeftInv, Bind, ~hindered'
               PROVE  StageLeft' /\ QuarantineLeft' /\ EntryLeft'
    BY DEF LeftInv
  <1>1. ~hindered
    BY DEF Bind
  <1>2. StageLeft /\ QuarantineLeft /\ EntryLeft
    BY <1>1 DEF LeftInv
  <1> USE InodesAssumption DEF PathInv, PathTypeOK, Outside, Places, Private, MaybeInode,
          BeforeCleanup, InCleanup, InDirectory, BeforeRename, Owning,
          Bind, Put, Free, Linked
  <1>3. StageLeft'
    BY ZenonT(30), <1>2 DEF StageLeft, QuarantineLeft, EntryLeft, DirectoryInv, PinInv
  <1>4. QuarantineLeft'
    BY <1>2 DEF StageLeft, QuarantineLeft, EntryLeft, DirectoryInv, PinInv, OursInv
  <1>5. EntryLeft'
    BY <1>2 DEF StageLeft, QuarantineLeft, EntryLeft, DirectoryInv, PinInv, OursInv
  <1> QED
    BY <1>3, <1>4, <1>5

LEMMA OwnEntryKeepsLeft == PathInv /\ LeftInv /\ OwnEntry => LeftInv'
  <1> SUFFICES ASSUME PathInv, LeftInv, OwnEntry, ~hindered'
               PROVE  StageLeft' /\ QuarantineLeft' /\ EntryLeft'
    BY DEF LeftInv
  <1>1. ~hindered
    BY SMTT(30) DEF OwnEntry
  <1>2. StageLeft /\ QuarantineLeft /\ EntryLeft
    BY <1>1 DEF LeftInv
  <1> USE InodesAssumption DEF PathInv, PathTypeOK, Outside, Places, Private, MaybeInode,
          BeforeCleanup, InCleanup, InDirectory, BeforeRename, Owning,
          OwnEntry
  <1>3. StageLeft'
    BY <1>2 DEF StageLeft, QuarantineLeft, EntryLeft, DirectoryInv, PinInv
  <1>4. QuarantineLeft'
    BY <1>2 DEF StageLeft, QuarantineLeft, EntryLeft, DirectoryInv, PinInv, OursInv
  <1>5. EntryLeft'
    BY <1>2 DEF StageLeft, QuarantineLeft, EntryLeft, DirectoryInv, PinInv, OursInv
  <1> QED
    BY <1>3, <1>4, <1>5

LEMMA PrepareSocketKeepsLeft == PathInv /\ LeftInv /\ PrepareSocket => LeftInv'
  <1> SUFFICES ASSUME PathInv, LeftInv, PrepareSocket, ~hindered'
               PROVE  StageLeft' /\ QuarantineLeft' /\ EntryLeft'
    BY DEF LeftInv
  <1>1. ~hindered
    BY DEF PrepareSocket
  <1>2. StageLeft /\ QuarantineLeft /\ EntryLeft
    BY <1>1 DEF LeftInv
  <1> USE InodesAssumption DEF PathInv, PathTypeOK, Outside, Places, Private, MaybeInode,
          BeforeCleanup, InCleanup, InDirectory, BeforeRename, Owning,
          PrepareSocket
  <1>3. StageLeft'
    BY ZenonT(30), <1>2 DEF StageLeft, QuarantineLeft, EntryLeft, DirectoryInv, PinInv
  <1>4. QuarantineLeft'
    BY ZenonT(30), <1>2 DEF StageLeft, QuarantineLeft, EntryLeft, DirectoryInv, PinInv, OursInv
  <1>5. EntryLeft'
    BY <1>2 DEF StageLeft, QuarantineLeft, EntryLeft, DirectoryInv, PinInv, OursInv
  <1> QED
    BY <1>3, <1>4, <1>5

LEMMA PublishIntoKeepsLeft == PathInv /\ LeftInv /\ PublishInto => LeftInv'
  <1> SUFFICES ASSUME PathInv, LeftInv, PublishInto, ~hindered'
               PROVE  StageLeft' /\ QuarantineLeft' /\ EntryLeft'
    BY DEF LeftInv
  <1>1. ~hindered
    BY SMTT(30) DEF PublishInto
  <1>2. StageLeft /\ QuarantineLeft /\ EntryLeft
    BY <1>1 DEF LeftInv
  <1> USE InodesAssumption DEF PathInv, PathTypeOK, Outside, Places, Private, MaybeInode,
          BeforeCleanup, InCleanup, InDirectory, BeforeRename, Owning,
          PublishInto, Renames
  <1>3. StageLeft'
    BY ZenonT(30), <1>2 DEF StageLeft, QuarantineLeft, EntryLeft, DirectoryInv, PinInv
  <1>4. QuarantineLeft'
    BY ZenonT(30), <1>2 DEF StageLeft, QuarantineLeft, EntryLeft, DirectoryInv, PinInv, OursInv
  <1>5. EntryLeft'
    BY <1>2 DEF StageLeft, QuarantineLeft, EntryLeft, DirectoryInv, PinInv, OursInv
  <1> QED
    BY <1>3, <1>4, <1>5

LEMMA PublishRefusedKeepsLeft == PathInv /\ LeftInv /\ PublishRefused => LeftInv'
  <1> SUFFICES ASSUME PathInv, LeftInv, PublishRefused, ~hindered'
               PROVE  StageLeft' /\ QuarantineLeft' /\ EntryLeft'
    BY DEF LeftInv
  <1>1. ~hindered
    BY SMTT(30) DEF PublishRefused
  <1>2. StageLeft /\ QuarantineLeft /\ EntryLeft
    BY <1>1 DEF LeftInv
  <1> USE InodesAssumption DEF PathInv, PathTypeOK, Outside, Places, Private, MaybeInode,
          BeforeCleanup, InCleanup, InDirectory, BeforeRename, Owning,
          PublishRefused
  <1>3. StageLeft'
    BY ZenonT(30), <1>2 DEF StageLeft, QuarantineLeft, EntryLeft, DirectoryInv, PinInv
  <1>4. QuarantineLeft'
    BY ZenonT(30), <1>2 DEF StageLeft, QuarantineLeft, EntryLeft, DirectoryInv, PinInv, OursInv
  <1>5. EntryLeft'
    BY <1>2 DEF StageLeft, QuarantineLeft, EntryLeft, DirectoryInv, PinInv, OursInv
  <1> QED
    BY <1>3, <1>4, <1>5

LEMMA DropStageKeepsLeft == PathInv /\ LeftInv /\ DropStage => LeftInv'
  <1> SUFFICES ASSUME PathInv, LeftInv, DropStage, ~hindered'
               PROVE  StageLeft' /\ QuarantineLeft' /\ EntryLeft'
    BY DEF LeftInv
  <1>1. ~hindered
    BY DEF DropStage
  <1>2. StageLeft /\ QuarantineLeft /\ EntryLeft
    BY <1>1 DEF LeftInv
  <1> USE InodesAssumption DEF PathInv, PathTypeOK, Outside, Places, Private, MaybeInode,
          BeforeCleanup, InCleanup, InDirectory, BeforeRename, Owning,
          DropStage, RemoveDirectory, StillOurs, Empty, Put, RetainedIsAuthentic
  <1>3. StageLeft'
    BY ZenonT(30), <1>2 DEF StageLeft, QuarantineLeft, EntryLeft, DirectoryInv, PinInv
  <1>4. QuarantineLeft'
    BY ZenonT(30), <1>2 DEF StageLeft, QuarantineLeft, EntryLeft, DirectoryInv, PinInv, OursInv
  <1>5. EntryLeft'
    BY <1>2 DEF StageLeft, QuarantineLeft, EntryLeft, DirectoryInv, PinInv, OursInv
  <1> QED
    BY <1>3, <1>4, <1>5

LEMMA CreateNewFileKeepsLeft == PathInv /\ LeftInv /\ CreateNewFile => LeftInv'
  <1> SUFFICES ASSUME PathInv, LeftInv, CreateNewFile, ~hindered'
               PROVE  StageLeft' /\ QuarantineLeft' /\ EntryLeft'
    BY DEF LeftInv
  <1>1. ~hindered
    BY ZenonT(30) DEF CreateNewFile
  <1>2. StageLeft /\ QuarantineLeft /\ EntryLeft
    BY <1>1 DEF LeftInv
  <1> USE InodesAssumption DEF PathInv, PathTypeOK, Outside, Places, Private, MaybeInode,
          BeforeCleanup, InCleanup, InDirectory, BeforeRename, Owning,
          CreateNewFile, Put, Free, Linked, AncestorsAreAuthentic
  <1>3. StageLeft'
    BY ZenonT(30), <1>2 DEF StageLeft, QuarantineLeft, EntryLeft, DirectoryInv, PinInv
  <1>4. QuarantineLeft'
    BY <1>2 DEF StageLeft, QuarantineLeft, EntryLeft, DirectoryInv, PinInv, OursInv
  <1>5. EntryLeft'
    BY <1>2 DEF StageLeft, QuarantineLeft, EntryLeft, DirectoryInv, PinInv, OursInv
  <1> QED
    BY <1>3, <1>4, <1>5

LEMMA WritePidKeepsLeft == PathInv /\ LeftInv /\ WritePid => LeftInv'
  <1> SUFFICES ASSUME PathInv, LeftInv, WritePid, ~hindered'
               PROVE  StageLeft' /\ QuarantineLeft' /\ EntryLeft'
    BY DEF LeftInv
  <1>1. ~hindered
    BY ZenonT(30) DEF WritePid
  <1>2. StageLeft /\ QuarantineLeft /\ EntryLeft
    BY <1>1 DEF LeftInv
  <1> USE InodesAssumption DEF PathInv, PathTypeOK, Outside, Places, Private, MaybeInode,
          BeforeCleanup, InCleanup, InDirectory, BeforeRename, Owning,
          WritePid
  <1>3. StageLeft'
    BY ZenonT(30), <1>2 DEF StageLeft, QuarantineLeft, EntryLeft, DirectoryInv, PinInv
  <1>4. QuarantineLeft'
    BY ZenonT(30), <1>2 DEF StageLeft, QuarantineLeft, EntryLeft, DirectoryInv, PinInv, OursInv
  <1>5. EntryLeft'
    BY <1>2 DEF StageLeft, QuarantineLeft, EntryLeft, DirectoryInv, PinInv, OursInv
  <1> QED
    BY <1>3, <1>4, <1>5

LEMMA DropKeepsLeft == PathInv /\ LeftInv /\ Drop => LeftInv'
  <1> SUFFICES ASSUME PathInv, LeftInv, Drop, ~hindered'
               PROVE  StageLeft' /\ QuarantineLeft' /\ EntryLeft'
    BY DEF LeftInv
  <1>1. ~hindered
    BY SMTT(30) DEF Drop
  <1>2. StageLeft /\ QuarantineLeft /\ EntryLeft
    BY <1>1 DEF LeftInv
  <1> USE InodesAssumption DEF PathInv, PathTypeOK, Outside, Places, Private, MaybeInode,
          BeforeCleanup, InCleanup, InDirectory, BeforeRename, Owning,
          Drop
  <1>3. StageLeft'
    BY ZenonT(30), <1>2 DEF StageLeft, QuarantineLeft, EntryLeft, DirectoryInv, PinInv
  <1>4. QuarantineLeft'
    BY <1>2 DEF StageLeft, QuarantineLeft, EntryLeft, DirectoryInv, PinInv, OursInv
  <1>5. EntryLeft'
    BY <1>2 DEF StageLeft, QuarantineLeft, EntryLeft, DirectoryInv, PinInv, OursInv
  <1> QED
    BY <1>3, <1>4, <1>5

LEMMA CleanupKeepsLeft == PathInv /\ LeftInv /\ Cleanup => LeftInv'
  <1> SUFFICES ASSUME PathInv, LeftInv, Cleanup, ~hindered'
               PROVE  StageLeft' /\ QuarantineLeft' /\ EntryLeft'
    BY DEF LeftInv
  <1>1. ~hindered
    BY ZenonT(30) DEF Cleanup
  <1>2. StageLeft /\ QuarantineLeft /\ EntryLeft
    BY <1>1 DEF LeftInv
  <1> USE InodesAssumption DEF PathInv, PathTypeOK, Outside, Places, Private, MaybeInode,
          BeforeCleanup, InCleanup, InDirectory, BeforeRename, Owning,
          Cleanup
  <1>3. StageLeft'
    BY ZenonT(30), <1>2 DEF StageLeft, QuarantineLeft, EntryLeft, DirectoryInv, PinInv
  <1>4. QuarantineLeft'
    BY ZenonT(30), <1>2 DEF StageLeft, QuarantineLeft, EntryLeft, DirectoryInv, PinInv, OursInv
  <1>5. EntryLeft'
    BY <1>2 DEF StageLeft, QuarantineLeft, EntryLeft, DirectoryInv, PinInv, OursInv
  <1> QED
    BY <1>3, <1>4, <1>5

LEMMA QuarantineEntryKeepsLeft == PathInv /\ LeftInv /\ QuarantineEntry => LeftInv'
  <1> SUFFICES ASSUME PathInv, LeftInv, QuarantineEntry, ~hindered'
               PROVE  StageLeft' /\ QuarantineLeft' /\ EntryLeft'
    BY DEF LeftInv
  <1>1. ~hindered
    BY ZenonT(30) DEF QuarantineEntry
  <1>2. StageLeft /\ QuarantineLeft /\ EntryLeft
    BY <1>1 DEF LeftInv
  <1> USE InodesAssumption DEF PathInv, PathTypeOK, Outside, Places, Private, MaybeInode,
          BeforeCleanup, InCleanup, InDirectory, BeforeRename, Owning,
          QuarantineEntry, DropNamespaceGuard, RemoveDirectory, StillOurs, Empty, Put, RetainedIsAuthentic, Renames
  <1>3. StageLeft'
    BY ZenonT(30), <1>2 DEF StageLeft, QuarantineLeft, EntryLeft, DirectoryInv, PinInv
  <1>4. QuarantineLeft'
    BY <1>2 DEF StageLeft, QuarantineLeft, EntryLeft, DirectoryInv, PinInv, OursInv
  <1>5. EntryLeft'
    BY <1>2 DEF StageLeft, QuarantineLeft, EntryLeft, DirectoryInv, PinInv, OursInv
  <1> QED
    BY <1>3, <1>4, <1>5

LEMMA QuarantineMatchesKeepsLeft == PathInv /\ LeftInv /\ QuarantineMatches => LeftInv'
  <1> SUFFICES ASSUME PathInv, LeftInv, QuarantineMatches, ~hindered'
               PROVE  StageLeft' /\ QuarantineLeft' /\ EntryLeft'
    BY DEF LeftInv
  <1>1. ~hindered
    BY ZenonT(30) DEF QuarantineMatches
  <1>2. StageLeft /\ QuarantineLeft /\ EntryLeft
    BY <1>1 DEF LeftInv
  <1> USE InodesAssumption DEF PathInv, PathTypeOK, Outside, Places, Private, MaybeInode,
          BeforeCleanup, InCleanup, InDirectory, BeforeRename, Owning,
          QuarantineMatches
  <1>3. StageLeft'
    BY ZenonT(30), <1>2 DEF StageLeft, QuarantineLeft, EntryLeft, DirectoryInv, PinInv
  <1>4. QuarantineLeft'
    BY ZenonT(30), <1>2 DEF StageLeft, QuarantineLeft, EntryLeft, DirectoryInv, PinInv, OursInv
  <1>5. EntryLeft'
    BY <1>2 DEF StageLeft, QuarantineLeft, EntryLeft, DirectoryInv, PinInv, OursInv
  <1> QED
    BY <1>3, <1>4, <1>5

LEMMA RemoveQuarantineKeepsLeft == PathInv /\ LeftInv /\ RemoveQuarantine => LeftInv'
  <1> SUFFICES ASSUME PathInv, LeftInv, RemoveQuarantine, ~hindered'
               PROVE  StageLeft' /\ QuarantineLeft' /\ EntryLeft'
    BY DEF LeftInv
  <1>1. ~hindered
    BY DEF RemoveQuarantine
  <1>2. StageLeft /\ QuarantineLeft /\ EntryLeft
    BY <1>1 DEF LeftInv
  <1> USE InodesAssumption DEF PathInv, PathTypeOK, Outside, Places, Private, MaybeInode,
          BeforeCleanup, InCleanup, InDirectory, BeforeRename, Owning,
          RemoveQuarantine, Put
  <1>3. StageLeft'
    BY ZenonT(30), <1>2 DEF StageLeft, QuarantineLeft, EntryLeft, DirectoryInv, PinInv
  <1>4. QuarantineLeft'
    BY ZenonT(30), <1>2 DEF StageLeft, QuarantineLeft, EntryLeft, DirectoryInv, PinInv, OursInv
  <1>5. EntryLeft'
    BY <1>2 DEF StageLeft, QuarantineLeft, EntryLeft, DirectoryInv, PinInv, OursInv
  <1> QED
    BY <1>3, <1>4, <1>5

LEMMA RestoreQuarantineKeepsLeft == PathInv /\ LeftInv /\ RestoreQuarantine => LeftInv'
  <1> SUFFICES ASSUME PathInv, LeftInv, RestoreQuarantine, ~hindered'
               PROVE  StageLeft' /\ QuarantineLeft' /\ EntryLeft'
    BY DEF LeftInv
  <1>1. ~hindered
    BY ZenonT(30) DEF RestoreQuarantine
  <1>2. StageLeft /\ QuarantineLeft /\ EntryLeft
    BY <1>1 DEF LeftInv
  <1> USE InodesAssumption DEF PathInv, PathTypeOK, Outside, Places, Private, MaybeInode,
          BeforeCleanup, InCleanup, InDirectory, BeforeRename, Owning,
          RestoreQuarantine, Renames
  <1>3. StageLeft'
    BY ZenonT(30), <1>2 DEF StageLeft, QuarantineLeft, EntryLeft, DirectoryInv, PinInv
  <1>4. QuarantineLeft'
    BY SMTT(30), <1>2 DEF StageLeft, QuarantineLeft, EntryLeft, DirectoryInv, PinInv, OursInv
  <1>5. EntryLeft'
    BY <1>2 DEF StageLeft, QuarantineLeft, EntryLeft, DirectoryInv, PinInv, OursInv
  <1> QED
    BY <1>3, <1>4, <1>5

LEMMA RemovePrivateDirectoryKeepsLeft == PathInv /\ LeftInv /\ RemovePrivateDirectory => LeftInv'
  <1> SUFFICES ASSUME PathInv, LeftInv, RemovePrivateDirectory, ~hindered'
               PROVE  StageLeft' /\ QuarantineLeft' /\ EntryLeft'
    BY DEF LeftInv
  <1>1. ~hindered
    BY ZenonT(30) DEF RemovePrivateDirectory
  <1>2. StageLeft /\ QuarantineLeft /\ EntryLeft
    BY <1>1 DEF LeftInv
  <1> USE InodesAssumption DEF PathInv, PathTypeOK, Outside, Places, Private, MaybeInode,
          BeforeCleanup, InCleanup, InDirectory, BeforeRename, Owning,
          RemovePrivateDirectory, StillOurs, Put
  <1>3. StageLeft'
    BY ZenonT(30), <1>2 DEF StageLeft, QuarantineLeft, EntryLeft, DirectoryInv, PinInv
  <1>4. QuarantineLeft'
    BY ZenonT(30), <1>2 DEF StageLeft, QuarantineLeft, EntryLeft, DirectoryInv, PinInv, OursInv
  <1>5. EntryLeft'
    BY <1>2 DEF StageLeft, QuarantineLeft, EntryLeft, DirectoryInv, PinInv, OursInv
  <1> QED
    BY <1>3, <1>4, <1>5

LEMMA UnpinKeepsLeft == PathInv /\ LeftInv /\ Unpin => LeftInv'
  <1> SUFFICES ASSUME PathInv, LeftInv, Unpin, ~hindered'
               PROVE  StageLeft' /\ QuarantineLeft' /\ EntryLeft'
    BY DEF LeftInv
  <1>1. ~hindered
    BY SMTT(30) DEF Unpin
  <1>2. StageLeft /\ QuarantineLeft /\ EntryLeft
    BY <1>1 DEF LeftInv
  <1> USE InodesAssumption DEF PathInv, PathTypeOK, Outside, Places, Private, MaybeInode,
          BeforeCleanup, InCleanup, InDirectory, BeforeRename, Owning,
          Unpin, Pinned
  <1>3. StageLeft'
    BY ZenonT(30), <1>2 DEF StageLeft, QuarantineLeft, EntryLeft, DirectoryInv, PinInv
  <1>4. QuarantineLeft'
    BY ZenonT(30), <1>2 DEF StageLeft, QuarantineLeft, EntryLeft, DirectoryInv, PinInv, OursInv
  <1>5. EntryLeft'
    BY <1>2 DEF StageLeft, QuarantineLeft, EntryLeft, DirectoryInv, PinInv, OursInv
  <1> QED
    BY <1>3, <1>4, <1>5

LEMMA ReleaseKeepsLeft == PathInv /\ LeftInv /\ Release => LeftInv'
  <1> SUFFICES ASSUME PathInv, LeftInv, Release, ~hindered'
               PROVE  StageLeft' /\ QuarantineLeft' /\ EntryLeft'
    BY DEF LeftInv
  <1>1. ~hindered
    BY SMTT(30) DEF Release
  <1>2. StageLeft /\ QuarantineLeft /\ EntryLeft
    BY <1>1 DEF LeftInv
  <1> USE InodesAssumption DEF PathInv, PathTypeOK, Outside, Places, Private, MaybeInode,
          BeforeCleanup, InCleanup, InDirectory, BeforeRename, Owning,
          Release
  <1>3. StageLeft'
    BY ZenonT(30), <1>2 DEF StageLeft, QuarantineLeft, EntryLeft, DirectoryInv, PinInv
  <1>4. QuarantineLeft'
    BY ZenonT(30), <1>2 DEF StageLeft, QuarantineLeft, EntryLeft, DirectoryInv, PinInv, OursInv
  <1>5. EntryLeft'
    BY <1>2 DEF StageLeft, QuarantineLeft, EntryLeft, DirectoryInv, PinInv, OursInv
  <1> QED
    BY <1>3, <1>4, <1>5

LEMMA OtherCreatesKeepsLeft == PathInv /\ LeftInv /\ OtherCreates => LeftInv'
  <1> SUFFICES ASSUME PathInv, LeftInv, OtherCreates, ~hindered'
               PROVE  StageLeft' /\ QuarantineLeft' /\ EntryLeft'
    BY DEF LeftInv
  <1>1. ~hindered
    BY ZenonT(30) DEF OtherCreates
  <1>2. StageLeft /\ QuarantineLeft /\ EntryLeft
    BY <1>1 DEF LeftInv
  <1> USE InodesAssumption DEF PathInv, PathTypeOK, Outside, Places, Private, MaybeInode,
          BeforeCleanup, InCleanup, InDirectory, BeforeRename, Owning,
          OtherCreates, Make, Put, Free, Linked, ownVars
  <1>3. StageLeft'
    BY ZenonT(30), <1>2 DEF StageLeft, QuarantineLeft, EntryLeft, DirectoryInv, PinInv
  <1>4. QuarantineLeft'
    BY SMTT(30), <1>2 DEF StageLeft, QuarantineLeft, EntryLeft, DirectoryInv, PinInv, OursInv
  <1>5. EntryLeft'
    BY <1>2 DEF StageLeft, QuarantineLeft, EntryLeft, DirectoryInv, PinInv, OursInv
  <1> QED
    BY <1>3, <1>4, <1>5

LEMMA OtherRemovesKeepsLeft == PathInv /\ LeftInv /\ OtherRemoves => LeftInv'
  <1> SUFFICES ASSUME PathInv, LeftInv, OtherRemoves, ~hindered'
               PROVE  StageLeft' /\ QuarantineLeft' /\ EntryLeft'
    BY DEF LeftInv
  <1>1. ~hindered
    BY ZenonT(30) DEF OtherRemoves
  <1>2. StageLeft /\ QuarantineLeft /\ EntryLeft
    BY <1>1 DEF LeftInv
  <1> USE InodesAssumption DEF PathInv, PathTypeOK, Outside, Places, Private, MaybeInode,
          BeforeCleanup, InCleanup, InDirectory, BeforeRename, Owning,
          OtherRemoves, Put, ownVars
  <1>3. StageLeft'
    BY ZenonT(30), <1>2 DEF StageLeft, QuarantineLeft, EntryLeft, DirectoryInv, PinInv
  <1>4. QuarantineLeft'
    BY ZenonT(30), <1>2 DEF StageLeft, QuarantineLeft, EntryLeft, DirectoryInv, PinInv, OursInv
  <1>5. EntryLeft'
    BY <1>2 DEF StageLeft, QuarantineLeft, EntryLeft, DirectoryInv, PinInv, OursInv
  <1> QED
    BY <1>3, <1>4, <1>5

(* What hinders the owner, from inside or from outside, ends the claim.    *)
LEMMA HinderedKeepsLeft ==
    ASSUME \/ DirectoryFails \/ SocketFails \/ NewFileUnowned \/ QuarantineFails
           \/ BoundaryChanges \/ \E p \in Private : OtherReplacesPrivate(p)
    PROVE  LeftInv'
  <1>1. hindered'
    BY DEF DirectoryFails, SocketFails, NewFileUnowned, QuarantineFails, BoundaryChanges,
           OtherReplacesPrivate
  <1> QED
    BY <1>1 DEF LeftInv

LEMMA LeftInvStep == PathInv /\ LeftInv /\ [PathNext]_pathVars => LeftInv'
  <1> SUFFICES ASSUME PathInv, LeftInv, [PathNext]_pathVars PROVE LeftInv'
    OBVIOUS
  <1>1. CASE OwnStep
    BY <1>1, HinderedKeepsLeft,
       CaptureKeepsLeft, MakeDirectoryKeepsLeft, StatDirectoryKeepsLeft,
       OpenDirectoryKeepsLeft, BindKeepsLeft, OwnEntryKeepsLeft, PrepareSocketKeepsLeft,
       PublishIntoKeepsLeft, PublishRefusedKeepsLeft, DropStageKeepsLeft,
       CreateNewFileKeepsLeft, WritePidKeepsLeft, DropKeepsLeft, CleanupKeepsLeft,
       QuarantineEntryKeepsLeft, QuarantineMatchesKeepsLeft, RemoveQuarantineKeepsLeft,
       RestoreQuarantineKeepsLeft, RemovePrivateDirectoryKeepsLeft, UnpinKeepsLeft,
       ReleaseKeepsLeft
       DEF OwnStep
  <1>2. CASE OtherCreates \/ OtherRemoves
    BY <1>2, OtherCreatesKeepsLeft, OtherRemovesKeepsLeft
  <1>3. CASE BoundaryChanges \/ \E p \in {"stage", "quarantine"} : OtherReplacesPrivate(p)
    BY ZenonT(30), <1>3, HinderedKeepsLeft DEF Private
  <1>4. CASE UNCHANGED pathVars
    BY <1>4 DEF pathVars, ownVars, LeftInv, StageLeft, QuarantineLeft, EntryLeft
  <1> QED
    BY <1>1, <1>2, <1>3, <1>4 DEF PathNext

(* An owner that nothing hindered leaves nothing of its own behind, for    *)
(* any number of inodes, and however often others create and remove the    *)
(* public entry in between.                                                *)
THEOREM NothingIsLeftBehind == PathSpec => []NothingLeftBehind
  <1>1. PathInv /\ LeftInv => NothingLeftBehind
    <2> SUFFICES ASSUME PathInv, StageLeft, QuarantineLeft, EntryLeft, pc = "end"
                 PROVE  /\ \A p \in Places \ {"quarantine"} : at[p] # None => maker[at[p]] = "them"
                        /\ at["stage"] = None
                        /\ at["quarantine"] # None <=> at["candidate"] # None
                        /\ at["candidate"] # None => reported
      BY DEF LeftInv, NothingLeftBehind
    <2>1. at["stage"] = None /\ at["staged"] = None
      BY DEF StageLeft, EntryLeft, BeforeRename
    <2>2. at["public"] # None => maker[at["public"]] = "them"
      BY InodesAssumption
         DEF EntryLeft, BeforeRename, PathInv, PathTypeOK, Places, MaybeInode
    <2>3. at["candidate"] # None => reported /\ maker[at["candidate"]] = "them"
      BY DEF QuarantineLeft
    <2>4. at["quarantine"] # None <=> at["candidate"] # None
      BY DEF QuarantineLeft
    <2> QED
      BY <2>1, <2>2, <2>3, <2>4 DEF Places
  <1> QED
    BY <1>1, PathInvariant, LeftInvInit, LeftInvStep, PTL DEF PathSpec
=============================================================================
