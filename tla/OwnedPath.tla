------------------------------ MODULE OwnedPath ------------------------------
(***************************************************************************)
(* Ownership of a public path, src/src/path_ownership.rs, in its two uses: *)
(* a Unix socket that is bound in a private staging directory and renamed  *)
(* into place (bind_unix_socket of src/src/api_server.rs), and the PID     *)
(* file that is created in place (PidFileGuard of src/src/shutdown.rs).    *)
(* At its end the owner moves what it finds under the public name into a   *)
(* private quarantine directory, and removes it only if it is the inode it *)
(* made; anything else it moves back.                                      *)
(*                                                                         *)
(* Other processes create, remove and replace the public entry at any      *)
(* time, and may replace a private directory once its random name can be   *)
(* known.  An inode number is used again as soon as nothing links it and   *)
(* no descriptor pins it.  The check and the rmdir of a private directory  *)
(* are one step: the code says that it cannot close that window.           *)
(***************************************************************************)
EXTENDS FiniteSets

CONSTANTS Inodes, None

ASSUME InodesAssumption == None \notin Inodes

VARIABLES
    at,        \* the inode at each place, or None
    maker,     \* who made each inode, "us" or "them"
    kind,      \* "socket" or "pid"
    pc,        \* the next step of the owner
    making,    \* the private directory being made: "stage" or "quarantine"
    dir,       \* the identity of each private directory, whose descriptor is open
    identity,  \* OwnedPath.identity
    home,      \* the place OwnedPath names: "staged" or "public"
    pin,       \* the inode the socket or file descriptor keeps
    trusted,   \* the retained directory has the owner and mode it had
    anchored,  \* so have the directories above it
    hindered,  \* a system call failed, or a private name or the boundary was touched
    reported   \* cleanup returned the path of a kept quarantine

ownVars == <<pc, making, dir, identity, home, pin, reported>>
pathVars == <<at, maker, kind, ownVars, trusted, anchored, hindered>>

Places == {"public", "stage", "staged", "quarantine", "candidate"}

Linked(i) == \E p \in Places : at[p] = i

(* Nothing refers to inode i, so that a new file may be given its number.  *)
Free(i) == ~Linked(i) /\ pin # i /\ dir["stage"] # i /\ dir["quarantine"] # i

Put(p, i) == at' = [at EXCEPT ![p] = i]

Make(p, who) == \E i \in Inodes :
    Free(i) /\ Put(p, i) /\ maker' = [maker EXCEPT ![i] = who]

PathInit ==
    /\ maker \in [Inodes -> {"them"}]
    /\ at \in {[p \in Places |-> IF p = "public" THEN i ELSE None] : i \in Inodes \cup {None}}
    /\ kind \in {"socket", "pid"}
    /\ pc = "capture"
    /\ making = "stage"
    /\ dir = [p \in {"stage", "quarantine"} |-> None]
    /\ identity = None /\ pin = None
    /\ home = IF kind = "socket" THEN "staged" ELSE "public"
    /\ trusted = TRUE /\ anchored = TRUE
    /\ hindered = FALSE /\ reported = FALSE

Outside == <<kind, trusted, anchored>>

(* The owner ends after a private directory could not be had: nothing is   *)
(* published, or the entry stays where it is.                              *)
Leave == pc' = IF making = "stage" THEN "end" ELSE "release"

(* What authenticate_boundary_directory finds of the retained directory,   *)
(* and of it and every directory above.                                    *)
RetainedIsAuthentic == trusted
AncestorsAreAuthentic == trusted /\ anchored

(* AuthenticatedBoundary::capture: every component is opened below the one *)
(* before and checked for its owner, mode and ACL.                         *)
Capture ==
    /\ pc = "capture"
    /\ pc' = IF kind = "socket" THEN "mkdir" ELSE "create"
    /\ UNCHANGED <<at, maker, making, dir, identity, home, pin, reported, hindered, Outside>>

(***************************************************************************)
(* create_authenticated_private_directory, for staging and for quarantine. *)
(* A name that is taken is replaced by another random one.                 *)
(***************************************************************************)
MakeDirectory ==
    /\ pc = "mkdir"
    /\ IF making = "stage" THEN AncestorsAreAuthentic ELSE RetainedIsAuthentic
    /\ at[making] = None
    /\ Make(making, "us")
    /\ pc' = "stat"
    /\ UNCHANGED <<making, dir, identity, home, pin, reported, hindered, Outside>>

StatDirectory ==
    /\ pc = "stat"
    /\ dir' = [dir EXCEPT ![making] = at[making]]
    /\ pc' = "open"
    /\ UNCHANGED <<at, maker, making, identity, home, pin, reported, hindered, Outside>>

OpenDirectory ==
    /\ pc = "open"
    /\ at[making] = dir[making]
    /\ pc' = IF making = "stage" THEN "bind" ELSE "rename"
    /\ UNCHANGED <<at, maker, making, dir, identity, home, pin, reported, hindered, Outside>>

Empty(p) == IF p = "stage"
            THEN at["staged"] = None /\ ~(home = "staged" /\ at["quarantine"] # None)
            ELSE at["candidate"] = None

StillOurs(p) == at[p] = dir[p]

(* rmdir, if the directory of that name is the one that was made.          *)
RemoveDirectory(p) ==
    IF RetainedIsAuthentic /\ StillOurs(p) /\ Empty(p) THEN Put(p, None) ELSE UNCHANGED at

(* A failure drops the guard that is armed: the provisional one, which     *)
(* looks for a directory of ours, then the one that knows the identity.    *)
DirectoryFails ==
    /\ pc \in {"mkdir", "stat", "open"}
    /\ CASE pc = "mkdir" -> UNCHANGED at
         [] pc = "stat" -> IF RetainedIsAuthentic THEN Put(making, None) ELSE UNCHANGED at
         [] OTHER -> RemoveDirectory(making)
    /\ dir' = [dir EXCEPT ![making] = None]
    /\ Leave
    /\ hindered' = TRUE
    /\ UNCHANGED <<maker, making, identity, home, pin, reported, Outside>>

(***************************************************************************)
(* The socket: bind below the staging directory, take the identity, set    *)
(* the mode, publish.  An error after own_entry drops the owner, and then  *)
(* the staging directory.                                                  *)
(***************************************************************************)
Bind ==
    /\ pc = "bind"
    /\ AncestorsAreAuthentic
    /\ \E i \in Inodes : /\ Free(i)
                         /\ Put("staged", i)
                         /\ maker' = [maker EXCEPT ![i] = "us"]
                         /\ pin' = i
    /\ pc' = "own"
    /\ UNCHANGED <<making, dir, identity, home, reported, hindered, Outside>>

OwnEntry ==
    /\ pc = "own"
    /\ identity' = at["staged"]
    /\ pc' = "prepare"
    /\ UNCHANGED <<at, maker, making, dir, home, pin, reported, hindered, Outside>>

PrepareSocket ==
    /\ pc = "prepare"
    /\ at["staged"] = identity
    /\ pc' = "publish"
    /\ UNCHANGED <<at, maker, making, dir, identity, home, pin, reported, hindered, Outside>>

(* rename_relative_noreplace                                               *)
Renames(from, to) ==
    /\ at[from] # None
    /\ at[to] = None
    /\ at' = [at EXCEPT ![from] = None, ![to] = at[from]]

PublishInto ==
    /\ pc = "publish"
    /\ AncestorsAreAuthentic
    /\ Renames("staged", "public")
    /\ home' = "public"
    /\ pc' = "dropstage"
    /\ UNCHANGED <<maker, making, dir, identity, pin, reported, hindered, Outside>>

(* The public name is taken: an expected error.                            *)
PublishRefused ==
    /\ pc = "publish"
    /\ at["public"] # None
    /\ pc' = "drop"
    /\ UNCHANGED <<at, maker, making, dir, identity, home, pin, reported, hindered, Outside>>

SocketFails ==
    /\ pc \in {"bind", "own", "prepare", "publish"}
    /\ IF pc = "own" THEN Put("staged", None) ELSE UNCHANGED at
    /\ pin' = IF pc = "own" THEN None ELSE pin
    /\ pc' = IF identity # None THEN "drop" ELSE "dropstage"
    /\ hindered' = TRUE
    /\ UNCHANGED <<maker, making, dir, identity, home, reported, Outside>>

(* Drop for PrivateDirectory.                                              *)
DropStage ==
    /\ pc = "dropstage"
    /\ RemoveDirectory("stage")
    /\ dir' = [dir EXCEPT !["stage"] = None]
    /\ pc' = IF pin # None THEN "live" ELSE "end"
    /\ UNCHANGED <<maker, making, identity, home, pin, reported, hindered, Outside>>

(***************************************************************************)
(* PidFileGuard::acquire: create_new_file, then write and sync.            *)
(***************************************************************************)
CreateNewFile ==
    /\ pc = "create"
    /\ IF AncestorsAreAuthentic /\ at["public"] = None
       THEN \E i \in Inodes : /\ Free(i)
                              /\ Put("public", i)
                              /\ maker' = [maker EXCEPT ![i] = "us"]
                              /\ pin' = i /\ identity' = i
                              /\ pc' = "write"
       ELSE pc' = "end" /\ UNCHANGED <<at, maker, pin, identity>>
    /\ UNCHANGED <<making, dir, home, reported, hindered, Outside>>

(* fstat of the new file fails: nothing owns it.                           *)
NewFileUnowned ==
    /\ pc = "create"
    /\ AncestorsAreAuthentic /\ at["public"] = None
    /\ Make("public", "us")
    /\ pc' = "end"
    /\ hindered' = TRUE
    /\ UNCHANGED <<making, dir, identity, home, pin, reported, Outside>>

WritePid ==
    /\ pc = "write"
    /\ pc' \in {"live", "drop"}
    /\ UNCHANGED <<at, maker, making, dir, identity, home, pin, reported, hindered, Outside>>

Drop ==
    /\ pc = "live"
    /\ pc' = "drop"
    /\ UNCHANGED <<at, maker, making, dir, identity, home, pin, reported, hindered, Outside>>

(***************************************************************************)
(* cleanup.  The entry is renamed into a new private directory,            *)
(***************************************************************************)
Cleanup ==
    /\ pc = "drop"
    /\ making' = "quarantine"
    /\ pc' = "mkdir"
    /\ UNCHANGED <<at, maker, dir, identity, home, pin, reported, hindered, Outside>>

MutantDropNamespaceGuard == UNCHANGED at  \* the guard is disarmed too early
DropNamespaceGuard == RemoveDirectory("quarantine")

QuarantineEntry ==
    /\ pc = "rename"
    /\ IF at[home] = None
       THEN /\ DropNamespaceGuard
            /\ dir' = [dir EXCEPT !["quarantine"] = None]
            /\ pc' = "release"
       ELSE /\ Renames(home, "candidate")
            /\ pc' = "verify"
            /\ UNCHANGED dir
    /\ UNCHANGED <<maker, making, identity, home, pin, reported, hindered, Outside>>

(* compared there with the identity (a failing stat is no match),          *)
QuarantineMatches ==
    /\ pc = "verify"
    /\ \/ /\ pc' = IF at["candidate"] = identity THEN "unlink" ELSE "restore"
          /\ UNCHANGED hindered
       \/ pc' = "restore" /\ hindered' = TRUE
    /\ UNCHANGED <<at, maker, making, dir, identity, home, pin, reported, Outside>>

(* removed,                                                                *)
RemoveQuarantine ==
    /\ pc = "unlink"
    /\ Put("candidate", None)
    /\ pc' = "rmdir"
    /\ UNCHANGED <<maker, making, dir, identity, home, pin, reported, hindered, Outside>>

(* or moved back, unless the name has been taken again.                    *)
RestoreQuarantine ==
    /\ pc = "restore"
    /\ IF at[home] = None
       THEN Renames("candidate", home) /\ pc' = "rmdir" /\ UNCHANGED <<dir, reported>>
       ELSE /\ reported' = TRUE
            /\ dir' = [dir EXCEPT !["quarantine"] = None]
            /\ pc' = "release"
            /\ UNCHANGED at
    /\ UNCHANGED <<maker, making, identity, home, pin, hindered, Outside>>

RemovePrivateDirectory ==
    /\ pc = "rmdir"
    /\ IF StillOurs("quarantine")
       THEN Put("quarantine", None) /\ UNCHANGED reported
       ELSE reported' = TRUE /\ UNCHANGED at
    /\ dir' = [dir EXCEPT !["quarantine"] = None]
    /\ pc' = "release"
    /\ UNCHANGED <<maker, making, identity, home, pin, hindered, Outside>>

QuarantineFails ==
    /\ pc \in {"rename", "unlink", "restore", "rmdir"}
    /\ IF pc = "rename" THEN DropNamespaceGuard ELSE UNCHANGED at
    /\ dir' = [dir EXCEPT !["quarantine"] = None]
    /\ reported' = (reported \/ pc # "rename")
    /\ pc' = "release"
    /\ hindered' = TRUE
    /\ UNCHANGED <<maker, making, identity, home, pin, Outside>>

(* The descriptor is closed only after its path is cleaned up.             *)
MutantPinned == pc \notin {"mkdir", "release"}  \* closed before the cleanup
Pinned == pc # "release"

Unpin ==
    /\ pin # None
    /\ ~Pinned
    /\ pin' = None
    /\ UNCHANGED <<at, maker, pc, making, dir, identity, home, reported, hindered, Outside>>

Release ==
    /\ pc = "release"
    /\ pin = None
    /\ pc' = IF dir["stage"] # None THEN "dropstage" ELSE "end"
    /\ UNCHANGED <<at, maker, making, dir, identity, home, pin, reported, hindered, Outside>>

OwnStep ==
    \/ Capture \/ MakeDirectory \/ StatDirectory \/ OpenDirectory \/ DirectoryFails
    \/ Bind \/ OwnEntry \/ PrepareSocket \/ PublishInto \/ PublishRefused \/ SocketFails \/ DropStage
    \/ CreateNewFile \/ NewFileUnowned \/ WritePid \/ Drop \/ Cleanup \/ QuarantineEntry
    \/ QuarantineMatches \/ RemoveQuarantine \/ RestoreQuarantine
    \/ RemovePrivateDirectory \/ QuarantineFails \/ Unpin \/ Release

(***************************************************************************)
(* External: other processes.                                              *)
(***************************************************************************)
OtherCreates ==
    /\ at["public"] = None
    /\ Make("public", "them")
    /\ UNCHANGED <<ownVars, hindered, Outside>>

OtherRemoves ==
    /\ at["public"] # None
    /\ Put("public", None)
    /\ UNCHANGED <<maker, ownVars, hindered, Outside>>

(* The private directory is moved aside, so its inode stays in use.        *)
OtherReplacesPrivate(p) ==
    /\ at[p] # None /\ at[p] = dir[p]
    /\ Make(p, "them")
    /\ hindered' = TRUE
    /\ UNCHANGED <<ownVars, Outside>>

BoundaryChanges ==
    /\ \/ trusted /\ trusted' = FALSE /\ UNCHANGED anchored
       \/ anchored /\ anchored' = FALSE /\ UNCHANGED trusted
    /\ hindered' = TRUE
    /\ UNCHANGED <<at, maker, kind, ownVars>>

PathNext ==
    \/ OwnStep
    \/ OtherCreates \/ OtherRemoves \/ BoundaryChanges
    \/ \E p \in {"stage", "quarantine"} : OtherReplacesPrivate(p)

PathSpec == PathInit /\ [][PathNext]_pathVars

(***************************************************************************)
(* Properties                                                              *)
(***************************************************************************)

(* No step of the owner unlinks what another process made: publication     *)
(* never replaces an entry, cleanup removes only the inode it verified     *)
(* while its descriptor was still open, a foreign entry it displaced is    *)
(* put back or kept in its quarantine, and a private directory that was    *)
(* replaced is left alone (path_ownership.rs 849-938, 1100-1128).          *)
ForeignSurvives ==
    [][OwnStep => \A i \in Inodes : maker[i] = "them" /\ Linked(i) => Linked(i)']_pathVars

(* When nothing failed and nobody touched the boundary or a private name,  *)
(* the owner leaves nothing of its own behind, neither entry nor staging   *)
(* nor quarantine directory, whether it was published, refused or          *)
(* replaced; a quarantine stays only with a foreign entry in it, and is    *)
(* reported (path_ownership.rs 879-938, 635-668).                          *)
NothingLeftBehind ==
    pc = "end" /\ ~hindered =>
        /\ \A p \in Places \ {"quarantine"} : at[p] # None => maker[at[p]] = "them"
        /\ at["stage"] = None
        /\ at["quarantine"] # None <=> at["candidate"] # None
        /\ at["candidate"] # None => reported
=============================================================================
