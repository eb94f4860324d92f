---------------------------- MODULE StoreContract ----------------------------
(***************************************************************************)
(* What the Store trait of src/src/store/mod.rs promises its one caller,   *)
(* the registry, which keeps its mutations one at a time and makes no call *)
(* after an indeterminate one.  A call that returns a value was performed  *)
(* once, atomically, and returns what it wrote or removed; a call that     *)
(* fails with an ordinary error changed nothing; a call of unknown outcome *)
(* was performed once before it returned, or once later, or never.  Other  *)
(* processes write the same records at any time.                           *)
(***************************************************************************)
EXTENDS Integers

CONSTANTS Keys, Targets, MaxTime,
          None,     \* Option::None
          Corrupt   \* a record that RouteData cannot be decoded from

VARIABLES
    db,      \* the records of the backend
    floor,   \* what each key's ActivityFloor answers now
    call,    \* the call in progress
    commit,  \* what performing it gave, once it has been performed
    reply,   \* the last answer
    limbo    \* an abandoned call that may still be performed

contractVars == <<db, floor, call, commit, reply, limbo>>

Times == 0 .. MaxTime
Records == [target : Targets, at : Times]
Contents == Records \cup {None, Corrupt}

(* add and put_preserving_activity are both "replace".                     *)
Ops == {"replace", "put", "update", "delete", "snapshot"}
Calls == [op : Ops, key : Keys, data : Records, floor : Times]

Silent == [kind |-> "none", value |-> None]

(* No call invents an activity stamp: a replacement takes its own, the     *)
(* floor's, or the one already stored.                                     *)
Stamps(c, d, f) ==
    {t \in Times : /\ t >= c.data.at /\ t >= c.floor
                   /\ \/ t = c.data.at \/ t <= f[c.key]
                      \/ d[c.key] \in Records /\ t = d[c.key].at}

Performs(c, d, e, f) ==
    \/ /\ c.op = "replace"
       /\ \E t \in Stamps(c, d, f) :
             e = [d EXCEPT ![c.key] = [target |-> c.data.target, at |-> t]]
    \/ /\ c.op = "put"
       /\ e = [d EXCEPT ![c.key] = c.data]
    \/ /\ c.op = "update"
       /\ \/ d[c.key] = None /\ e = d
          \/ d[c.key] \in Records /\ e = [d EXCEPT ![c.key].at = c.data.at]
    \/ /\ c.op = "delete"
       /\ e = [d EXCEPT ![c.key] = None]
    \/ /\ c.op = "snapshot"
       /\ e = d

Returned(c, d, e) ==
    CASE c.op = "replace" -> e[c.key]
      [] c.op = "delete" -> d[c.key]
      [] c.op = "snapshot" -> d
      [] OTHER -> None

Decodable(c, v) ==
    /\ v # Corrupt
    /\ c.op = "snapshot" => \A k \in Keys : v[k] # Corrupt

ContractInit ==
    /\ db \in [Keys -> Contents]
    /\ floor \in [Keys -> Times]
    /\ call = None /\ commit = None /\ limbo = None
    /\ reply = Silent

Invoke ==
    /\ call = None
    /\ reply.kind # "indeterminate"
    /\ \E c \in Calls : c.floor = floor[c.key] /\ call' = c
    /\ reply' = Silent
    /\ UNCHANGED <<db, floor, commit, limbo>>

Commit ==
    /\ call # None
    /\ commit = None
    /\ Performs(call, db, db', floor)
    /\ commit' = [value |-> Returned(call, db, db'), changed |-> db' # db]
    /\ UNCHANGED <<floor, call, reply, limbo>>

(* What had no effect may be done again.                                   *)
Forget ==
    /\ commit # None
    /\ ~commit.changed
    /\ commit' = None
    /\ UNCHANGED <<db, floor, call, reply, limbo>>

Succeed ==
    /\ call # None
    /\ commit # None
    /\ Decodable(call, commit.value)
    /\ reply' = [kind |-> "ok", value |-> commit.value]
    /\ call' = None /\ commit' = None
    /\ UNCHANGED <<db, floor, limbo>>

FailUnchanged ==
    /\ call # None
    /\ commit = None \/ ~commit.changed
    /\ reply' = [kind |-> "ordinary", value |-> None]
    /\ call' = None /\ commit' = None
    /\ UNCHANGED <<db, floor, limbo>>

Abandon ==
    /\ call # None
    /\ reply' = [kind |-> "indeterminate", value |-> None]
    /\ call' = None /\ commit' = None
    /\ limbo' = None \/ (commit = None /\ limbo' = call)
    /\ UNCHANGED <<db, floor>>

LateCommit ==
    /\ limbo # None
    /\ Performs(limbo, db, db', floor) \/ db' = db
    /\ limbo' = None
    /\ UNCHANGED <<floor, call, commit, reply>>

Observe ==
    /\ \E k \in Keys : \E t \in Times :
          t > floor[k] /\ floor' = [floor EXCEPT ![k] = t]
    /\ UNCHANGED <<db, call, commit, reply, limbo>>

OthersWrite ==
    /\ \E k \in Keys : \E r \in Contents : db' = [db EXCEPT ![k] = r]
    /\ UNCHANGED <<floor, call, commit, reply, limbo>>

ContractNext ==
    \/ Invoke \/ Commit \/ Forget \/ Succeed \/ FailUnchanged \/ Abandon
    \/ LateCommit \/ Observe \/ OthersWrite

ContractSpec == ContractInit /\ [][ContractNext]_contractVars
=============================================================================
