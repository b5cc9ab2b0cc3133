------------------------------- MODULE Backups -------------------------------
(***************************************************************************)
(* Backups of the database: dumped to a temporary file, stored, then those *)
(* older than the retention deleted.  The nightly job and an administrator *)
(* may run one at the same time; a process may stop in the middle.         *)
(*                                                                         *)
(* A day is the unit of time.  The report by e-mail and the alert of a     *)
(* failed job change no state and are left out.                            *)
(***************************************************************************)
EXTENDS Naturals, FiniteSets

CONSTANTS Runner,         \* the nightly job, the administrator's requests
          RetentionDays,  \* BACKUP_RETENTION_DAYS
          MaxDay, MaxKey, \* bounds: days, and backups begun
          None

VARIABLES
  day, keys, \* today; the keys given so far: a key is a time
  stored,    \* the objects under backups/postgres/: their key and the day they came
  tmp,       \* the temporary files there are, by key
  run        \* per runner: its step, key, cutoff and the objects it will delete, or None
VARIABLE newest  \* history, read by no action: the last object stored, or None

vars == <<day, keys, stored, tmp, run, newest>>

Object == [key : 1..MaxKey, day : 0..MaxDay]
Run == [at : {"dump", "upload", "retain", "delete"}, key : 1..MaxKey, doomed : SUBSET Object]

TypeOK ==
  /\ day \in 0..MaxDay /\ keys \in 0..MaxKey /\ stored \subseteq Object
  /\ tmp \subseteq 1..MaxKey /\ newest \in Object \cup {None}
  /\ run \in [Runner -> Run \cup {None}]

Init == /\ day = 0 /\ keys = 0 /\ stored = {} /\ tmp = {}
        /\ run = [r \in Runner |-> None] /\ newest = None

At(r, s) == run[r] # None /\ run[r].at = s

\* A version that makes room before it stores
RoomFirst == [dump |-> "retain", delete |-> "upload", upload |-> "end"]
\* The step after each.
Following == [dump |-> "upload", upload |-> "retain", delete |-> "end"]

\* The temporary file goes in any case ("finally").
Advance(r, s) ==
  IF Following[s] = "end"
  THEN run' = [run EXCEPT ![r] = None] /\ tmp' = tmp \ {run[r].key}
  ELSE run' = [run EXCEPT ![r].at = Following[s]] /\ UNCHANGED tmp

Start(r) ==
  /\ run[r] = None /\ keys < MaxKey /\ keys' = keys + 1
  /\ run' = [run EXCEPT ![r] = [at |-> "dump", key |-> keys + 1, doomed |-> {}]]
  /\ UNCHANGED <<day, stored, tmp, newest>>

Dump(r) ==
  /\ At(r, "dump") /\ ~(run[r].key \in tmp) /\ tmp' = tmp \cup {run[r].key}
  /\ run' = [run EXCEPT ![r].at = Following["dump"]]
  /\ UNCHANGED <<day, keys, stored, newest>>

Upload(r) ==
  /\ At(r, "upload") /\ Advance(r, "upload")
  /\ newest' = [key |-> run[r].key, day |-> day] /\ stored' = stored \cup {newest'}
  /\ UNCHANGED <<day, keys>>

Outdated(o) == o.day + RetentionDays < day

\* applyRetention: the cutoff, then the list of what is stored.
Retain(r) ==
  /\ At(r, "retain")
  /\ run' = [run EXCEPT ![r].at = "delete", ![r].doomed = {o \in stored : Outdated(o)}]
  /\ UNCHANGED <<day, keys, stored, tmp, newest>>

\* One by one; an object that is gone is no error.
DeleteOld(r, o) ==
  /\ At(r, "delete") /\ o \in run[r].doomed /\ stored' = stored \ {o}
  /\ run' = [run EXCEPT ![r].doomed = @ \ {o}]
  /\ UNCHANGED <<day, keys, tmp, newest>>
Finish(r) ==
  /\ At(r, "delete") /\ run[r].doomed = {} /\ Advance(r, "delete")
  /\ UNCHANGED <<day, keys, stored, newest>>

\* pg_dump, the storage or a deletion fails.
Fail(r) ==
  /\ run[r] # None /\ run' = [run EXCEPT ![r] = None] /\ tmp' = tmp \ {run[r].key}
  /\ UNCHANGED <<day, keys, stored, newest>>

\* The process stops: its temporary file stays.
Crash(r) ==
  /\ run[r] # None /\ run' = [run EXCEPT ![r] = None]
  /\ UNCHANGED <<day, keys, stored, tmp, newest>>

\* A backup takes less than a day, and is over before the retention is.
NextDay ==
  /\ day < MaxDay /\ day' = day + 1 /\ \A r \in Runner : run[r] = None
  /\ UNCHANGED <<keys, stored, tmp, run, newest>>

Next ==
  \/ \E r \in Runner : \/ Start(r) \/ Dump(r) \/ Upload(r) \/ Retain(r) \/ Finish(r)
                       \/ Fail(r) \/ Crash(r)
  \/ \E r \in Runner, o \in Object : DeleteOld(r, o)
  \/ NextDay

Spec == Init /\ [][Next]_vars
-----------------------------------------------------------------------------
\* However many nights fail, the last backup that was stored is still there: only a run
\* that has stored a newer one deletes old ones.
LastBackupRemains == newest # None => newest \in stored
=============================================================================
