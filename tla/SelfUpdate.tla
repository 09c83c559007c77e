----------------------------- MODULE SelfUpdate -----------------------------
(***************************************************************************)
(* DoUpdate of the SDK: download, two renames, start of the new program.   *)
(* A file is none, good or bad; a bad one is cut short, or is the error    *)
(* page of the web server, whose status nobody looks at.                   *)
(***************************************************************************)
EXTENDS Integers

CONSTANT MaxUpdates   \* bound: calls of DoUpdate

ASSUME UpdateAssumption == MaxUpdates \in Nat

Copy == {"none", "good", "bad"}

VARIABLES
    exe,       \* the program
    old,       \* the program with suffix .old
    download,  \* enxame.download
    program,   \* the running program: idle, fetched, cleared, moved, swapped, dead
    offered,   \* CheckForUpdate said that there is a new version
    updates,   \* number of DoUpdate calls
    badTaken,  \* history: a bad download was taken for good
    stuck      \* history: a rollback failed

updateVars == <<exe, old, download, program, offered, updates, badTaken, stuck>>

UpdateInit ==
    /\ exe = "good" /\ old = "none" /\ download = "none"
    /\ program = "idle" /\ offered = FALSE
    /\ updates = 0 /\ badTaken = FALSE /\ stuck = FALSE

\* The server compares versions for equality; without a configured one it offers none.
CheckForUpdate ==
    /\ program = "idle" /\ ~offered
    /\ offered' = TRUE
    /\ UNCHANGED <<exe, old, download, program, updates, badTaken, stuck>>

\* A copy that breaks off ends the update; what was written stays.
Download ==
    /\ program = "idle" /\ offered /\ updates < MaxUpdates
    /\ updates' = updates + 1
    /\ \/ download' = "bad" /\ UNCHANGED <<program, badTaken>>
       \/ download' = "good" /\ program' = "fetched" /\ UNCHANGED badTaken
       \/ download' = "bad" /\ program' = "fetched" /\ badTaken' = TRUE
    /\ UNCHANGED <<exe, old, offered, stuck>>

RemoveOld ==
    /\ program = "fetched"
    /\ old' = "none" /\ program' = "cleared"
    /\ UNCHANGED <<exe, download, offered, updates, badTaken, stuck>>

\* Faulty variant: the program is deleted, not renamed.
MoveCurrentDeletes ==
    /\ program = "cleared"
    /\ exe' = "none" /\ program' = "moved"
    /\ UNCHANGED <<old, download, offered, updates, badTaken, stuck>>

\* The first rename; it fails when there is no program, or for any other reason.
MoveCurrent ==
    /\ program = "cleared"
    /\ \/ /\ exe # "none"
          /\ old' = exe /\ exe' = "none" /\ program' = "moved"
       \/ program' = "idle" /\ UNCHANGED <<exe, old>>
    /\ UNCHANGED <<download, offered, updates, badTaken, stuck>>

\* The second rename; when it fails the first one is undone, if that works.
MoveNew ==
    /\ program = "moved"
    /\ \/ /\ exe' = download /\ download' = "none" /\ program' = "swapped"
          /\ UNCHANGED <<old, stuck>>
       \/ /\ exe' = old /\ old' = "none" /\ program' = "idle"
          /\ UNCHANGED <<download, stuck>>
       \/ /\ program' = "idle" /\ stuck' = TRUE
          /\ UNCHANGED <<exe, old, download>>
    /\ UNCHANGED <<offered, updates, badTaken>>

\* The new program takes over; when it does not start the old one goes on running.
StartNew ==
    /\ program = "swapped"
    /\ program' = "idle"
    /\ offered' = (exe # "good")
    /\ UNCHANGED <<exe, old, download, updates, badTaken, stuck>>

\* The process may end at any point; only the file at its path can be started again.
Die ==
    /\ program # "dead"
    /\ program' = "dead"
    /\ UNCHANGED <<exe, old, download, offered, updates, badTaken, stuck>>

StartAgain ==
    /\ program = "dead" /\ exe = "good"
    /\ program' = "idle" /\ offered' = FALSE
    /\ UNCHANGED <<exe, old, download, updates, badTaken, stuck>>

UpdateNext ==
    \/ CheckForUpdate \/ Download \/ RemoveOld \/ MoveCurrent \/ MoveNew \/ StartNew
    \/ Die \/ StartAgain

UpdateSpec == UpdateInit /\ [][UpdateNext]_updateVars

(***************************************************************************)
(* Properties.                                                             *)
(***************************************************************************)
\* Every variable has its type.
UpdateTypeOK ==
    /\ exe \in Copy /\ old \in Copy /\ download \in Copy
    /\ program \in {"idle", "fetched", "cleared", "moved", "swapped", "dead"}
    /\ offered \in BOOLEAN
    /\ updates \in 0..MaxUpdates /\ badTaken \in BOOLEAN /\ stuck \in BOOLEAN

\* However often an update breaks off and wherever the process ends, the disk holds an
\* intact program, at its path or next to it as .old: unless a bad download was taken
\* for good or a rollback failed.  After either, the next update may remove the last
\* intact copy.
IntactCopyRemains == ~badTaken /\ ~stuck => "good" \in {exe, old}
=============================================================================
