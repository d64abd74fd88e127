------------------------------ MODULE WorkLedger ------------------------------
(***************************************************************************)
(* What the match_data queue promises, without batches, buffers or runs:   *)
(* a match is pending until its payload rows are stored, and the rows of a *)
(* match that is no longer pending stay.  RECOVERY_SYSTEM.md states it as  *)
(* "pending = row exists, finished = row deleted".                         *)
(***************************************************************************)
CONSTANT Match

VARIABLES
    pending,  \* matches waiting to be ingested
    stored    \* matches all of whose rows are in the tables

Init == pending = {} /\ stored \subseteq Match

\* A crawl may list a match again after it was finished.
Admit(S) == pending' = pending \cup S /\ UNCHANGED stored

Store(S) == stored' = stored \cup S /\ UNCHANGED pending

\* Only the rows of a match that will be fetched again may be taken back.
TakeBack(S) ==
    /\ S \subseteq pending
    /\ stored' = stored \ S
    /\ UNCHANGED pending

Finish(S) ==
    /\ S \subseteq pending \cap stored
    /\ pending' = pending \ S
    /\ UNCHANGED stored

Next == \E S \in SUBSET Match : Admit(S) \/ Store(S) \/ TakeBack(S) \/ Finish(S)

Spec == Init /\ [][Next]_<<pending, stored>>
===============================================================================
