---------------------------- MODULE PowerContract ----------------------------
(***************************************************************************)
(* What a power collection session promises to those who read its          *)
(* artifacts: rows are only ever added to samples.csv; the session ends    *)
(* with one verdict; a verdict that was reached by reading the rows is     *)
(* about the rows that stay in the file; and rows are published only if    *)
(* they cover every expected device and nothing was lost while they were   *)
(* collected.                                                              *)
(*                                                                         *)
(* "minimal" is the verdict of a session that could not get at the file,   *)
(* "raised" that of one whose finalizer failed: neither read the rows.     *)
(***************************************************************************)
CONSTANT Devices        \* the expected devices

VARIABLES log,          \* the rows of samples.csv, pairs <<scrape, device>>
          lost,         \* the collection has been disturbed
          verdict

contractVars == <<log, lost, verdict>>

Audited == {"published", "unpublished"}

Covered(rows) == \A d \in Devices : \E row \in rows : row[2] = d

Init == log = {} /\ lost = FALSE /\ verdict = "pending"

Record ==
    /\ verdict \notin Audited
    /\ log \subseteq log'
    /\ UNCHANGED <<lost, verdict>>

Lose ==
    /\ verdict # "published"
    /\ lost' = TRUE
    /\ UNCHANGED <<log, verdict>>

Conclude ==
    /\ verdict = "pending"
    /\ \/ verdict' \in {"unpublished", "minimal", "raised"}
       \/ verdict' = "published" /\ ~lost /\ Covered(log)
    /\ UNCHANGED <<log, lost>>

Next == Record \/ Lose \/ Conclude

Spec == Init /\ [][Next]_contractVars
=============================================================================
