--------------------------- MODULE MCEventJournal ---------------------------
(* The model-checking instance of EventJournal with JournalReplay.  No     *)
(* symmetry, since it checks liveness and the events differ in their time: *)
(* a page of two rows ends within the second millisecond.  The host is     *)
(* half a day ahead of UTC: when a page of the files has taken the cursor  *)
(* to that millisecond, the file it is in seems to have ended before.      *)
EXTENDS JournalReplay

Events == {"e1", "e2", "e3"}
Times == [e1 |-> 2, e2 |-> 7, e3 |-> 7]
Places == [e1 |-> 1, e2 |-> 2, e3 |-> 3]
=============================================================================
