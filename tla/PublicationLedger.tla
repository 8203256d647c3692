-------------------------- MODULE PublicationLedger --------------------------
(***************************************************************************)
(* What the publication record of one market date promises its readers     *)
(* (get_report, load_published_bundle, get_published_artifact,             *)
(* get_latest), whatever fails while it is written:                        *)
(*   - each revision gets at most one receipt, for ever;                   *)
(*   - what is shown under a revision is what its receipt names; a         *)
(*     publication may be withdrawn and shown again, never replaced;       *)
(*   - the latest pointer moves forward, and only to revisions that have   *)
(*     a receipt.                                                          *)
(***************************************************************************)
EXTENDS Naturals

CONSTANTS Revision, Document, None

VARIABLES receipt,  \* revision -> the document it was issued for, and when
          shown,    \* the revisions readers can see
          pointer   \* the latest pointer, 0 at first

vars == <<receipt, shown, pointer>>

Issued(r) == receipt[r].run # None

Init ==
  /\ receipt = [r \in Revision |-> [run |-> None, at |-> 0]]
  /\ shown = {}
  /\ pointer = 0

\* The first receipt of a revision makes it visible.
Issue(r) ==
  /\ ~Issued(r)
  /\ \E d \in Document :   \* at whatever time the writer's clock gives
       receipt' = [receipt EXCEPT ![r] = [run |-> d, at |-> receipt'[r].at]]
  /\ shown' = shown \cup {r}
  /\ UNCHANGED pointer

Withdraw(r) ==
  /\ r \in shown
  /\ shown' = shown \ {r}
  /\ UNCHANGED <<receipt, pointer>>

ShowAgain(r) ==
  /\ Issued(r) /\ r \notin shown
  /\ shown' = shown \cup {r}
  /\ UNCHANGED <<receipt, pointer>>

Advance(r) ==
  /\ Issued(r) /\ r > pointer
  /\ pointer' = r
  /\ UNCHANGED <<receipt, shown>>

Next == \E r \in Revision : Issue(r) \/ Withdraw(r) \/ ShowAgain(r) \/ Advance(r)

Spec == Init /\ [][Next]_vars
=============================================================================
