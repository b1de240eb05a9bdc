--------------------------- MODULE AudibleMaster ---------------------------
(***************************************************************************)
(* What publication promises a listener, whatever the mailbox, the tickets *)
(* and the receipts between the two threads do.  One cohort is heard, and  *)
(* the control thread knows of one.  The heard cohort is exchanged in one  *)
(* step, only for a newer one, never for an older revision and never from  *)
(* a complete cohort to a part of the same revision; and it is exchanged   *)
(* again only after the control thread has learnt of the last exchange.    *)
(***************************************************************************)
EXTENDS Naturals

CONSTANTS Cohorts, None

VARIABLES
  heard,   \* the cohort the renderer plays from, or None before the first
  known    \* the cohort the control thread calls active, or None

master == <<heard, known>>

\* A later revision, or more of the same one.
Supersedes(next, last) ==
  /\ next.plan >= last.plan
  /\ next.plan = last.plan /\ last.ready => next.ready

Init == heard = None /\ known = None

\* A host starts, or replaces another, with a complete cohort.
Open ==
  /\ heard' \in {c \in Cohorts : c.ready /\ (heard # None => Supersedes(c, heard))}
  /\ known' = heard'

\* The renderer changes over.  A renderer the control thread has given up
\* (known = None) may still take what was on its way.
Exchange ==
  /\ heard # None
  /\ known \in {heard, None}
  /\ heard' \in {c \in Cohorts : c.sequence > heard.sequence /\ Supersedes(c, heard)}
  /\ UNCHANGED known

\* The control thread is told.
Learn == known # None /\ known' = heard /\ UNCHANGED heard

\* The control thread loses its renderer.
GiveUp == known' = None /\ UNCHANGED heard

Next == Open \/ Exchange \/ Learn \/ GiveUp

Spec == Init /\ [][Next]_master
=============================================================================
