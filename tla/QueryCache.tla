------------------------------ MODULE QueryCache ------------------------------
(***************************************************************************)
(* One query of the dashboard's QueryClient, as the hooks use it: what the *)
(* page shows, the read in flight, and what that read was answered.  The   *)
(* operators change the fields of a query and keep the others of a record  *)
(* that holds one.                                                         *)
(***************************************************************************)
Query(value) == [shown |-> value, fetch |-> "none", got |-> value]

\* invalidateQueries: the read in flight is cancelled and another one is sent.
Invalidated(q) == [q EXCEPT !.fetch = "sent", !.got = q.shown]
\* The server reads its rows; the answer is rendered later.
Answered(q, value) == [q EXCEPT !.fetch = "answered", !.got = value]
Rendered(q) == [q EXCEPT !.fetch = "none", !.shown = q.got]
\* A read that failed keeps the data of the one before.
Failed(q) == [q EXCEPT !.fetch = "none", !.got = q.shown]
=============================================================================
