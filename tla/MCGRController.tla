-------------------------- MODULE MCGRController --------------------------
(***************************************************************************)
(* The fault sets of the runs of GRController.                             *)
(***************************************************************************)
EXTENDS GRController

\* Anything may fail while the informer caches are current.
NotStale == AllFaults \ {"stale", "kill"}

\* The caches lag; status writes fail only for that reason.
StaleCaches == {"stale", "resources", "sql", "edit", "crash"}

\* The answers of servers get lost.
OnlySQL == {"sql"}

===========================================================================
