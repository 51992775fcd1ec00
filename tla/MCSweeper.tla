----------------------------- MODULE MCSweeper -----------------------------
(***************************************************************************)
(* Instances of Sweeper for TLC: two sessions more than one of which the   *)
(* sweep hears nothing, before or after the one that was lost.             *)
(***************************************************************************)
EXTENDS Sweeper

\* One applicant takes time, one session cannot be asked about for the moment.
MCVendor == <<"lost", "unreachable", "waits">>

\* Two have ended with a status that the table of the worker has not.
MCUnknown == <<"lost", "unknown", "unknown">>
=============================================================================
