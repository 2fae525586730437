--------------------------- MODULE MCExportStream ---------------------------
(***************************************************************************)
(* Two instances with the same log file names and a repository host.       *)
(***************************************************************************)
EXTENDS ExportStream

CONSTANTS primary, replica, repoHost

TwoInstances == <<primary, replica>>
OneRepoHost == <<repoHost>>
=============================================================================
