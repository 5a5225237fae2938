--------------------------- MODULE SftpSessionMC ---------------------------
(***************************************************************************)
(* Names for TLC: a hidden one, two to be shown, one that is not UTF-8.    *)
(***************************************************************************)
EXTENDS SftpSession

CONSTANTS dot, log, text, raw

MCNames == {dot, log, text, raw}
MCRank == [n \in MCNames |-> IF n = log THEN 1 ELSE 2]
=============================================================================
