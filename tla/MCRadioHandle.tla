---------------------------- MODULE MCRadioHandle ----------------------------
(* Small instances of RadioHandle for TLC. *)
EXTENDS RadioHandle

MCStreams == {"video", "rc"}
MCBestEffort == {"video"}
=============================================================================
