----------------------------- MODULE MCSummary -----------------------------
(* Small instances of Summary: both channels, one kind of alert that is     *)
(* throttled and one that is not.                                           *)
EXTENDS Summary

MCChannels == <<"discord", "telegram">>
=============================================================================
