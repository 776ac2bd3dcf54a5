------------------------------- MODULE MCSdTxt -------------------------------
(***************************************************************************)
(* SdTxt with a table of two buckets: all keys fall into one of them.      *)
(* The data of a record is followed in a message by zeroes or by the first *)
(* character of the name of the next record.                               *)
(***************************************************************************)
EXTENDS SdTxt

MCKeys == {<<97>>, <<99>>, <<98, 97>>}
MCValues == {<<120>>, <<Equals, 121>>}
MCBehind == {<<0>>, <<95>>}
=============================================================================
