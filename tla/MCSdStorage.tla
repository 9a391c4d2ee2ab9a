---------------------------- MODULE MCSdStorage ----------------------------
(***************************************************************************)
(* Small instance of SdStorage: cards of 2 and 4 sectors, requests that    *)
(* fit both, only the larger, or neither, of one and of two chunks, with   *)
(* the retry counts of the code.                                           *)
(***************************************************************************)
EXTENDS SdStorage

MCCounts   == {2, 4}
MCRequests == {<<0, 2>>, <<1, 3>>, <<3, 2>>}
=============================================================================
