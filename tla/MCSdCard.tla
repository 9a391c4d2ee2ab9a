------------------------------ MODULE MCSdCard ------------------------------
(***************************************************************************)
(* Small instance of SdCard: a version 1.0 card, a high-speed SDHC card,   *)
(* and UHS cards with all modes and without the fastest; the modes of the  *)
(* ladder of sd.c.                                                         *)
(***************************************************************************)
EXTENDS SdCard

Uhs == [v2 |-> TRUE, ccs |-> TRUE, s18 |-> TRUE, wide |-> TRUE, sda_vsn |-> 2,
        modes |-> {1, 2, 3}]
MCKinds ==
    {Uhs, [Uhs EXCEPT !.modes = {1, 2}], [Uhs EXCEPT !.s18 = FALSE, !.modes = {1}],
     [Uhs EXCEPT !.v2 = FALSE, !.ccs = FALSE, !.s18 = FALSE, !.wide = FALSE,
                 !.sda_vsn = 0, !.modes = {}]}
MCModes == {<<1, "HS25">>, <<4, "HS25">>, <<4, "SDR82">>, <<4, "SDR104">>}
=============================================================================
