----------------------------- MODULE MCSdVolume -----------------------------
(* SdVolume on a card of eight clusters, with two long names that collide   *)
(* in their short form.                                                     *)
EXTENDS SdVolume

MCCfg == <<"cfg">>
MCImg == <<"img">>
MCHost == <<"hst">>
MCFiles == {<<"img">>, <<"long one">>, <<"d", "long two">>}
MCDirs == {<<"d">>}
MCSfn == [n \in {"cfg", "img", "hst", "d", "long one", "long two"} |->
            [base |-> IF n \in {"long one", "long two"} THEN "long" ELSE n, n |-> 0]]
MCLossy == {"long one", "long two"}
MCLfnEnts == [n \in DOMAIN MCSfn |-> IF n \in MCLossy THEN 1 ELSE 0]
=============================================================================
