---------------------------- MODULE MCFpgaConfig ----------------------------
(* FpgaConfig with two images of one length and a longer file that is no    *)
(* bitstream; sectors of two bytes, shift commands of two bytes, an IDCODE  *)
(* of four bits.                                                            *)
EXTENDS FpgaConfig

MCIdCode == <<1, 0, 1, 1>>
MCImages == {"a", "b"}
MCFileBytes == [f \in {"a", "b", "junk"} |->
                  CASE f = "a" -> <<165, 3, 90>> [] f = "b" -> <<6, 255, 192>>
                    [] OTHER -> <<17, 34, 68, 136, 1>>]
=============================================================================
