-------------------------------- MODULE MCDip --------------------------------
(***************************************************************************)
(* Dip for TLC: one device, one disc and one fragment list are enough for  *)
(* every order of opening, failing, closing and reopening the two sources; *)
(* the reads stand at the start of the disc and past its first layer.      *)
(***************************************************************************)

EXTENDS Dip

MCDevice == {1}
MCFragSize == {7, 9}
MCOffset == {0}
MCLoaderBit == {"CRYPT", "COVER_OVERRIDE"}
MCReadOffset == {0, Dvd5Length, Dvd9Length}

=============================================================================
