--------------------------- MODULE MCMetadataAge ---------------------------
(* Inputs for MetadataAge: refresh intervals around the int overflow point *)
(* (715828 ms x 3000 > 2^31 - 1) and clock gaps from 0 to about 36 min.   *)
EXTENDS MetadataAge

MCIntervals == {-1, 0, 1000, 300000, 715827, 715828, 900000, 3600000}
MCDeltas == {0, 1, 1000000, 2147483000, 2147483647}
=============================================================================
