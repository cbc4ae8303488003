--------------------------- MODULE MCGarenneAudio ---------------------------
(* GarenneAudio on small instances.                                        *)
EXTENDS GarenneAudio

MCBodyLen == <<1, 5>>
MCBodyLenShort == <<1, 1>>
=============================================================================
