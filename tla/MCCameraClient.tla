--------------------------- MODULE MCCameraClient ---------------------------
(***************************************************************************)
(* A camera with images of several sizes, with 4 bit row numbers: images   *)
(* that fit, images whose row counter wraps around (13 and 15 rows), an    *)
(* image with more rows than the counter can name (17), and rows too wide  *)
(* for a block (8).                                                        *)
(***************************************************************************)
EXTENDS CameraClient

FrameTimes == {3, 5, 17}
==============================================================================
