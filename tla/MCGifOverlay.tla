---------------------------- MODULE MCGifOverlay ----------------------------
(* Model values for the GIF overlay: two connection ids.                  *)
EXTENDS GifOverlay

MCConnIds == {1, 2}

=============================================================================
