---------------------------- MODULE MCUploadPath ----------------------------
(* UploadPath for TLC.  The recordings: one with the signature that ogg    *)
(* and opus share, of which only ogg is allowed, and one that is no audio. *)
EXTENDS UploadPath

Recordings == {{"OggS"}, {}}

AllowedFormats == {"wav", "ogg"}
=============================================================================
