-------------------------- MODULE MCFileTransfer --------------------------
(* An upload and a download of one path over one stream. *)
EXTENDS FileTransfer
CONSTANTS u1, d1
MCUploads == {u1}
MCDownloads == {d1}
MCIds == 1..2
=============================================================================
