----------------------------- MODULE MCUploads -----------------------------
(***************************************************************************)
(* Constants for model-checking Uploads.                                   *)
(***************************************************************************)
EXTENDS Uploads, TLC

UploadOps == {"create", "get", "put", "delete"}
CleanupOps == {"create", "put"}
FileOps   == {"create", "form", "put", "download"}
AllOps    == UploadOps \cup FileOps
=============================================================================
