-------------------------- MODULE MCStorageService --------------------------
(* Model values for checking StorageService with TLC. *)
EXTENDS StorageService

CONSTANTS f1, f2, x, y

MCFrontends == {f1, f2}
MCNames == {x, y}
AllOps == {"upload", "mkdir", "delete", "rename", "move"}
UploadDelete == {"upload", "delete"}
====
