---- MODULE MCHoldRegistry ----
(* Two features share the quarantine; one of them gets the content twice. *)
EXTENDS HoldRegistry, TLC
CONSTANTS u1, u2, u3, images, files

MCUploads == {u1, u2, u3}
MCOwners == {images, files}
MCOwnerOf == (u1 :> images) @@ (u2 :> images) @@ (u3 :> files)
====
