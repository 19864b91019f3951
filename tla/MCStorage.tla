----------------------------- MODULE MCStorage ------------------------------
(* An instance of Storage for TLC: the inboxes of the default              *)
(* configuration, one more internal directory, and files a user may write. *)
EXTENDS Storage, TLC

CONSTANTS inbox, games, usbInbox, usbRoot, dev, u1, u2

MCTargets == << [id |-> "internal", path |-> games], [id |-> "usb", path |-> usbInbox] >>

Symmetry == Permutations(Ids)

(* The documented form with another destination than the targets have, the *)
(* older form with a destination on the drive, one the parser refuses.     *)
MCHandFiles == { [Empty EXCEPT !.storage_path = MCTargets, !.destination = inbox,
                               !.rest = "custom"],
                 [Empty EXCEPT !.destination = usbInbox, !.port = 54321],
                 [Empty EXCEPT !.destination = dev] }
=============================================================================
