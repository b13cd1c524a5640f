----------------------------- MODULE MCUsbDevices -----------------------------
(* Instances of UsbDevices for TLC. *)
EXTENDS UsbDevices, TLC

drive(u, isMounted) == [uuid |-> u, name |-> u, mounted |-> isMounted]
device(n, ds) == [num |-> n, drives |-> ds]

\* A stick with one partition and a disk with two; the disk is unplugged, the
\* stick is ejected, and the stick comes back under the disk's number.
Both     == "stick" :> device(1, <<drive("a", TRUE)>>)
         @@ "disk" :> device(2, <<drive("b", TRUE), drive("c", FALSE)>>)
OnlyDisk == "disk" :> device(2, <<drive("b", FALSE), drive("c", TRUE)>>)
Ejected  == "stick" :> device(1, <<drive("a", FALSE)>>)
         @@ "disk" :> device(3, <<>>)
Again    == "stick" :> device(2, <<drive("a", TRUE)>>)

MCLists == {Both, OnlyDisk, Ejected, Again}

id(s, u) == [serial |-> s, uuid |-> u]
MCDriveIds == {id("stick", NoUuid), id("stick", "a"), id("stick", "c"),
               id("disk", NoUuid), id("disk", "b"), id("disk", "c"),
               id("gone", NoUuid)}
=============================================================================
