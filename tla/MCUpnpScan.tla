----------------------------- MODULE MCUpnpScan -----------------------------
(* Instances of UpnpScan for TLC.                                          *)
EXTENDS UpnpScan

CONSTANTS l1, l2, other

TwoLocations == {l1, l2}
OneOther == {other}
=============================================================================
