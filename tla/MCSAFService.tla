---------------------------- MODULE MCSAFService ----------------------------
(* Instances of SAFService for TLC. *)
EXTENDS SAFService, TLC

CONSTANTS c1, c2

TwoCalls == {c1, c2}

plain(m, s)   == [method |-> m, storage |-> s, dest |-> "none",
                  upnp |-> FALSE, path |-> TRUE, fault |-> "none"]
across(m, s, d) == [plain(m, s) EXCEPT !.dest = d]

ListAll == plain("LIST_STORAGES", "other")

\* Every method, every provider, every refusal, the rerouted copies, the
\* doubly answered ones and the two-step PDM exchanges.
AllRequests ==
  {plain("REMOVE", "internal"), plain("EXTRA", "internal"),
   plain("LIST", "usb"), plain("EJECT", "usb"), plain("RENAME", "cloud"),
   plain("LIST", "other"), ListAll,
   [plain("LIST", "network") EXCEPT !.upnp = TRUE],
   [plain("EXTRA", "network") EXCEPT !.upnp = TRUE],
   [plain("GET_PROP", "usb") EXCEPT !.path = FALSE],
   [plain("RENAME", "internal") EXCEPT !.fault = "param"],
   [ListAll EXCEPT !.fault = "schema"],
   across("COPY", "usb", "cloud"), across("MOVE", "internal", "usb"),
   [across("MOVE", "internal", "network") EXCEPT !.upnp = TRUE],
   [across("COPY", "cloud", "network") EXCEPT !.upnp = TRUE],
   [across("COPY", "network", "network") EXCEPT !.upnp = TRUE]}
=============================================================================
