--------------------------- MODULE MCSessionRows --------------------------
(* Small instances of SessionRows. *)
EXTENDS SessionRows

QrTtl == <<1, 1>>

(* A visitor's session (600 s) outlives a QR code (120 s) and its row's    *)
(* retention (300 s).                                                      *)
VisitorTtl == <<3, 1>>
============================================================================
