------------------------ MODULE PrintSessionStatus ------------------------
(***************************************************************************)
(* The twelve states of a print session and the transitions between them. *)
(* packages/protocol/src/status.ts defines them for the server and the    *)
(* phone; the kiosk keeps a copy in Core/Sessions.                         *)
(***************************************************************************)

(* PRINT_SESSION_STATUSES *)
Statuses ==
    {"waiting", "claimed", "upload_authorized", "uploading", "uploaded",
     "consumed", "validating", "printing",
     "completed", "failed", "expired", "cancelled"}

(* TERMINAL_SESSION_STATUSES *)
Terminal == {"completed", "failed", "expired", "cancelled"}

(* PROCESSING_STATUSES of the stores: the kiosk holds the document and a  *)
(* lease keeps the record alive past its deadline.                        *)
Processing == {"consumed", "validating", "printing"}

(* TRANSITIONS *)
Successors(from) ==
    CASE from = "waiting" -> {"claimed", "expired", "cancelled"}
      [] from = "claimed" ->
             {"upload_authorized", "expired", "cancelled", "failed"}
      [] from = "upload_authorized" ->
             {"uploading", "expired", "cancelled", "failed"}
      [] from = "uploading" -> {"uploaded", "expired", "cancelled", "failed"}
      [] from = "uploaded" -> {"consumed", "expired", "cancelled", "failed"}
      [] from = "consumed" -> {"validating", "failed", "expired"}
      [] from = "validating" -> {"printing", "failed"}
      [] from = "printing" -> {"completed", "failed"}
      [] OTHER -> {}

(* canTransition *)
CanTransition(from, to) == to \in Successors(from)
============================================================================
