---------------------------- MODULE SocketStatus -----------------------------
(* The status of a connection and the transition tables of the services.     *)
(* Each service has its own *_transfer_status function, a switch over        *)
(* (status, new_status); here each is the set of new statuses it accepts.    *)
(* A refused transition logs a warning and changes nothing.                  *)

Statuses == {"INIT", "GET_HOST", "CONNECTING", "WORK", "DATA_FINISH", "ERROR"}

(* gps_service_transfer_status *)
GpsMay ==
    [INIT        |-> {"INIT", "GET_HOST", "CONNECTING", "DATA_FINISH", "ERROR"},
     GET_HOST    |-> {"INIT", "CONNECTING", "DATA_FINISH", "ERROR"},
     CONNECTING  |-> {"INIT", "GET_HOST", "WORK", "DATA_FINISH", "ERROR"},
     WORK        |-> {"INIT", "GET_HOST", "DATA_FINISH", "ERROR"},
     DATA_FINISH |-> {"INIT", "GET_HOST", "ERROR"},
     ERROR       |-> {"INIT", "ERROR"}]

(* config_service_transfer_status *)
ConfigMay == [GpsMay EXCEPT !["ERROR"] = {"ERROR"}]

(* update_service_transfer_status: no way back to INIT but from the end.     *)
UpdateMay ==
    [INIT        |-> {"GET_HOST", "CONNECTING", "DATA_FINISH", "ERROR"},
     GET_HOST    |-> {"CONNECTING", "DATA_FINISH", "ERROR"},
     CONNECTING  |-> {"GET_HOST", "WORK", "DATA_FINISH", "ERROR"},
     WORK        |-> {"GET_HOST", "DATA_FINISH", "ERROR"},
     DATA_FINISH |-> {"INIT", "GET_HOST", "ERROR"},
     ERROR       |-> {"INIT", "GET_HOST", "ERROR"}]

(* log_service_transfer_status *)
LogMay == [UpdateMay EXCEPT !["ERROR"] = {"INIT", "ERROR"}]

May(s) == CASE s = "MAIN"   -> GpsMay
            [] s = "CONFIG" -> ConfigMay
            [] s = "UPDATE" -> UpdateMay
            [] s = "LOG"    -> LogMay

(* r: the socket of service s.  An accepted transition forgets the failures. *)
Transfer(s, r, new) ==
    IF new \in May(s)[r.status] THEN [r EXCEPT !.status = new, !.fail = 0] ELSE r

==============================================================================
