----------------------------- MODULE HomewizardP1 -----------------------------
(***************************************************************************)
(* get_data() and get_status() of the HomeWizard P1 driver                 *)
(* (grid/homewizard_p1.py).                                                *)
(*                                                                         *)
(* The answer of the dongle is a JSON object, whose members are abstracted *)
(* to the kind of their value (or "absent"), or another JSON value.  An    *)
(* unreachable dongle, an HTTP error and a body that is no JSON are all    *)
(* RequestException.                                                       *)
(***************************************************************************)
EXTENDS HomewizardMapping

CONSTANT Bodies   \* the JSON objects the dongle may send: RawFields -> RawKinds

VARIABLES
    last_error,    \* self._last_error is not None
    last_success,  \* self._last_success is not None
    body,          \* external: the JSON object last received, or Empty
    outcome,       \* how the last get_data() ended: "data", "None", "raised"
    data           \* the reading it returned, or Empty

vars == <<last_error, last_success, body, outcome, data>>

Empty == << >>

Init ==
    /\ last_error = FALSE
    /\ last_success = FALSE
    /\ body = Empty
    /\ outcome = "not called"
    /\ data = Empty

-----------------------------------------------------------------------------
(* The fields get_status() reads are set before the mapping.                 *)
Answered(b) == body' = b /\ last_error' = FALSE /\ last_success' = TRUE

GetData ==
    \E raw \in Bodies :
        /\ Adds(raw)
        /\ Answered(raw)
        /\ outcome' = "data"
        /\ data' = MapToContract(raw)

(* TypeError of an addition, AttributeError of a body without get().         *)
GetDataRaises ==
    /\ Answered(Empty) \/ \E raw \in Bodies : ~Adds(raw) /\ Answered(raw)
    /\ outcome' = "raised"
    /\ data' = Empty

Failed == body' = Empty /\ outcome' = "None" /\ data' = Empty

(* Mutation of GetDataFails: the error is only logged.                       *)
GetDataFailsLogged == Failed /\ UNCHANGED <<last_error, last_success>>

(* RequestException                                                          *)
GetDataFails == Failed /\ last_error' = TRUE /\ UNCHANGED last_success

Next == GetData \/ GetDataRaises \/ GetDataFails

Status == IF last_error THEN "error"
          ELSE IF ~last_success THEN "disabled" ELSE "connected"

-----------------------------------------------------------------------------
(* Once a read has returned, the status shown is "connected" exactly if it   *)
(* returned data, whatever the reads before it did.                          *)
StatusTellsRead ==
    outcome \in {"data", "None"} => (Status = "connected" <=> outcome = "data")
=============================================================================
