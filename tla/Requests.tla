------------------------------ MODULE Requests ------------------------------
(***************************************************************************)
(* Requests to the control plane's API.  Each runs in a goroutine of its   *)
(* own and makes one call to the database (or to the file storage) at a    *)
(* time; requests interleave between any two calls, and a request whose    *)
(* client or server goes away makes no further call.  The modules that     *)
(* extend this one add the tables and the handlers.                        *)
(***************************************************************************)
EXTENDS Naturals, FiniteSets

CONSTANTS
  Calls,        \* the requests
  Workspaces,
  Caller        \* Caller[q]: the workspace that request q is authorised for

ASSUME RequestsAssumption == Caller \in [Calls -> Workspaces]

VARIABLE
  at            \* at[q]: where request q stands, or how it has ended

(* Every request stands somewhere (the steps are those of the handlers).   *)
RequestsTypeOK == at = [q \in Calls |-> at[q]]

Ended == {"ok", "refused", "failed"}   \* 200; 400, 404, 409; 500

Fresh(q) == at[q] = "new"

Goto(q, step) == at' = [at EXCEPT ![q] = step]

RequestsInit == at = [q \in Calls |-> "new"]
=============================================================================
