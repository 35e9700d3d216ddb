------------------------------- MODULE HttpApiEx -------------------------------
(***************************************************************************)
(* The resilient HTTP client (httpapiex.c).  A request climbs three levels: *)
(* initialize the library, create a connection, execute the request.  The  *)
(* handle stays on the level it reached.  A level that fails, or that has  *)
(* been tried since the one below it was, is left for the level below,     *)
(* which closes what that one had opened.                                  *)
(*                                                                         *)
(* Here a request may succeed or fail and the three calls below it are     *)
(* steps; HttpApi says what HTTPAPI_ExecuteRequest and CloseConnection do. *)
(***************************************************************************)
EXTENDS Integers

VARIABLES
  step,  (* what the thread is doing                                         *)
  k,     (* the level of the handle, -1 for none                             *)
  st,    (* the levels already tried                                         *)
  lib,   (* HTTPAPI_Init without its HTTPAPI_Deinit                          *)
  conn,  (* httpHandle: a connection exists                                  *)
  runs   (* history: how often the request was executed                      *)

exVars == <<step, k, st, lib, conn, runs>>

ExTypeOK ==
  /\ step \in {"idle", "try", "execute", "close", "destroy", "destroyed"}
  /\ k \in -1 .. 2 /\ st \subseteq 0 .. 2
  /\ lib \in Nat /\ conn \in BOOLEAN /\ runs \in Nat

(* HTTPAPIEX_Create                                                         *)
ExInit ==
  /\ step = "idle" /\ k = -1 /\ st = {} /\ lib = 0 /\ conn = FALSE /\ runs = 0

-------------------------------------------------------------------------------
(* HTTPAPIEX_ExecuteRequest.  When the temporaries cannot be built nothing  *)
(* changes.                                                                 *)
Begin ==
  /\ step = "idle"
  /\ k' = IF k = -1 THEN 0 ELSE k
  /\ st' = {} /\ runs' = 0 /\ step' = "try"
  /\ UNCHANGED <<lib, conn>>

Trying(level) == step = "try" /\ k = level /\ level \notin st

(* The level worked: it is marked, and the next one is to be tried.         *)
Climb == st' = (st \cup {k}) \ {k + 1} /\ k' = k + 1

(* The level failed or was tried before: its mark goes, and the handle      *)
(* takes back what the level below had set up.  Below the first level the   *)
(* request has failed.                                                      *)
FallBack ==
  /\ st' = st \ {k} /\ k' = k - 1
  /\ lib' = IF k' = 0 THEN lib - 1 ELSE lib
  /\ step' = IF k' = 1 THEN "close" ELSE IF k' < 0 THEN "idle" ELSE "try"

(* HTTPAPI_Init.  That of httpapi_compact always succeeds, others may fail.  *)
InitLibrary ==
  /\ Trying(0)
  /\ \/ Climb /\ lib' = lib + 1 /\ UNCHANGED step
     \/ FallBack
  /\ UNCHANGED <<conn, runs>>

(* HTTPAPI_CreateConnection, and the saved options (a failure is ignored).  *)
CreateConnection ==
  /\ Trying(1)
  /\ \/ Climb /\ conn' = TRUE /\ UNCHANGED <<step, lib>>
     \/ FallBack /\ conn' = FALSE
  /\ UNCHANGED runs

TriedBefore ==
  /\ step = "try" /\ k \in st
  /\ FallBack
  /\ UNCHANGED <<conn, runs>>

(* HTTPAPI_ExecuteRequest is called, and returns.                           *)
Execute ==
  /\ Trying(2)
  /\ step' = "execute" /\ runs' = runs + 1
  /\ UNCHANGED <<k, st, lib, conn>>

Succeed ==
  /\ step = "execute" /\ step' = "idle"
  /\ UNCHANGED <<k, st, lib, conn, runs>>

Fail ==
  /\ step = "execute"
  /\ FallBack
  /\ UNCHANGED <<conn, runs>>

(* HTTPAPIEX_Destroy: closes only from the third level.                     *)
Destroy ==
  /\ step = "idle"
  /\ step' = IF k = 2 THEN "destroy" ELSE "destroyed"
  /\ UNCHANGED <<k, st, lib, conn, runs>>

(* HTTPAPI_CloseConnection has returned.                                    *)
(* Mutant: the destroyed handle leaves the library initialized.             *)
Closed_KeepsLibrary ==
  /\ step \in {"close", "destroy"}
  /\ conn' = FALSE
  /\ step' = IF step = "close" THEN "try" ELSE "destroyed"
  /\ UNCHANGED <<k, st, runs, lib>>

Closed ==
  /\ step \in {"close", "destroy"}
  /\ conn' = FALSE
  /\ \/ step = "close" /\ step' = "try" /\ UNCHANGED lib
     \/ step = "destroy" /\ step' = "destroyed" /\ lib' = lib - 1
  /\ UNCHANGED <<k, st, runs>>

ExNext ==
  \/ Begin \/ InitLibrary \/ CreateConnection \/ TriedBefore
  \/ Execute \/ Succeed \/ Fail \/ Closed \/ Destroy

ExSpec == ExInit /\ [][ExNext]_exVars

-------------------------------------------------------------------------------
(* Every HTTPAPI_Init has its HTTPAPI_Deinit and every connection is closed, *)
(* whichever step fails on whichever attempt: what is open is exactly what  *)
(* the level of the handle says, between two requests the handle is at the  *)
(* top or has nothing, and a destroyed handle leaves nothing behind.        *)
Balanced ==
  /\ step \in {"idle", "try", "execute"} =>
       lib = (IF k >= 1 THEN 1 ELSE 0) /\ (conn <=> k = 2)
  /\ step \in {"close", "destroy"} => lib = 1
  /\ step = "idle" => k \in {-1, 2}
  /\ step = "destroyed" => lib = 0 /\ ~conn

(* SRS_HTTPAPIEX_02_026 (httpapiex_requirements.md:108, repeated at          *)
(* httpapiex.c:345): "A step shall be retried at most once", so a request is *)
(* executed twice at most.  The code breaks it: a level that is left loses  *)
(* its mark and is climbed anew, so that a handle that starts on the third  *)
(* level executes a request, retries it on a new connection, and retries it *)
(* again after a new HTTPAPI_Init.                                          *)
RetriedOnce == runs <= 2

(* What holds instead: the marks below (httpapiex.c:348) end the retries    *)
(* after the third execution.                                               *)
AttemptsBounded == runs <= 3

================================================================================
