--------------------------- MODULE RequestService ---------------------------
(***************************************************************************)
(* What the orchestrator promises its clients, without saying how: a       *)
(* request that was submitted is handed to the stages of the pipeline one  *)
(* after the other, none of them skipped or entered twice, and it gets one *)
(* outcome that never changes: a result, but only once its last stage was  *)
(* reached, an empty result when a stage has nothing to pass on, an error, *)
(* or the acknowledgement of an abort.                                     *)
(*                                                                         *)
(* The outcome is the first terminal message the client sees.  A request   *)
(* may still be handed on after that: the code does so when the message    *)
(* overtakes a submission in progress, see TerminalIsMonotonic in module   *)
(* Orchestrator.                                                           *)
(***************************************************************************)
EXTENDS Integers

CONSTANTS Requests, LastStage   \* LastStage is a natural number

VARIABLES outcome, reached

serviceVars == <<outcome, reached>>

Waiting(r) == outcome[r] = "waiting"

ServiceInit == /\ outcome = [r \in Requests |-> "idle"]
               /\ reached = [r \in Requests |-> -1]

\* One step may settle several requests: a replica that dies fails all of its
\* own.  Per request it is one of these, or nothing.
Submits(r) == outcome[r] = "idle" /\ outcome'[r] = "waiting"
Settles(r) == /\ Waiting(r)
              /\ \/ outcome'[r] \in {"error", "aborted", "empty"}
                 \/ outcome'[r] = "ok" /\ reached[r] = LastStage
Enters(r) == /\ outcome[r] # "idle" /\ reached[r] < LastStage
             /\ reached'[r] = reached[r] + 1

ServiceNext ==
    \A r \in Requests :
        /\ outcome'[r] = outcome[r] \/ Submits(r) \/ Settles(r)
        /\ reached'[r] = reached[r] \/ Enters(r)

\* Every submitted request is answered.
Answers == \A r \in Requests : Waiting(r) ~> ~Waiting(r)

ServiceSafe == ServiceInit /\ [][ServiceNext]_serviceVars
Service == ServiceSafe /\ Answers
=============================================================================
