---------------------------- MODULE CoalescedWork ----------------------------
(***************************************************************************)
(* What a durable row that coalesces requests promises to whoever makes    *)
(* them: a request is never dropped, whatever the row was doing when it    *)
(* came; the work counts as settled only once the result is at least as    *)
(* new as the last request, and stays so until the next one; and when it   *)
(* is given up, that is said.  Attempts, leases, retries and the processes *)
(* behind them do not show.  GroupProjection implements this               *)
(* specification with its targeted intents.                                *)
(***************************************************************************)
EXTENDS Naturals

CONSTANT MaxVersion

VARIABLES
  asked, \* the version that the last request wants to see reflected
  done,  \* the version the result reflects, 0 for none
  state

coalescedVars == <<asked, done, state>>

Init ==
  /\ asked = 1
  /\ done \in 0 .. MaxVersion
  /\ state = "none"

Request ==
  /\ asked' \in asked .. MaxVersion
  /\ state' = "due"
  /\ UNCHANGED done

\* A result is stored, for these requests or for some other reason.
Reflect ==
  /\ done' \in 1 .. MaxVersion
  /\ state = "settled" => done' >= asked
  /\ UNCHANGED <<asked, state>>

Settle ==
  /\ state = "due" /\ done >= asked
  /\ state' = "settled"
  /\ UNCHANGED <<asked, done>>

GiveUp ==
  /\ state = "due"
  /\ state' = "given up"
  /\ UNCHANGED <<asked, done>>

Next == Request \/ Reflect \/ Settle \/ GiveUp

Spec == Init /\ [][Next]_coalescedVars
=============================================================================
