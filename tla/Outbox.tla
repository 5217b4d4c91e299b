------------------------------- MODULE Outbox -------------------------------
(***************************************************************************)
(* What sending promises, without ids, tables or tasks: every message the  *)
(* user composes is submitted once, Telegram accepts it at most once and   *)
(* under one id, its delivery has one outcome which is final, and what the *)
(* chat shows of it follows: pending from the submission, then failed, or  *)
(* sent, and sent only when Telegram has accepted it.  A message the user  *)
(* sees failed may have been accepted, as its reply can be lost; nothing   *)
(* is sent a second time on its own.  SendPath implements it.              *)
(***************************************************************************)
EXTENDS Integers

CONSTANTS
    Messages,   \* what the user composes
    ServerIds   \* ids Telegram gives

VARIABLES
    outcome,    \* of the delivery of each message
    acceptedAs, \* the id Telegram gave it, 0 if none
    shown       \* the states it is shown in: sent may join pending

vars == <<outcome, acceptedAs, shown>>

Init ==
    /\ outcome = [m \in Messages |-> "new"]
    /\ acceptedAs = [m \in Messages |-> 0]
    /\ shown = [m \in Messages |-> {}]

Ends(m, how) == outcome[m] = "sending" /\ outcome' = [outcome EXCEPT ![m] = how]

(* A restart forgets which local ids are taken, so a submission may take   *)
(* the place of a message that is shown pending or failed.                 *)
Submit(m) ==
    /\ outcome[m] = "new"
    /\ outcome' = [outcome EXCEPT ![m] = "sending"]
    /\ \E displaced \in SUBSET (Messages \ {m}) :
        /\ \A n \in displaced : outcome[n] \notin {"new", "sending"}
        /\ shown' = [n \in Messages |->
                        IF n = m THEN {"pending"}
                        ELSE IF n \in displaced THEN shown[n] \cap {"sent"} ELSE shown[n]]
    /\ UNCHANGED acceptedAs

Accept(m) ==
    /\ outcome[m] = "sending"
    /\ acceptedAs[m] = 0
    /\ \E s \in ServerIds :
        /\ \A n \in Messages : acceptedAs[n] < s
        /\ acceptedAs' = [acceptedAs EXCEPT ![m] = s]
    /\ UNCHANGED <<outcome, shown>>

(* The pending message becomes the sent one.                               *)
Rekey(m) ==
    /\ outcome[m] = "sending"
    /\ acceptedAs[m] # 0
    /\ "pending" \in shown[m]
    /\ shown' = [shown EXCEPT ![m] = {"sent"}]
    /\ UNCHANGED <<outcome, acceptedAs>>

Acknowledge(m) ==
    /\ acceptedAs[m] # 0
    /\ Ends(m, "sent")
    /\ UNCHANGED <<acceptedAs, shown>>

Fail(m) ==
    /\ Ends(m, "failed")
    /\ shown' = [shown EXCEPT ![m] =
                    IF "pending" \in @ THEN (@ \ {"pending"}) \cup {"failed"} ELSE @]
    /\ UNCHANGED acceptedAs

(* The server's own copy arrives with an update or a page of history.      *)
Copy(m) ==
    /\ acceptedAs[m] # 0
    /\ shown' = [shown EXCEPT ![m] = @ \cup {"sent"}]
    /\ UNCHANGED <<outcome, acceptedAs>>

(* The user deletes it, or Telegram does.                                  *)
Forget(m) ==
    /\ \E state \in shown[m] : shown' = [shown EXCEPT ![m] = @ \ {state}]
    /\ UNCHANGED <<outcome, acceptedAs>>

(* The process stops; deliveries under way are not taken up again.         *)
Stop ==
    /\ outcome' = [m \in Messages |-> IF outcome[m] = "sending" THEN "stopped" ELSE outcome[m]]
    /\ UNCHANGED <<acceptedAs, shown>>

Next ==
    \/ \E m \in Messages :
        \/ Submit(m) \/ Accept(m) \/ Rekey(m) \/ Acknowledge(m) \/ Fail(m)
        \/ Copy(m) \/ Forget(m)
    \/ Stop

Spec == Init /\ [][Next]_vars
=============================================================================
