------------------------------ MODULE PatAccess ------------------------------
(***************************************************************************)
(* What revoking a token promises its owner, with no cache, no ledger row  *)
(* and no handlers: a token is issued, later it is being withdrawn, and    *)
(* once it is withdrawn no call that begins afterwards is let in.          *)
(*                                                                         *)
(* A token that is withdrawn closes in its own time, as its last copies    *)
(* go; closed is final.                                                    *)
(***************************************************************************)
CONSTANTS Tokens, Requests, NoTok

VARIABLES
  access, \* "none", "open", "closing" (withdrawn, not everywhere) or "closed"
  call    \* the calls in progress

vars == <<access, call>>

Unused == [tok |-> NoTok, permitted |-> FALSE, answer |-> "none"]

Init ==
  /\ access = [t \in Tokens |-> "none"]
  /\ call   = [r \in Requests |-> Unused]

Open(t) == access[t] \in {"open", "closing"}

\* The tokens in T become open.
Grant(T) ==
  /\ \A t \in T : access[t] = "none"
  /\ access' = [t \in Tokens |-> IF t \in T THEN "open" ELSE access[t]]
  /\ UNCHANGED call

\* Tokens in T leave "open": withdrawn at once, or with copies to remove.
Withdraw(T, to) ==
  /\ \A t \in T : access[t] = "open" /\ to[t] \in {"closing", "closed"}
  /\ access' = [t \in Tokens |-> IF t \in T THEN to[t] ELSE access[t]]
  /\ UNCHANGED call

Close(T) ==
  /\ \A t \in T : access[t] = "closing"
  /\ access' = [t \in Tokens |-> IF t \in T THEN "closed" ELSE access[t]]
  /\ UNCHANGED call

\* A call that begins on a token not yet closed may be let in.
Begin(r, t) ==
  /\ call[r] = Unused
  /\ access[t] # "none"
  /\ call' = [call EXCEPT ![r] = [tok |-> t, permitted |-> Open(t),
                                  answer |-> "none"]]
  /\ UNCHANGED access

Answer(r, a) ==
  /\ call[r].tok \in Tokens /\ call[r].answer = "none"
  /\ a = "accepted" => call[r].permitted
  /\ call' = [call EXCEPT ![r].answer = a]
  /\ UNCHANGED access

Finish(r) ==
  /\ call[r].answer # "none"
  /\ call' = [call EXCEPT ![r] = Unused]
  /\ UNCHANGED access

Answers == {"accepted", "refused"}

Next ==
  \/ \E T \in SUBSET Tokens :
       \/ Grant(T)
       \/ Close(T)
       \/ \E to \in [T -> {"closing", "closed"}] : Withdraw(T, to)
  \/ \E r \in Requests :
       \/ \E t \in Tokens : Begin(r, t)
       \/ \E a \in Answers : Answer(r, a)
       \/ Finish(r)

Spec == Init /\ [][Next]_vars
=============================================================================
