------------------------------- MODULE RunLedger -------------------------------
(* What the control plane promises to the people who use it, with no worker,  *)
(* no queue and no requests: a benchmark run is accepted, one run at a time   *)
(* is carried out, each is carried out at most once and ends at most once,    *)
(* only the run in progress can raise the score of its submission, and        *)
(* nothing but withdrawing the submission lowers it.                          *)
EXTENDS Integers

CONSTANTS Sub, Run, NoSub, MaxScore

VARIABLES
  ledger,   \* where each run stands
  owner,    \* the submission a run was accepted for
  best      \* the score on the leaderboard, or -1

ledgerVars == <<ledger, owner, best>>

Init ==
  /\ ledger = [r \in Run |-> "absent"]
  /\ owner = [r \in Run |-> NoSub]
  /\ best = [s \in Sub |-> -1]

Accept(r, s) ==
  /\ ledger[r] = "absent"
  /\ ledger' = [ledger EXCEPT ![r] = "queued"]
  /\ owner' = [owner EXCEPT ![r] = s]
  /\ UNCHANGED best

Begin(r) ==
  /\ ledger[r] = "queued"
  /\ \A q \in Run : ledger[q] # "running"
  /\ ledger' = [ledger EXCEPT ![r] = "running"]
  /\ UNCHANGED <<owner, best>>

Rank(r, v) ==
  /\ ledger[r] = "running"
  /\ v > best[owner[r]]
  /\ best' = [best EXCEPT ![owner[r]] = v]
  /\ UNCHANGED <<ledger, owner>>

End(r) ==
  /\ ledger[r] = "running"
  /\ \E outcome \in {"completed", "failed"} : ledger' = [ledger EXCEPT ![r] = outcome]
  /\ UNCHANGED <<owner, best>>

Withdraw(s) ==
  /\ ledger' = [r \in Run |-> IF owner[r] = s THEN "deleted" ELSE ledger[r]]
  /\ best' = [best EXCEPT ![s] = -1]
  /\ UNCHANGED owner

Next ==
  \/ \E r \in Run :
       \/ \E s \in Sub : Accept(r, s)
       \/ Begin(r)
       \/ \E v \in 0 .. MaxScore : Rank(r, v)
       \/ End(r)
  \/ \E s \in Sub : Withdraw(s)

Spec == Init /\ [][Next]_ledgerVars

\* With nothing but contestants' engines, the disk and Docker misbehaving,
\* every accepted run is begun, however often another one is begun before it,
\* and every run begun ends.
FairSpec ==
  /\ Spec
  /\ \A r \in Run : SF_ledgerVars(Begin(r)) /\ WF_ledgerVars(End(r))

=============================================================================
