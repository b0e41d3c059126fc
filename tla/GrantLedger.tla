----------------------------- MODULE GrantLedger -----------------------------
(***************************************************************************)
(* What the scripted driver promises a test about its grants               *)
(* (testing/driver.rs, Confirmed and AcceptanceLedger): grants are settled *)
(* one at a time; each lets at most one send of the run it names into the  *)
(* ledger; the fate reported of it says whether it did, once and for all.  *)
(***************************************************************************)
EXTENDS Integers, Sequences

CONSTANT Run   \* the runs a grant may name

VARIABLES
  armed,   \* the run that each grant named
  ledger,  \* the sends that got in, each with its grant
  fate     \* what was reported of each grant

ledgerVars == <<armed, ledger, fate>>

LedgerInit ==
  /\ armed = <<>>
  /\ ledger = <<>>
  /\ fate = <<>>

(* The last grant, while nothing is reported of it.                        *)
Open == Len(fate) < Len(armed)

Admitted == \E i \in DOMAIN ledger : ledger[i].grant = Len(armed)

Arm(r) ==
  /\ ~Open
  /\ armed' = Append(armed, r)
  /\ UNCHANGED <<ledger, fate>>

Admit ==
  /\ Open
  /\ ~Admitted
  /\ ledger' = Append(ledger, [origin |-> armed[Len(armed)], grant |-> Len(armed)])
  /\ UNCHANGED <<armed, fate>>

Report ==
  /\ Open
  /\ fate' = Append(fate, IF Admitted THEN "Accepted" ELSE "Reclaimed")
  /\ UNCHANGED <<armed, ledger>>

LedgerNext == (\E r \in Run : Arm(r)) \/ Admit \/ Report

LedgerSpec == LedgerInit /\ [][LedgerNext]_ledgerVars
=============================================================================
