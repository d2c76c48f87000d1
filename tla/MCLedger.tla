------------------------------ MODULE MCLedger ------------------------------
(***************************************************************************)
(* The two ways into the ledger checked in one run: what conversations     *)
(* post after approval (Interrupts) and what sources report (Ledger).      *)
(* They share no row, so a behaviour follows one of them and leaves the    *)
(* other at its initial state.                                             *)
(***************************************************************************)
EXTENDS Interrupts, Ledger, TLC

VARIABLE side   \* which of the two this behaviour follows

ledgerSideVars == <<side, interruptVars, ledgerVars>>

LedgerSideInit == side \in {"interrupts", "ledger"} /\ InterruptInit /\ LedgerInit

LedgerSideNext ==
    /\ UNCHANGED side
    /\ \/ side = "interrupts" /\ InterruptNext /\ UNCHANGED ledgerVars
       \/ side = "ledger" /\ LedgerNext /\ UNCHANGED interruptVars

LedgerSideSpec == LedgerSideInit /\ [][LedgerSideNext]_ledgerSideVars

(* Sessions differ in nothing but their name. *)
Alike == Permutations(Sessions)

(* Both components keep the shapes their rows declare. *)
LedgerSideTypeOK == InterruptTypeOK /\ LedgerTypeOK
=============================================================================
