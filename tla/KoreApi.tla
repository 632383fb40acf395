------------------------------- MODULE KoreApi -------------------------------
(***************************************************************************)
(* The billing of kore-api: prepaid credits and subscription pools.  Both  *)
(* are fed by Stripe and share no state, so that a behaviour shows one of  *)
(* them, its scene.                                                        *)
(***************************************************************************)
EXTENDS CreditLedger, SubscriptionWallet

VARIABLE scene

koreVars == <<scene, ledgerVars, walletVars>>

KoreInit == scene \in {"credits", "pools"} /\ LedgerInit /\ WalletInit

KoreNext ==
  /\ UNCHANGED scene
  /\ IF scene = "credits" THEN LedgerNext /\ UNCHANGED walletVars
     ELSE WalletNext /\ UNCHANGED ledgerVars

KoreSpec == KoreInit /\ [][KoreNext]_koreVars
=============================================================================
