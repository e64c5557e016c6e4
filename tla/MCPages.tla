------------------------------- MODULE MCPages -------------------------------
(***************************************************************************)
(* The pages on small instances: the chat (ChatUi), the Pair tab           *)
(* (PairingPage), sending and receiving vaults (VaultTransfer), the        *)
(* identity backup (IdentityBackup), the vault page (VaultPage) and        *)
(* notifications (NotifyPage).  They meet only in the Rust side, in        *)
(* servers and in what the user carries over, so every behaviour shows one *)
(* of them.                                                                *)
(***************************************************************************)
EXTENDS ChatUi, PairingPage, VaultTransfer, IdentityBackup, NotifyPage, VaultPage, TLC

CONSTANTS alpha, beta, red, blue    \* names of peers and topics; phrases and vaults

VARIABLE which

\* A backup made on another device, with one peer of its own.
MCForeign == {[own |-> "there", peers |-> {"far"}, pass |-> "p"]}

\* A vault and a chat envelope under one phrase, and a file cut short.
MCRight == [typed |-> "right", latin |-> FALSE]
MCVault == SiteEncryptV2("t", MCRight, "self", LockPresets.quick, "now",
                         [salt |-> 0, wrapNonce |-> 0, contentNonce |-> 0, key |-> <<0>>])
MCInputs == {[form |-> "sheet", vault |-> MCVault], [form |-> "cut", vault |-> MCVault],
             [form |-> "chat", vault |-> ChatEnvelope("u", MCRight, {"a", "b"}, 0)]}

\* Nothing tells one of the names from the other.
Symmetry == Permutations({alpha, beta}) \cup Permutations({red, blue})

\* What a behaviour is not about stays in one of its initial states.
Init ==
  /\ which \in {"chat", "pairing", "transfer", "backup", "notify", "vault"}
  /\ ChatInit /\ PairingInit /\ TransferInit /\ BackupInit /\ NotifyInit /\ VaultPageInit
  /\ which = "pairing" \/ (half = "qr" /\ paired = {})
  /\ which = "notify" \/ side = "publish"
  /\ which = "vault" \/ where = [copy |-> "site", form |-> "encrypt"]

Next ==
  \/ /\ which = "chat" /\ ChatNext
     /\ UNCHANGED <<which, pairingVars, transferVars, backupVars, notifyVars, vaultPageVars>>
  \/ /\ which = "pairing" /\ PairingNext
     /\ UNCHANGED <<which, chatVars, transferVars, backupVars, notifyVars, vaultPageVars>>
  \/ /\ which = "transfer" /\ TransferNext
     /\ UNCHANGED <<which, chatVars, pairingVars, backupVars, notifyVars, vaultPageVars>>
  \/ /\ which = "backup" /\ BackupNext
     /\ UNCHANGED <<which, chatVars, pairingVars, transferVars, notifyVars, vaultPageVars>>
  \/ /\ which = "notify" /\ NotifyNext
     /\ UNCHANGED <<which, chatVars, pairingVars, transferVars, backupVars, vaultPageVars>>
  \/ /\ which = "vault" /\ VaultPageNext
     /\ UNCHANGED <<which, chatVars, pairingVars, transferVars, backupVars, notifyVars>>

Spec ==
  /\ Init
  /\ [][Next]_<<which, chatVars, pairingVars, transferVars, backupVars, notifyVars,
               vaultPageVars>>

---------------------------------------------------------------------------
\* The properties of the pages are stated in their modules.

\* The types of the states.
TypesOK == /\ ChatTypeOK /\ PairingTypeOK /\ TransferTypeOK /\ BackupTypeOK
           /\ NotifyTypeOK /\ VaultPageTypeOK

=============================================================================
