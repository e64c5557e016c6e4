---------------------------- MODULE IdentityBackup ----------------------------
(***************************************************************************)
(* Backing up and restoring the identity: the two panels of the Pair tab   *)
(* (tauri-app/ui/pairing.js), export_identity_backup and                   *)
(* import_identity_backup (lib.rs), and backup files on disk.  The store   *)
(* changes by pairing meanwhile, panels are closed and reopened while      *)
(* commands are under way, and answers come in any order.                  *)
(***************************************************************************)
EXTENDS PageValues

CONSTANTS
  Devices,       \* devices that pair with this one
  Passphrases,   \* long enough to be accepted
  Foreign,       \* backup files from elsewhere
  MaxExports, MaxPicks, MaxRestores   \* bounds: how often each is begun

VARIABLES
  identity,   \* own_identity: None, "here" or one brought by a backup
  peers,      \* the peers of the store
  marked,     \* last_backup_at is set
  panel,      \* which panel is open
  pass,       \* the passphrase fields of the export panel
  importPass, \* the passphrase field of the import panel
  export,     \* onExportGo under way; its button is disabled meanwhile
  disk,       \* backup files
  picks,      \* pick_vault_file dialogs open
  loaded,     \* loadedBackupJson
  label,      \* the file named on the import panel
  goOff,      \* the restore button is disabled
  restores,   \* import_identity_backup under way
  counts,     \* exports, picks and restores begun
  confirmed,  \* history: passphrases typed twice at a click on export
  chosen      \* history: label and passphrase at the clicks on restore

storeVars == <<identity, peers, marked>>
exportVars == <<pass, export, disk, confirmed>>
importVars == <<importPass, picks, loaded, label, goOff, restores, chosen>>
backupVars == <<storeVars, panel, counts, exportVars, importVars>>

NoFile == [own |-> None, peers |-> {}, pass |-> ""]
NoExport == [pc |-> "idle", pass |-> "", file |-> NoFile]

BackupInit ==
  /\ identity = None /\ peers = {} /\ marked = FALSE
  /\ panel = None /\ pass = [first |-> "", again |-> ""] /\ importPass = ""
  /\ export = NoExport /\ disk = Foreign
  /\ picks = 0 /\ loaded = NoFile /\ label = NoFile /\ goOff = TRUE
  /\ restores = {} /\ counts = [exports |-> 0, picks |-> 0, restores |-> 0]
  /\ confirmed = {} /\ chosen = {}

\* A pairing makes the identity if there is none, and stores the peer
\* (external to this page).
Pairs(p) ==
  /\ p \notin peers
  /\ identity' = IF identity = None THEN "here" ELSE identity
  /\ peers' = peers \cup {p}
  /\ UNCHANGED <<marked, panel, counts, exportVars, importVars>>

---------------------------------------------------------------------------
\* The panels

\* hideBackupPanels empties every field of both panels.
HideKeepsText(show) ==
  /\ panel' = show
  /\ pass' = [first |-> "", again |-> ""] /\ importPass' = ""
  /\ label' = NoFile /\ goOff' = TRUE
  /\ UNCHANGED <<storeVars, counts, export, disk, confirmed, picks, loaded, restores, chosen>>
HideBackupPanels(show) ==
  /\ panel' = show
  /\ pass' = [first |-> "", again |-> ""] /\ importPass' = ""
  /\ loaded' = NoFile /\ label' = NoFile /\ goOff' = TRUE
  /\ UNCHANGED <<storeVars, counts, export, disk, confirmed, picks, restores, chosen>>

OpenExportPanel == HideBackupPanels("export")
OpenImportPanel == HideBackupPanels("import")
Cancel == panel # None /\ HideBackupPanels(None)

TypeExportPass(x) ==
  /\ panel = "export"
  /\ \E f \in {"first", "again"} : pass' = [pass EXCEPT ![f] = x]
  /\ UNCHANGED <<storeVars, panel, counts, export, disk, confirmed, importVars>>

TypeImportPass(x) ==
  /\ panel = "import"
  /\ importPass' = x
  /\ UNCHANGED <<storeVars, panel, counts, exportVars, picks, loaded, label, goOff, restores,
                 chosen>>

---------------------------------------------------------------------------
\* Export

\* onExportGo refuses what is short or was not typed the same twice.
MayExportUnconfirmed == pass.first \in Passphrases
MayExport == pass.first \in Passphrases /\ pass.first = pass.again
ClickExport ==
  /\ panel = "export" /\ export = NoExport /\ counts.exports < MaxExports
  /\ MayExport
  /\ export' = [pc |-> "asked", pass |-> pass.first, file |-> NoFile]
  /\ counts' = [counts EXCEPT !.exports = @ + 1]
  /\ confirmed' = confirmed \cup {pass.again}
  /\ UNCHANGED <<storeVars, panel, pass, disk, importVars>>

\* A snapshot of the store is encrypted; without an identity it fails.
ExportBackup ==
  /\ export.pc = "asked"
  /\ identity # None
  /\ export' = [export EXCEPT !.pc = "encrypted",
                  !.file = [own |-> identity, peers |-> peers, pass |-> export.pass]]
  /\ UNCHANGED <<storeVars, panel, counts, pass, disk, confirmed, importVars>>

\* The store then remembers that a backup was taken, before anybody has asked
\* where to save it.
MarkBackup ==
  /\ export.pc = "encrypted"
  /\ export' = [export EXCEPT !.pc = "save"]
  /\ marked' = TRUE
  /\ UNCHANGED <<identity, peers, panel, counts, pass, disk, confirmed, importVars>>

SaveBackup ==
  /\ export.pc = "save"
  /\ disk' = disk \cup {export.file}
  /\ export' = NoExport
  /\ UNCHANGED <<storeVars, panel, counts, pass, confirmed, importVars>>

\* A command fails, or the save dialog is cancelled.
ExportFails ==
  /\ export # NoExport
  /\ export' = NoExport
  /\ UNCHANGED <<storeVars, panel, counts, pass, disk, confirmed, importVars>>

---------------------------------------------------------------------------
\* Import

ClickPick ==
  /\ panel = "import" /\ counts.picks < MaxPicks
  /\ counts' = [counts EXCEPT !.picks = @ + 1]
  /\ picks' = picks + 1
  /\ UNCHANGED <<storeVars, panel, exportVars, importPass, loaded, label, goOff, restores, chosen>>

\* Whatever panel is open by then, the file is loaded and named.
PickAnswers(f) ==
  /\ picks > 0
  /\ picks' = picks - 1
  /\ loaded' = f /\ label' = f /\ goOff' = FALSE
  /\ UNCHANGED <<storeVars, panel, counts, exportVars, importPass, restores, chosen>>

PickFails ==
  /\ picks > 0
  /\ picks' = picks - 1
  /\ UNCHANGED <<storeVars, panel, counts, exportVars, importPass, loaded, label, goOff, restores,
                 chosen>>

ClickRestore ==
  /\ panel = "import" /\ ~goOff /\ counts.restores < MaxRestores
  /\ loaded # NoFile /\ importPass # ""
  /\ goOff' = TRUE
  /\ counts' = [counts EXCEPT !.restores = @ + 1]
  /\ restores' = restores \cup {[id |-> counts.restores, file |-> loaded,
                                 pass |-> importPass, pc |-> "asked"]}
  /\ chosen' = chosen \cup {[file |-> label, pass |-> importPass]}
  /\ UNCHANGED <<storeVars, panel, exportVars, importPass, picks, loaded, label>>

\* apply_backup replaces the identity and adds the peers of the backup to
\* those of the store.
ApplyBackup(r) ==
  /\ r.pc = "asked" /\ r.pass = r.file.pass
  /\ identity' = r.file.own
  /\ peers' = peers \cup r.file.peers
  /\ restores' = (restores \ {r}) \cup {[r EXCEPT !.pc = "applied"]}
  /\ UNCHANGED <<marked, panel, counts, exportVars, importPass, picks, loaded, label, goOff, chosen>>

\* The answer forgets whatever is loaded by then; the name stays.
RestoreAnswers(r) ==
  /\ r.pc = "applied"
  /\ restores' = restores \ {r}
  /\ loaded' = NoFile /\ goOff' = FALSE
  /\ UNCHANGED <<storeVars, panel, counts, exportVars, importPass, picks, label, chosen>>

\* A wrong passphrase, or a save that fails when memory has been changed.
RestoreFails(r) ==
  /\ restores' = restores \ {r}
  /\ goOff' = FALSE
  /\ UNCHANGED <<storeVars, panel, counts, exportVars, importPass, picks, loaded, label, chosen>>

BackupNext ==
  \/ \E p \in Devices : Pairs(p)
  \/ OpenExportPanel \/ OpenImportPanel \/ Cancel
  \/ \E x \in Passphrases \cup {""} : TypeExportPass(x) \/ TypeImportPass(x)
  \/ ClickExport \/ ExportBackup \/ MarkBackup \/ SaveBackup \/ ExportFails
  \/ ClickPick \/ PickFails \/ ClickRestore
  \/ \E f \in disk : PickAnswers(f)
  \/ \E r \in restores : ApplyBackup(r) \/ RestoreAnswers(r) \/ RestoreFails(r)

BackupSpec == BackupInit /\ [][BackupNext]_backupVars

---------------------------------------------------------------------------
\* Properties

\* The types of the state.
BackupTypeOK ==
  /\ peers \subseteq Devices \cup UNION {f.peers : f \in Foreign}
  /\ panel \in {None, "export", "import"}
  /\ export.pc \in {"idle", "asked", "encrypted", "save"}
  /\ picks \in 0..MaxPicks
  /\ \A r \in restores : r.pc \in {"asked", "applied"}

\* Who the device becomes by a restore (pairing.js:822-855) is in a file that
\* was named on the panel, next to its passphrase, when "Restore" was clicked,
\* through every pick that answers late and every panel closed and reopened.
RestoredAsNamed ==
  /\ \A r \in restores : [file |-> r.file, pass |-> r.pass] \in chosen
  /\ identity \in {None, "here"} \/ \E c \in chosen : c.file.own = identity /\ c.file.pass = c.pass

\* A backup saved to disk opens with a passphrase typed the same twice at the
\* click (pairing.js:739-750), whatever became of the fields since.
SavedUnderConfirmed ==
  \A f \in disk \ Foreign : f.pass \in confirmed /\ f.own # None

\* "This is a union, not a replacement, so partial backups don't nuke data"
\* (identity_backup.rs:226-227): no restore, export or panel loses a peer.
PeersAreKept == [][peers \subseteq peers']_backupVars
=============================================================================
