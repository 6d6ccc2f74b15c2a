------------------------------ MODULE Secrets ------------------------------
(***************************************************************************)
(* API keys and the HuggingFace token: in the OS keystore where that       *)
(* survives a reboot, else in config.toml.  whspr-app/secret_store.rs,     *)
(* app.rs, hf.rs and hub/settings/update.rs, whspr-config (secrets/,       *)
(* lib.rs).  A step is one call on the keystore or the file system, since  *)
(* a crash may come between two.                                           *)
(*                                                                         *)
(* The values of a secret are numbered as the user comes up with them, so  *)
(* the larger is the newer; 0 stands for none.                             *)
(***************************************************************************)
EXTENDS Naturals

CONSTANTS
  ApiKeys,    (* the cloud backends that have an API key       *)
  HfToken,    (* the HuggingFace token                         *)
  CanFail,    (* the keystore and the file system may fail     *)
  MaxValues,  (* bounds of the model: values the user provides *)
  MaxSettings (* and saves of other settings                   *)

Slots == ApiKeys \cup {HfToken}
None == 0

VARIABLES
  persistent, (* Keystore::is_persistent: a matter of the platform           *)
  keystore,   (* the entries of the keystore                                 *)
  fileCopy,   (* the plaintext copies in config.toml                         *)
  configCopy, (* the plaintext copies in State::config                       *)
  pc,         (* where the app is                                            *)
  toMigrate,  (* the secrets a migration has yet to move                     *)
  values,     (* values the user has come up with                            *)
  otherSaves, (* saves of other settings                                     *)
  removed,    (* history: the secrets last removed, rather than saved        *)
  refused,    (* history: the migration at this boot failed                  *)
  interrupted (* history: some save of config.toml failed or was interrupted *)

history == <<removed, refused, interrupted>>
secretsVars == <<persistent, keystore, fileCopy, configCopy, pc, toMigrate, values, otherSaves, history>>

\* prefer_keystore, for a reader of the files: while the app rewrites
\* config.toml, what it is about to hold.
Stored(s) ==
  IF keystore[s] # None THEN keystore[s]
  ELSE IF pc = "write" THEN configCopy[s] ELSE fileCopy[s]

SecretsInit ==
  /\ persistent \in BOOLEAN
  /\ keystore = [s \in Slots |-> None] /\ fileCopy = keystore /\ configCopy = keystore
  /\ pc = "off" /\ toMigrate = {} /\ values = 0 /\ otherSaves = 0
  /\ removed = {} /\ refused = FALSE /\ interrupted = FALSE

-----------------------------------------------------------------------------
(* Boot and migration *)

\* config.toml may be edited by hand (while the app is off: a running app
\* overwrites it).
EditFile(s) ==
  /\ pc = "off" /\ values < MaxValues
  /\ values' = values + 1
  /\ fileCopy' = [fileCopy EXCEPT ![s] = values'] /\ removed' = removed \ {s}
  /\ UNCHANGED <<persistent, keystore, configCopy, pc, toMigrate, otherSaves, refused, interrupted>>

\* mutant: moves the secrets there are not, too
BootMovingAll ==
  /\ pc = "off"
  /\ configCopy' = fileCopy
  /\ toMigrate' = {s \in Slots : persistent}
  /\ pc' = IF toMigrate' = {} THEN "idle" ELSE "migrate"
  /\ refused' = FALSE
  /\ UNCHANGED <<persistent, keystore, fileCopy, values, otherSaves, removed, interrupted>>

\* boot, up to migrate_secrets_to_keystore's loop.
Boot ==
  /\ pc = "off"
  /\ configCopy' = fileCopy
  /\ toMigrate' = {s \in Slots : persistent /\ fileCopy[s] # None}
  /\ pc' = IF toMigrate' = {} THEN "idle" ELSE "migrate"
  /\ refused' = FALSE
  /\ UNCHANGED <<persistent, keystore, fileCopy, values, otherSaves, removed, interrupted>>

\* mutant: blanks the plaintext copies before all are in the keystore
MigrateEagerly(s) ==
  /\ pc = "migrate" /\ s \in toMigrate
  /\ configCopy' = [configCopy EXCEPT ![s] = None]
  /\ \/ /\ keystore' = [keystore EXCEPT ![s] = configCopy[s]]
        /\ toMigrate' = toMigrate \ {s} /\ UNCHANGED refused
        /\ pc' = IF toMigrate' = {} THEN "truncate" ELSE "migrate"
     \/ CanFail /\ pc' = "idle" /\ toMigrate' = {} /\ refused' = TRUE /\ UNCHANGED keystore
  /\ UNCHANGED <<persistent, fileCopy, values, otherSaves, removed, interrupted>>

\* mutant: does not save the configuration afterwards
MigrateUnsaved(s) ==
  /\ pc = "migrate" /\ s \in toMigrate
  /\ keystore' = [keystore EXCEPT ![s] = configCopy[s]] /\ toMigrate' = toMigrate \ {s}
  /\ pc' = IF toMigrate' = {} THEN "idle" ELSE "migrate"
  /\ UNCHANGED <<persistent, fileCopy, configCopy, values, otherSaves, history>>

\* One turn of the loop, reading back included; after the last, the plaintext
\* copies go and the configuration is saved.  The code goes by name, the model
\* in any order.
Migrate(s) ==
  /\ pc = "migrate" /\ s \in toMigrate
  /\ \/ /\ keystore' = [keystore EXCEPT ![s] = configCopy[s]]
        /\ toMigrate' = toMigrate \ {s} /\ UNCHANGED refused
        /\ IF toMigrate' = {}
             THEN configCopy' = [t \in Slots |-> None] /\ pc' = "truncate"
             ELSE UNCHANGED <<configCopy, pc>>
     \/ /\ CanFail /\ pc' = "idle" /\ toMigrate' = {} /\ refused' = TRUE
        /\ keystore' \in {keystore, [keystore EXCEPT ![s] = configCopy[s]]}
        /\ UNCHANGED configCopy
  /\ UNCHANGED <<persistent, fileCopy, values, otherSaves, removed, interrupted>>

-----------------------------------------------------------------------------
(* The user *)

\* ApiKeySaved, HfSignedIn: store_secret; the latter saves the configuration
\* even if the keystore would not have the token.
SaveSecret(s) ==
  /\ pc = "idle" /\ values < MaxValues
  /\ values' = values + 1
  /\ \/ /\ ~persistent
        /\ configCopy' = [configCopy EXCEPT ![s] = values']
        /\ removed' = removed \ {s} /\ pc' = "truncate" /\ UNCHANGED keystore
     \/ /\ persistent
        /\ keystore' = [keystore EXCEPT ![s] = values']
        /\ configCopy' = [configCopy EXCEPT ![s] = None]
        /\ removed' = removed \ {s} /\ pc' = "truncate"
     \/ /\ persistent /\ CanFail
        /\ pc' = IF s = HfToken THEN "truncate" ELSE "idle"
        /\ UNCHANGED <<keystore, configCopy, removed>>
  /\ UNCHANGED <<persistent, fileCopy, toMigrate, otherSaves, refused, interrupted>>

\* ApiKeyRemoved, HfSignOut: clear_secret, whose error is shown.
RemoveSecret(s) ==
  /\ pc = "idle" /\ pc' = "truncate"
  /\ configCopy' = [configCopy EXCEPT ![s] = None]
  /\ \/ persistent /\ keystore' = [keystore EXCEPT ![s] = None]
     \/ (persistent => CanFail) /\ UNCHANGED keystore
  /\ removed' = removed \cup {s}
  /\ UNCHANGED <<persistent, fileCopy, toMigrate, values, otherSaves, refused, interrupted>>

\* Any other setting.
SaveSetting ==
  /\ pc = "idle" /\ otherSaves < MaxSettings
  /\ pc' = "truncate" /\ otherSaves' = otherSaves + 1
  /\ UNCHANGED <<persistent, keystore, fileCopy, configCopy, toMigrate, values, history>>

-----------------------------------------------------------------------------
(* persist_config, and crashes *)

TruncateConfig ==
  /\ pc = "truncate"
  /\ \/ fileCopy' = [s \in Slots |-> None] /\ pc' = "write" /\ UNCHANGED interrupted
     \/ CanFail /\ pc' = "idle" /\ interrupted' = TRUE /\ UNCHANGED fileCopy
  /\ UNCHANGED <<persistent, keystore, configCopy, toMigrate, values, otherSaves, removed, refused>>

WriteConfig ==
  /\ pc = "write" /\ pc' = "idle"
  /\ \/ fileCopy' = configCopy /\ UNCHANGED interrupted
     \/ CanFail /\ interrupted' = TRUE /\ UNCHANGED fileCopy
  /\ UNCHANGED <<persistent, keystore, configCopy, toMigrate, values, otherSaves, removed, refused>>

Crash ==
  /\ pc # "off" /\ pc' = "off"
  /\ configCopy' = [s \in Slots |-> None] /\ toMigrate' = {}
  /\ interrupted' = (interrupted \/ pc \in {"truncate", "write"})
  /\ UNCHANGED <<persistent, keystore, fileCopy, values, otherSaves, removed, refused>>

SecretsNext ==
  \/ \E s \in Slots : EditFile(s) \/ Migrate(s) \/ SaveSecret(s) \/ RemoveSecret(s)
  \/ Boot \/ SaveSetting \/ TruncateConfig \/ WriteConfig \/ Crash

SecretsSpec == SecretsInit /\ [][SecretsNext]_secretsVars

-----------------------------------------------------------------------------
Values == [Slots -> 0..values]

SecretsTypeOK ==
  /\ persistent \in BOOLEAN
  /\ keystore \in Values /\ fileCopy \in Values /\ configCopy \in Values
  /\ pc \in {"off", "migrate", "idle", "truncate", "write"}
  /\ toMigrate \subseteq {s \in Slots : configCopy[s] # None}
  /\ pc = "migrate" <=> toMigrate # {}
  /\ values \in Nat /\ otherSaves \in Nat
  /\ removed \subseteq Slots
  /\ refused \in BOOLEAN /\ interrupted \in BOOLEAN

(***************************************************************************)
(* As long as config.toml gets saved, the app never loses a secret or goes *)
(* back to an older value of it: neither in a migration that the keystore  *)
(* fails in the middle of or that a crash cuts short, nor by the saves     *)
(* that follow.                                                            *)
(***************************************************************************)
SecretsKept ==
  [][~interrupted' => \A s \in Slots \ removed' : Stored(s)' >= Stored(s)]_secretsVars

(***************************************************************************)
(* Where there is a keystore, no plaintext copy stays behind in            *)
(* config.toml once the app has started, unless the keystore would not     *)
(* take it or the file could not be saved.                                 *)
(***************************************************************************)
NoPlaintextLeft ==
  persistent /\ pc = "idle" /\ ~refused /\ ~interrupted => \A s \in Slots : fileCopy[s] = None

(***************************************************************************)
(* "a migrated value overwrites whatever was already in the keystore for   *)
(* that name, since the config file is the more recently edited source"    *)
(* (migrate_secrets_to_keystore): what it overwrites is never newer.       *)
(***************************************************************************)
FileIsNewer == \A s \in toMigrate : keystore[s] <= configCopy[s]
=============================================================================
