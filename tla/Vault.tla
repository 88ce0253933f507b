-------------------------------- MODULE Vault --------------------------------
(***************************************************************************)
(* The credential vault (vault/vault.go, vault/metadata.go), the calls the *)
(* C surface builds from it (capi/vault.go), the dial that looks a         *)
(* credential up (vault/sshsecrets) and the order in which the application *)
(* calls it and the OS keyring (app/mainwindow.cpp,                        *)
(* app/vaultunlockdialog.cpp).                                             *)
(*                                                                         *)
(* One process and one vault handle.  Callers are the application threads  *)
(* that run vault calls, Dialers the dial goroutines.  An action is one    *)
(* critical section of v.mu, one file operation of saveLocked, or one read *)
(* made outside the lock.  A call the code refuses before it changes       *)
(* anything is a stuttering step and has no action.  Key derivation and    *)
(* sealing are abstracted: a sealed file opens with exactly one master     *)
(* password.  A name stands for its case-folded, trimmed form.             *)
(***************************************************************************)
EXTENDS Naturals

CONSTANTS
  Ids, Names, Secrets, Masters,
  Callers, Dialers,
  Strays,             (* ids a caller may pass that name no credential     *)
  MaxSaveFailures,    (* bound: file and keyring operations that fail      *)
  MaxStamps,          (* bound: distinct values of time.Now()              *)
  MaxCrashes          (* bound: times the process dies                     *)

None == "none"

ASSUME VaultAssumption ==
  /\ None \notin Masters \cup Callers \cup Dialers \cup Ids
  /\ Strays \cap Ids = {}
  /\ MaxSaveFailures \in Nat /\ MaxStamps \in Nat /\ MaxCrashes \in Nat

Threads    == Callers \cup Dialers
Credential == [id: Ids, name: Names, secret: Secrets, isDefault: BOOLEAN,
               disabled: BOOLEAN, used: 0 .. MaxStamps]
(* What a form sends; id and LastUsed are not the caller's to set.         *)
Inputs     == [name: Names, secret: Secrets, isDefault: BOOLEAN, disabled: BOOLEAN]
Made(id, input, used) ==
  [id |-> id, name |-> input.name, secret |-> input.secret,
   isDefault |-> input.isDefault, disabled |-> input.disabled, used |-> used]

(* A file: absent, half-written ("torn"), or an envelope.                  *)
Files      == [kind: {"absent", "torn", "sealed"}, master: Masters \cup {None},
               creds: SUBSET Credential, private: BOOLEAN]
NoFile     == [kind |-> "absent", master |-> None, creds |-> {}, private |-> FALSE]
Torn       == [NoFile EXCEPT !.kind = "torn"]
Sealed(m, cs) == [kind |-> "sealed", master |-> m, creds |-> cs, private |-> FALSE]

(* What a thread remembers of the call it is in; copy holds what it read   *)
(* before it took the lock it writes under.                                *)
CallKinds == {"none", "create", "unlock", "quiet", "change", "add", "store",
              "rename", "edit", "stamp"}
Jobs  == [kind: CallKinds, id: Ids \cup {None}, master: Masters \cup {None},
          copy: SUBSET Credential]
NoJob == [kind |-> "none", id |-> None, master |-> None, copy |-> {}]
Labels == {"idle", "creating", "unlocking", "changing", "updating", "stamping",
           "open", "write", "harden", "rename", "return", "filing"}

VARIABLES
  key, creds,     (* Vault.key as the master it derives from, Vault.creds  *)
  lock,           (* the holder of v.mu for writing                        *)
  file, tmp,      (* the vault file and path + ".tmp"                      *)
  keyring,        (* the master filed in the OS keyring                    *)
  pc, job,
  clock,          (* time.Now()                                            *)
  issued,         (* uuids handed out                                      *)
  stored,         (* added and reported saved, and not asked to be deleted *)
  told,           (* the master the last successful call said is in force  *)
  failures, crashes

memVars  == <<key, creds>>
diskVars == <<file, tmp>>
userVars == <<issued, stored, told>>
vars == <<key, creds, lock, file, tmp, keyring, pc, job, clock, issued, stored,
          told, failures, crashes>>

Init ==
  /\ key = None /\ creds = {} /\ lock = None
  /\ file = NoFile /\ tmp = NoFile /\ keyring = None
  /\ pc = [t \in Threads |-> "idle"] /\ job = [t \in Threads |-> NoJob]
  /\ clock = 0 /\ issued = {} /\ stored = {} /\ told = None
  /\ failures = 0 /\ crashes = 0

-----------------------------------------------------------------------------
(* Lists of credentials.                                                   *)

IdsOf(cs)         == {c.id : c \in cs}
NameFree(cs, n, id) == \A c \in cs : c.name = n => c.id = id
ClearDefault(cs)  == {[c EXCEPT !.isDefault = FALSE] : c \in cs}
Others(cs, id)    == {c \in cs : c.id # id}
PutOver(cs, c) == Others(cs, c.id) \cup {c}
(* One record added or replaced, the default flag of the others cleared if *)
(* it claims it.                                                           *)
Put(cs, c) == (IF c.isDefault THEN ClearDefault(Others(cs, c.id))
                              ELSE Others(cs, c.id)) \cup {c}

Unlocked == key # None
Free     == lock = None

(* Locals of the call thread t starts, and the step it goes to.            *)
Goto(t, label, j) == pc' = [pc EXCEPT ![t] = label] /\ job' = [job EXCEPT ![t] = j]
Job(kind, id, m, cs) == [kind |-> kind, id |-> id, master |-> m, copy |-> cs]

(* Faults a mutant run puts in the code stand before what they replace.    *)
SaveUnlocked(t, kind, id, m) == lock' = lock /\ Goto(t, "open", Job(kind, id, m, {}))
(* saveLocked, entered with v.mu held.                                     *)
Save(t, kind, id, m) == lock' = t /\ Goto(t, "open", Job(kind, id, m, {}))

-----------------------------------------------------------------------------
(* saveLocked: write the temporary file, harden it, rename it.             *)

SaveOpensInPlace(t) ==
  /\ pc[t] = "open"
  /\ tmp' = Torn /\ file' = Torn
  /\ pc' = [pc EXCEPT ![t] = "write"]
  /\ UNCHANGED <<key, creds, lock, keyring, job, clock, userVars, failures, crashes>>
SaveOpens(t) ==
  /\ pc[t] = "open"
  /\ tmp' = Torn
  /\ pc' = [pc EXCEPT ![t] = "write"]
  /\ UNCHANGED <<key, creds, lock, file, keyring, job, clock, userVars, failures, crashes>>

SaveWrites(t) ==
  /\ pc[t] = "write"
  /\ tmp' = Sealed(key, creds)
  /\ pc' = [pc EXCEPT ![t] = "harden"]
  /\ UNCHANGED <<key, creds, lock, file, keyring, job, clock, userVars, failures, crashes>>

SaveHardens(t) ==
  /\ pc[t] = "harden"
  /\ tmp' = [tmp EXCEPT !.private = TRUE]
  /\ pc' = [pc EXCEPT ![t] = "rename"]
  /\ UNCHANGED <<key, creds, lock, file, keyring, job, clock, userVars, failures, crashes>>

SaveRenames(t) ==
  /\ pc[t] = "rename"
  /\ file' = tmp /\ tmp' = NoFile
  /\ pc' = [pc EXCEPT ![t] = "return"]
  /\ UNCHANGED <<key, creds, lock, keyring, job, clock, userVars, failures, crashes>>

(* The call returns success: v.mu is released, and a new master is known.  *)
SaveReturns(t) ==
  /\ pc[t] = "return"
  /\ lock' = None
  /\ IF job[t].kind \in {"create", "change"}
       THEN told' = job[t].master /\ pc' = [pc EXCEPT ![t] = "filing"] /\ job' = job
       ELSE told' = told /\ Goto(t, "idle", NoJob)
  /\ stored' = IF job[t].kind = "add" THEN stored \cup {job[t].id} ELSE stored
  /\ UNCHANGED <<memVars, diskVars, keyring, clock, issued, failures, crashes>>

(* Any file operation of it fails.  A failed WriteFile leaves what it      *)
(* wrote; the later failures remove the temporary file.  Memory keeps the  *)
(* change that could not be saved.                                         *)
SaveFails(t) ==
  /\ pc[t] \in {"open", "write", "harden", "rename"}
  /\ failures < MaxSaveFailures /\ failures' = failures + 1
  /\ tmp' = IF pc[t] \in {"open", "write"} THEN tmp ELSE NoFile
  /\ lock' = None /\ Goto(t, "idle", NoJob)
  /\ UNCHANGED <<memVars, file, keyring, clock, userVars, crashes>>

-----------------------------------------------------------------------------
(* Create, Unlock, Lock, ChangeMasterPassword.  What they read of the file *)
(* they read before they take v.mu.                                        *)

CreateChecksNothing(t, m) ==
  /\ pc[t] = "idle" /\ ~Unlocked
  /\ Goto(t, "creating", Job("create", None, m, {}))
  /\ UNCHANGED <<memVars, lock, diskVars, keyring, clock, userVars, failures, crashes>>

CreateChecks(t, m) ==
  /\ pc[t] = "idle" /\ ~Unlocked /\ file.kind = "absent"
  /\ Goto(t, "creating", Job("create", None, m, {}))
  /\ UNCHANGED <<memVars, lock, diskVars, keyring, clock, userVars, failures, crashes>>

Create(t) ==
  /\ pc[t] = "creating" /\ Free
  /\ key' = job[t].master /\ creds' = {}
  /\ Save(t, "create", None, job[t].master)
  /\ UNCHANGED <<diskVars, keyring, clock, userVars, failures, crashes>>

(* The application unlocks only a vault that is locked.                    *)
UnlockReads(t, m, kind) ==
  /\ pc[t] = "idle" /\ ~Unlocked
  /\ file.kind = "sealed" /\ file.master = m
  /\ Goto(t, "unlocking", Job(kind, None, m, file.creds))
  /\ UNCHANGED <<memVars, lock, diskVars, keyring, clock, userVars, failures, crashes>>

UnlockTyped(t, m) == UnlockReads(t, m, "unlock")
UnlockQuiet(t)    == keyring # None /\ UnlockReads(t, keyring, "quiet")

UnlockInstalls(t) ==
  /\ pc[t] = "unlocking" /\ Free
  /\ key' = job[t].master /\ creds' = job[t].copy /\ told' = job[t].master
  /\ IF job[t].kind = "unlock"
       THEN Goto(t, "filing", [job[t] EXCEPT !.copy = {}])
       ELSE Goto(t, "idle", NoJob)
  /\ UNCHANGED <<lock, diskVars, keyring, clock, issued, stored, failures, crashes>>

Lock(t) ==
  /\ pc[t] = "idle" /\ Free
  /\ key' = None /\ creds' = {}
  /\ UNCHANGED <<lock, diskVars, keyring, pc, job, clock, userVars, failures, crashes>>

(* Verifies the old master against the file; the contents come from the    *)
(* file too.                                                               *)
ChangeReads(t, old, new) ==
  /\ pc[t] = "idle" /\ Unlocked
  /\ file.kind = "sealed" /\ file.master = old
  /\ Goto(t, "changing", Job("change", None, new, file.creds))
  /\ UNCHANGED <<memVars, lock, diskVars, keyring, clock, userVars, failures, crashes>>

ChangeKeepsKey(t) ==
  /\ pc[t] = "changing" /\ Free
  /\ key' = key /\ creds' = job[t].copy
  /\ Save(t, "change", None, job[t].master)
  /\ UNCHANGED <<diskVars, keyring, clock, userVars, failures, crashes>>
ChangeInstalls(t) ==
  /\ pc[t] = "changing" /\ Free
  /\ key' = job[t].master /\ creds' = job[t].copy
  /\ Save(t, "change", None, job[t].master)
  /\ UNCHANGED <<diskVars, keyring, clock, userVars, failures, crashes>>

-----------------------------------------------------------------------------
(* The credentials.                                                        *)

Ready(t) == pc[t] = "idle" /\ Free /\ Unlocked

Add(t, id, input) ==
  /\ Ready(t)
  /\ id \notin issued /\ NameFree(creds, input.name, id)
  /\ issued' = issued \cup {id}
  /\ creds' = Put(creds, Made(id, input, 0))
  /\ Save(t, "add", id, None)
  /\ UNCHANGED <<key, diskVars, keyring, clock, stored, told, failures, crashes>>

(* omegassh_vault_store and _rename: Get, then Update.  store keeps only   *)
(* LastUsed of what it read, rename keeps everything but the name.         *)
GetForUpdate(t, kind, c) ==
  /\ Ready(t)
  /\ Goto(t, "updating", Job(kind, c.id, None, {c}))
  /\ UNCHANGED <<memVars, lock, diskVars, keyring, clock, userVars, failures, crashes>>

Wanted(t, input) ==
  {IF job[t].kind = "rename" THEN [c EXCEPT !.name = input.name]
                             ELSE Made(c.id, input, c.used) : c \in job[t].copy}

Update(t, input) ==
  /\ pc[t] = "updating" /\ Free
  /\ \E c \in Wanted(t, input) :
       IF Unlocked /\ c.id \in IdsOf(creds) /\ NameFree(creds, c.name, c.id)
         THEN creds' = Put(creds, c) /\ Save(t, job[t].kind, c.id, None)
         ELSE Goto(t, "idle", NoJob) /\ UNCHANGED <<creds, lock>>
  /\ UNCHANGED <<key, diskVars, keyring, clock, userVars, failures, crashes>>

MergeAll(c, input) == Made(c.id, input, c.used)
Merge(c, input) ==
  [c EXCEPT !.name = input.name, !.disabled = input.disabled,
            !.isDefault = c.isDefault \/ input.isDefault]

UpdateMetadata(t, c, input) ==
  /\ Ready(t)
  /\ NameFree(creds, input.name, c.id)
  /\ creds' = IF input.isDefault /\ ~c.isDefault THEN Put(creds, Merge(c, input))
                                                 ELSE Others(creds, c.id) \cup {Merge(c, input)}
  /\ Save(t, "edit", c.id, None)
  /\ UNCHANGED <<key, diskVars, keyring, clock, userVars, failures, crashes>>

Delete(t, c) ==
  /\ Ready(t)
  /\ creds' = creds \ {c} /\ stored' = stored \ {c.id}
  /\ Save(t, "edit", c.id, None)
  /\ UNCHANGED <<key, diskVars, keyring, clock, issued, told, failures, crashes>>

Marked(cs, id) == {[c EXCEPT !.isDefault = (c.id = id)] : c \in cs}

(* The flags are rewritten before it is known whether the id exists; an    *)
(* unknown one is then refused, and nothing is saved.                      *)
SetDefault(t, id) ==
  /\ Ready(t)
  /\ creds' = Marked(creds, id)
  /\ IF id \in IdsOf(creds) THEN Save(t, "edit", id, None) ELSE UNCHANGED <<lock, pc, job>>
  /\ UNCHANGED <<key, diskVars, keyring, clock, userVars, failures, crashes>>

UnsetDefault(t) ==
  /\ Ready(t)
  /\ \E c \in creds : c.isDefault
  /\ creds' = ClearDefault(creds)
  /\ Save(t, "edit", None, None)
  /\ UNCHANGED <<key, diskVars, keyring, clock, userVars, failures, crashes>>

SetDisabled(t, c, disabled) ==
  /\ Ready(t)
  /\ creds' = Others(creds, c.id) \cup {[c EXCEPT !.disabled = disabled]}
  /\ Save(t, "edit", c.id, None)
  /\ UNCHANGED <<key, diskVars, keyring, clock, userVars, failures, crashes>>

-----------------------------------------------------------------------------
(* A dial resolves its credential: Get, then MarkUsed.  CheckCredentials   *)
(* does the same on the caller's thread.                                   *)

Resolve(t, c) ==
  /\ Ready(t)
  /\ ~c.disabled
  /\ Goto(t, "stamping", Job("stamp", c.id, None, {}))
  /\ UNCHANGED <<memVars, lock, diskVars, keyring, clock, userVars, failures, crashes>>

Now == IF clock < MaxStamps THEN clock + 1 ELSE clock

MarkUsed(t) ==
  /\ pc[t] = "stamping" /\ Free
  /\ clock' = Now
  /\ IF Unlocked /\ job[t].id \in IdsOf(creds)
       THEN /\ creds' = {IF c.id = job[t].id THEN [c EXCEPT !.used = Now] ELSE c : c \in creds}
            /\ Save(t, "stamp", job[t].id, None)
       ELSE Goto(t, "idle", NoJob) /\ UNCHANGED <<creds, lock>>
  /\ UNCHANGED <<key, diskVars, keyring, userVars, failures, crashes>>

-----------------------------------------------------------------------------
(* The keyring.  After an unlock or a create the person may ask for the    *)
(* master to be remembered; after a change an existing entry is refiled.   *)

Refiles(t) == job[t].kind = "change" /\ keyring # None

KeyringSet(t) ==
  /\ pc[t] = "filing" /\ (job[t].kind = "change" => keyring # None)
  /\ keyring' = job[t].master
  /\ Goto(t, "idle", NoJob)
  /\ UNCHANGED <<memVars, lock, diskVars, clock, userVars, failures, crashes>>

KeyringLeft(t) ==
  /\ pc[t] = "filing" /\ ~Refiles(t)
  /\ Goto(t, "idle", NoJob)
  /\ UNCHANGED <<memVars, lock, diskVars, keyring, clock, userVars, failures, crashes>>

KeyringFails(t) ==
  /\ pc[t] = "filing"
  /\ failures < MaxSaveFailures /\ failures' = failures + 1
  /\ Goto(t, "idle", NoJob)
  /\ UNCHANGED <<memVars, lock, diskVars, keyring, clock, userVars, crashes>>

KeyringClear(t) ==
  /\ pc[t] = "idle" /\ keyring # None
  /\ keyring' = None
  /\ UNCHANGED <<memVars, lock, diskVars, pc, job, clock, userVars, failures, crashes>>

-----------------------------------------------------------------------------
(* The process dies and is started again: the files and the keyring        *)
(* remain.  Whoever was changing the master does not know which one holds. *)
Crash ==
  /\ crashes < MaxCrashes /\ crashes' = crashes + 1
  /\ key' = None /\ creds' = {} /\ lock' = None
  /\ pc' = [t \in Threads |-> "idle"] /\ job' = [t \in Threads |-> NoJob]
  /\ told' = IF \E t \in Threads : pc[t] = "return" /\ job[t].kind \in {"create", "change"}
               THEN None ELSE told
  /\ UNCHANGED <<diskVars, keyring, clock, issued, stored, failures>>

SaveNext(t) ==
  \/ SaveOpens(t) \/ SaveWrites(t) \/ SaveHardens(t) \/ SaveRenames(t)
  \/ SaveReturns(t) \/ SaveFails(t)

DialNext(t) ==
  \/ \E c \in creds : Resolve(t, c)
  \/ MarkUsed(t)

MasterNext(t) ==
  \/ \E m \in Masters : CreateChecks(t, m) \/ UnlockTyped(t, m)
  \/ \E old, new \in Masters : ChangeReads(t, old, new)
  \/ UnlockQuiet(t) \/ Create(t) \/ UnlockInstalls(t) \/ Lock(t) \/ ChangeInstalls(t)
  \/ KeyringSet(t) \/ KeyringLeft(t) \/ KeyringFails(t) \/ KeyringClear(t)

(* The window that manages the credentials acts on the row that is selected; *)
(* its editor stores a record whole where secrets are to be replaced, and   *)
(* the rest of it where they are to be kept.                               *)
addCredential(t) == \E id \in Ids, input \in Inputs : Add(t, id, input)
editCredential(t) ==
  \E c \in creds : \/ GetForUpdate(t, "store", c)
                   \/ \E input \in Inputs : UpdateMetadata(t, c, input)
renameCredential(t) == \E c \in creds : GetForUpdate(t, "rename", c)
deleteCredential(t) == \E c \in creds : Delete(t, c)
toggleDisabled(t) == \E c \in creds : SetDisabled(t, c, ~c.disabled)
makeDefault(t) == (\E id \in IdsOf(creds) \cup Strays : SetDefault(t, id)) \/ UnsetDefault(t)

EditNext(t) ==
  \/ addCredential(t) \/ editCredential(t) \/ renameCredential(t)
  \/ deleteCredential(t) \/ toggleDisabled(t) \/ makeDefault(t)
  \/ \E input \in Inputs : Update(t, input)

Next ==
  \/ Crash
  \/ \E t \in Threads : SaveNext(t) \/ DialNext(t)
  \/ \E t \in Callers : MasterNext(t) \/ EditNext(t)

Spec == Init /\ [][Next]_vars

-----------------------------------------------------------------------------
(* Properties.                                                             *)

Saving(t) == pc[t] \in {"open", "write", "harden", "rename", "return"}

(* Every variable keeps its type, and v.mu is held exactly by the one      *)
(* thread that is saving.                                                  *)
TypeOK ==
  /\ key \in Masters \cup {None} /\ creds \subseteq Credential
  /\ lock \in Threads \cup {None} /\ file \in Files /\ tmp \in Files
  /\ keyring \in Masters \cup {None}
  /\ pc \in [Threads -> Labels] /\ job \in [Threads -> Jobs]
  /\ clock \in 0 .. MaxStamps /\ issued \subseteq Ids /\ stored \subseteq issued
  /\ told \in Masters \cup {None}
  /\ failures \in 0 .. MaxSaveFailures /\ crashes \in 0 .. MaxCrashes
  /\ \A t \in Threads : Saving(t) <=> lock = t

(* A list holds one record per id, one per name, and at most one default.  *)
Sound(cs) ==
  \A c, d \in cs :
    c.id = d.id \/ c.name = d.name \/ (c.isDefault /\ d.isDefault) => c = d

(* Whatever was refused, failed, raced with a dial or died half-way, the   *)
(* list in memory and the list in the file stay sound: Get and Default     *)
(* have one answer (Add, Update, UpdateMetadata, SetDefault).              *)
ListsSound == Sound(creds) /\ Sound(file.creds)

(* The vault file is at no moment half-written, and it was restricted to   *)
(* its owner before it got its name (saveLocked).                          *)
FileIsWhole == file.kind # "torn" /\ (file.kind = "sealed" => file.private)

(* What was added and reported saved is in the file until somebody asks    *)
(* for its deletion, across failed saves, re-keying, dials and crashes.    *)
StoredStays == stored \subseteq IdsOf(file.creds)

(* As long as every write succeeds, file, memory and keyring go together:  *)
(* an unlocked vault at rest is what its file holds, under the same        *)
(* master ("the file is never behind memory"); the master the last         *)
(* successful call put in force opens the file, through a crash as well;   *)
(* and an entry in the keyring opens it once the call that changed the     *)
(* master is over (changeMasterPassword refiles it).  A SetDefault of a    *)
(* stray id is the exception: refused, it has cleared the flag in memory.  *)
Changing(stages, kinds) == \E t \in Threads : pc[t] \in stages /\ job[t].kind \in kinds
FileNeverBehind ==
  Free /\ Unlocked => file.kind = "sealed" /\ file.master = key /\ file.creds = creds
OpensAsTold ==
  told # None =>
    (file.kind = "sealed" /\ file.master = told) \/ Changing({"return"}, {"create", "change"})
KeyringOpens ==
  crashes = 0 /\ keyring # None /\ file.kind = "sealed" =>
    keyring = file.master \/ Changing({"return", "filing"}, {"change"})
FileFollows ==
  failures = 0 /\ Strays = {} => FileNeverBehind /\ OpensAsTold /\ KeyringOpens

(* Secret material changes only where a caller supplies it (store), or     *)
(* where the list is reloaded from the file; no rename, edit, default,     *)
(* dial or failed save touches it.                                         *)
SecretsKept ==
  [][\A c \in creds, d \in creds' :
       c.id = d.id /\ c.secret # d.secret =>
         \E t \in Callers : pc[t] = "changing" \/ (pc[t] = "updating" /\ job[t].kind = "store")]_vars
=============================================================================
