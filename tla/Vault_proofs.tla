----------------------------- MODULE Vault_proofs -----------------------------
(* Theorems of Vault, for every set of credentials, callers and dials and  *)
(* every bound: whatever fails, races or dies, the lists stay sound, the   *)
(* vault file stays whole and what was stored stays; while no write fails, *)
(* file, memory and keyring go together; and secrets are kept.             *)
EXTENDS Vault, TLAPS

USE VaultAssumption DEF VaultAssumption

-----------------------------------------------------------------------------
(* What the edits do to a list.                                            *)

Flagged(c, flag) == [c EXCEPT !.isDefault = flag]

LEMMA FlagType ==
  \A c \in Credential, flag \in BOOLEAN :
    /\ Flagged(c, flag) \in Credential
    /\ Flagged(c, flag).id = c.id /\ Flagged(c, flag).name = c.name
    /\ Flagged(c, flag).isDefault = flag
  BY DEF Flagged, Credential

LEMMA ClearType ==
  ASSUME NEW cs \in SUBSET Credential
  PROVE  /\ ClearDefault(cs) \in SUBSET Credential
         /\ \A d \in ClearDefault(cs) : ~d.isDefault
         /\ \A d \in ClearDefault(cs) :
              \E c \in cs : d = Flagged(c, FALSE) /\ d.id = c.id /\ d.name = c.name
  <1>1. ClearDefault(cs) = {Flagged(c, FALSE) : c \in cs}
    BY DEF ClearDefault, Flagged
  <1>2. \A c \in cs : /\ Flagged(c, FALSE) \in Credential /\ Flagged(c, FALSE).id = c.id
                       /\ Flagged(c, FALSE).name = c.name /\ ~Flagged(c, FALSE).isDefault
    BY FlagType
  <1> QED BY <1>1, <1>2

LEMMA MarkedType ==
  ASSUME NEW cs \in SUBSET Credential, NEW id
  PROVE  Marked(cs, id) \in SUBSET Credential
  <1>1. \A c \in cs : Flagged(c, c.id = id) \in Credential
    <2> SUFFICES ASSUME NEW c \in cs PROVE Flagged(c, c.id = id) \in Credential
      OBVIOUS
    <2>1. c \in Credential /\ (c.id = id) \in BOOLEAN
      OBVIOUS
    <2> QED BY <2>1, FlagType
  <1>2. Marked(cs, id) = {Flagged(c, c.id = id) : c \in cs}
    BY DEF Marked, Flagged
  <1> QED BY <1>1, <1>2, Zenon

LEMMA PutType ==
  ASSUME NEW cs \in SUBSET Credential, NEW c \in Credential
  PROVE  Put(cs, c) \in SUBSET Credential
  <1>1. Others(cs, c.id) \in SUBSET Credential
    BY DEF Others
  <1>2. ClearDefault(Others(cs, c.id)) \in SUBSET Credential
    BY <1>1, ClearType
  <1> QED BY <1>1, <1>2 DEF Put

LEMMA SoundClear ==
  ASSUME NEW cs \in SUBSET Credential, Sound(cs)
  PROVE  Sound(ClearDefault(cs))
  <1> SUFFICES ASSUME NEW c0 \in ClearDefault(cs), NEW d0 \in ClearDefault(cs),
                      c0.id = d0.id \/ c0.name = d0.name
               PROVE  c0 = d0
    BY ClearType DEF Sound
  <1>0. \A e \in ClearDefault(cs) :
          \E c \in cs : e = Flagged(c, FALSE) /\ e.id = c.id /\ e.name = c.name
    BY ClearType
  <1>1. PICK c \in cs : c0 = Flagged(c, FALSE) /\ c0.id = c.id /\ c0.name = c.name
    BY <1>0
  <1>2. PICK d \in cs : d0 = Flagged(d, FALSE) /\ d0.id = d.id /\ d0.name = d.name
    BY <1>0
  <1>3. c = d
    BY <1>1, <1>2 DEF Sound
  <1> QED BY <1>1, <1>2, <1>3

LEMMA SoundSubset ==
  ASSUME NEW cs, NEW some \in SUBSET cs, Sound(cs)
  PROVE  Sound(some)
  BY DEF Sound

(* One record d in the place of the one with its id, when its name is free *)
(* and it claims the default flag only if no other record has it.          *)
LEMMA SoundOver ==
  ASSUME NEW cs, NEW d, Sound(cs), NameFree(cs, d.name, d.id),
         d.isDefault => \A c \in Others(cs, d.id) : ~c.isDefault
  PROVE  Sound(Others(cs, d.id) \cup {d})
  BY DEF Sound, NameFree, Others

LEMMA SoundPut ==
  ASSUME NEW cs \in SUBSET Credential, NEW d \in Credential, Sound(cs),
         NameFree(cs, d.name, d.id)
  PROVE  Sound(Put(cs, d))
  <1>1. CASE ~d.isDefault
    BY <1>1, SoundOver DEF Put
  <1>2. CASE d.isDefault
    <2> DEFINE rest == ClearDefault(Others(cs, d.id))
    <2>1. Others(cs, d.id) \in SUBSET Credential /\ Sound(Others(cs, d.id))
      BY SoundSubset DEF Others
    <2>2. Sound(rest)
      BY <2>1, SoundClear
    <2>3. \A c \in rest : \E b \in Others(cs, d.id) :
                               c = Flagged(b, FALSE) /\ c.id = b.id /\ c.name = b.name
      BY <2>1, ClearType
    <2>4. \A c \in rest : ~c.isDefault
      BY <2>1, ClearType
    <2>5. \A b \in Others(cs, d.id) : b.id # d.id /\ b.name # d.name
      BY DEF Others, NameFree
    <2> HIDE DEF rest
    <2>6. \A c \in rest : c.id # d.id /\ c.name # d.name
      BY <2>3, <2>5
    <2>7. Sound(rest \cup {d})
      BY <2>2, <2>6, <2>4 DEF Sound
    <2> QED BY <1>2, <2>7 DEF Put, rest
  <1> QED BY <1>1, <1>2

LEMMA SoundMarked ==
  ASSUME NEW cs \in SUBSET Credential, NEW id, Sound(cs)
  PROVE  Sound(Marked(cs, id)) /\ Marked(cs, id) \in SUBSET Credential
  <1> DEFINE M(c) == Flagged(c, c.id = id)
  <1>1. Marked(cs, id) = {M(c) : c \in cs}
    BY DEF Marked, Flagged
  <1>2. \A c \in cs : /\ M(c) \in Credential /\ M(c).id = c.id /\ M(c).name = c.name
                      /\ M(c).isDefault <=> c.id = id
    BY FlagType
  <1> HIDE DEF M
  <1>3. \A c, d \in cs : M(c).id = M(d).id \/ M(c).name = M(d).name
                          \/ (M(c).isDefault /\ M(d).isDefault) => c = d
    BY <1>2 DEF Sound
  <1> QED BY <1>1, <1>2, <1>3 DEF Sound

Stamped(cs, id, now) == {IF c.id = id THEN [c EXCEPT !.used = now] ELSE c : c \in cs}

LEMMA SoundStamped ==
  ASSUME NEW cs \in SUBSET Credential, NEW id, NEW now \in 0 .. MaxStamps, Sound(cs)
  PROVE  Sound(Stamped(cs, id, now)) /\ Stamped(cs, id, now) \in SUBSET Credential
  <1> DEFINE S(c) == IF c.id = id THEN [c EXCEPT !.used = now] ELSE c
  <1>1. \A c \in cs : /\ S(c) \in Credential /\ S(c).id = c.id /\ S(c).name = c.name
                      /\ S(c).isDefault = c.isDefault
    BY DEF Credential
  <1> HIDE DEF S
  <1>2. \A c, d \in cs : S(c).id = S(d).id \/ S(c).name = S(d).name
                          \/ (S(c).isDefault /\ S(d).isDefault) => c = d
    BY <1>1 DEF Sound
  <1>3. Stamped(cs, id, now) = {S(c) : c \in cs}
    BY DEF Stamped, S
  <1> QED BY <1>1, <1>2, <1>3 DEF Sound

-----------------------------------------------------------------------------
(* Types.  Locals is the part about the threads: who is where, with what,  *)
(* and that v.mu is held exactly by the thread that is saving.  Added says *)
(* that a call that adds is saving, under an id that was handed out.       *)

Locals ==
  /\ lock \in Threads \cup {None}
  /\ pc \in [Threads -> Labels] /\ job \in [Threads -> Jobs]
  /\ \A t \in Threads : Saving(t) <=> lock = t
Added == \A t \in Threads : job[t].kind = "add" => Saving(t) /\ job[t].id \in issued

LEMMA NotAThread == None \notin Threads
  BY DEF Threads

LEMMA JobType ==
  ASSUME NEW kind \in CallKinds, NEW id \in Ids \cup {None}, NEW m \in Masters \cup {None},
         NEW cs \in SUBSET Credential
  PROVE  /\ Job(kind, id, m, cs) \in Jobs
         /\ Job(kind, id, m, cs).kind = kind /\ Job(kind, id, m, cs).id = id
         /\ Job(kind, id, m, cs).copy = cs
  BY DEF Job, Jobs

LEMMA NoJobType == NoJob \in Jobs /\ NoJob.kind # "add" /\ NoJob.copy = {}
  BY DEF NoJob, Jobs, CallKinds

(* A step from one place that holds no lock to another.                    *)
LEMMA GotoLocals ==
  ASSUME Locals, Added, NEW t \in Threads, ~Saving(t),
         NEW label \in Labels \ {"open", "write", "harden", "rename", "return"},
         NEW j \in Jobs, j.kind # "add", Goto(t, label, j),
         UNCHANGED lock, issued \subseteq issued'
  PROVE  Locals' /\ Added'
  <1>1. pc' \in [Threads -> Labels] /\ job' \in [Threads -> Jobs]
    BY DEF Goto, Locals
  <1>2. \A u \in Threads : Saving(u)' <=> lock' = u
    BY DEF Goto, Locals, Saving, Labels
  <1>3. Added'
    BY DEF Goto, Locals, Added, Saving, Labels
  <1> QED BY <1>1, <1>2, <1>3 DEF Locals

(* Entering saveLocked with v.mu taken.                                    *)
LEMMA SaveLocals ==
  ASSUME Locals, Added, Free, NEW t \in Threads,
         NEW kind \in CallKinds, NEW id \in Ids \cup {None}, NEW m \in Masters \cup {None},
         Save(t, kind, id, m), issued \subseteq issued', kind = "add" => id \in issued'
  PROVE  Locals' /\ Added'
  <1> DEFINE j == Job(kind, id, m, {})
  <1>0. j \in Jobs /\ j.kind = kind /\ j.id = id
    BY JobType
  <1> HIDE DEF j
  <1>1. lock' = t /\ pc' = [pc EXCEPT ![t] = "open"] /\ job' = [job EXCEPT ![t] = j]
    BY DEF Save, Goto, j
  <1>2. pc' \in [Threads -> Labels] /\ job' \in [Threads -> Jobs]
    BY <1>0, <1>1 DEF Locals, Labels
  <1>3. \A u \in Threads : Saving(u)' <=> lock' = u
    BY <1>1, NotAThread DEF Locals, Saving, Free
  <1>4. Added'
    BY <1>0, <1>1 DEF Locals, Added, Saving
  <1> QED BY <1>2, <1>3, <1>4, <1>1 DEF Locals

(* Leaving it.                                                             *)
LEMMA ReturnLocals ==
  ASSUME Locals, Added, NEW t \in Threads, Saving(t), lock' = None,
         NEW label \in {"idle", "filing"}, pc' = [pc EXCEPT ![t] = label],
         \/ job' = job /\ job[t].kind # "add"
         \/ job' = [job EXCEPT ![t] = NoJob],
         UNCHANGED issued
  PROVE  Locals' /\ Added'
  <1>1. pc' \in [Threads -> Labels] /\ job' \in [Threads -> Jobs]
    BY NoJobType DEF Locals, Labels
  <1>2. \A u \in Threads : Saving(u)' <=> lock' = u
    BY NotAThread DEF Locals, Saving
  <1>3. Added'
    BY NoJobType DEF Locals, Added, Saving
  <1> QED BY <1>1, <1>2, <1>3 DEF Locals

(* Going on inside it.                                                     *)
LEMMA StageLocals ==
  ASSUME Locals, Added, NEW t \in Threads, Saving(t),
         NEW label \in {"write", "harden", "rename", "return"},
         pc' = [pc EXCEPT ![t] = label], UNCHANGED <<job, lock, issued>>
  PROVE  Locals' /\ Added'
  <1>1. pc' \in [Threads -> Labels]
    BY DEF Locals, Labels
  <1>2. \A u \in Threads : Saving(u)' <=> lock' = u
    BY DEF Locals, Saving
  <1>3. Added'
    BY DEF Locals, Added, Saving
  <1> QED BY <1>1, <1>2, <1>3 DEF Locals

(* Everything else.                                                        *)
Rest ==
  /\ key \in Masters \cup {None} /\ creds \in SUBSET Credential
  /\ file \in Files /\ tmp \in Files /\ keyring \in Masters \cup {None}
  /\ clock \in 0 .. MaxStamps /\ issued \in SUBSET Ids /\ stored \in SUBSET issued
  /\ told \in Masters \cup {None}
  /\ failures \in 0 .. MaxSaveFailures /\ crashes \in 0 .. MaxCrashes

LEMMA TypeParts == TypeOK <=> Rest /\ Locals
  BY DEF TypeOK, Rest, Locals

LEMMA FileTypes ==
  /\ NoFile \in Files /\ Torn \in Files
  /\ \A m \in Masters \cup {None}, cs \in SUBSET Credential : Sealed(m, cs) \in Files
  /\ \A f \in Files : [f EXCEPT !.private = TRUE] \in Files
  BY DEF NoFile, Torn, Sealed, Files

Typed == Rest /\ Locals /\ Added

LEMMA SaveStepsTyped ==
  ASSUME Typed, NEW t \in Threads, SaveNext(t)
  PROVE  Typed'
  <1> USE DEF Typed, memVars, diskVars, userVars
  <1>1. CASE SaveOpens(t)
    <2>1. Rest'
      BY <1>1, FileTypes DEF SaveOpens, Rest
    <2>2. Locals' /\ Added'
      BY <1>1, StageLocals DEF SaveOpens, Saving
    <2> QED BY <2>1, <2>2
  <1>2. CASE SaveWrites(t)
    <2>1. Rest'
      BY <1>2, FileTypes DEF SaveWrites, Rest
    <2>2. Locals' /\ Added'
      BY <1>2, StageLocals DEF SaveWrites, Saving
    <2> QED BY <2>1, <2>2
  <1>3. CASE SaveHardens(t)
    <2>1. Rest'
      BY <1>3, FileTypes DEF SaveHardens, Rest
    <2>2. Locals' /\ Added'
      BY <1>3, StageLocals DEF SaveHardens, Saving
    <2> QED BY <2>1, <2>2
  <1>4. CASE SaveRenames(t)
    <2>1. Rest'
      BY <1>4, FileTypes DEF SaveRenames, Rest
    <2>2. Locals' /\ Added'
      BY <1>4, StageLocals DEF SaveRenames, Saving
    <2> QED BY <2>1, <2>2
  <1>5. CASE SaveReturns(t)
    <2>1. job[t] \in Jobs /\ Saving(t)
      BY <1>5 DEF SaveReturns, Saving, Locals
    <2>2. told' \in Masters \cup {None}
      BY <1>5, <2>1 DEF SaveReturns, Rest, Jobs
    <2>3. stored' \in SUBSET issued
      BY <1>5 DEF SaveReturns, Rest, Added
    <2>4. Rest'
      BY <1>5, <2>2, <2>3 DEF SaveReturns, Rest
    <2>5. CASE job[t].kind \in {"create", "change"}
      BY <1>5, <2>1, <2>4, <2>5, ReturnLocals DEF SaveReturns
    <2>6. CASE job[t].kind \notin {"create", "change"}
      BY <1>5, <2>1, <2>4, <2>6, ReturnLocals DEF SaveReturns, Goto
    <2> QED BY <2>5, <2>6
  <1>6. CASE SaveFails(t)
    <2>1. Rest'
      BY <1>6, FileTypes DEF SaveFails, Rest
    <2>2. Locals' /\ Added'
      BY <1>6, ReturnLocals DEF SaveFails, Saving, Goto
    <2> QED BY <2>1, <2>2
  <1> QED BY <1>1, <1>2, <1>3, <1>4, <1>5, <1>6 DEF SaveNext

LEMMA CopiesTyped ==
  ASSUME Locals, NEW t \in Threads
  PROVE  /\ job[t] \in Jobs /\ job[t].kind \in CallKinds /\ job[t].id \in Ids \cup {None}
         /\ job[t].master \in Masters \cup {None} /\ job[t].copy \in SUBSET Credential
         /\ [job[t] EXCEPT !.copy = {}] \in Jobs
         /\ [job[t] EXCEPT !.copy = {}].kind = job[t].kind
         /\ [job[t] EXCEPT !.copy = {}].copy = {}
  BY DEF Locals, Jobs

LEMMA MasterStepsTyped ==
  ASSUME Typed, NEW t \in Callers, MasterNext(t)
  PROVE  Typed'
  <1> USE DEF Typed, memVars, diskVars, userVars
  <1>0. t \in Threads
    BY DEF Threads
  <1>1. ASSUME NEW m \in Masters, CreateChecks(t, m) PROVE Typed'
    <2>1. Rest'
      BY <1>1 DEF CreateChecks, Rest
    <2>2. Locals' /\ Added'
      BY <1>0, <1>1, GotoLocals, JobType DEF CreateChecks, Saving, Labels, CallKinds
    <2> QED BY <2>1, <2>2
  <1>2. ASSUME NEW m \in Masters, NEW kind \in {"unlock", "quiet"}, UnlockReads(t, m, kind)
        PROVE  Typed'
    <2>1. Rest'
      BY <1>2 DEF UnlockReads, Rest
    <2>2. file.creds \in SUBSET Credential
      BY DEF Rest, Files
    <2>3. Locals' /\ Added'
      BY <1>0, <1>2, <2>2, GotoLocals, JobType DEF UnlockReads, Saving, Labels, CallKinds
    <2> QED BY <2>1, <2>3
  <1>3. ASSUME NEW m \in Masters, UnlockTyped(t, m) PROVE Typed'
    BY <1>2, <1>3 DEF UnlockTyped
  <1>4. CASE UnlockQuiet(t)
    BY <1>2, <1>4 DEF UnlockQuiet, Rest
  <1>5. ASSUME NEW old \in Masters, NEW new \in Masters, ChangeReads(t, old, new) PROVE Typed'
    <2>1. Rest'
      BY <1>5 DEF ChangeReads, Rest
    <2>2. file.creds \in SUBSET Credential
      BY DEF Rest, Files
    <2>3. Locals' /\ Added'
      BY <1>0, <1>5, <2>2, GotoLocals, JobType DEF ChangeReads, Saving, Labels, CallKinds
    <2> QED BY <2>1, <2>3
  <1>6. CASE Create(t)
    <2>1. Rest'
      BY <1>0, <1>6, CopiesTyped DEF Create, Rest
    <2>2. Locals' /\ Added'
      BY <1>0, <1>6, CopiesTyped, SaveLocals DEF Create, CallKinds
    <2> QED BY <2>1, <2>2
  <1>7. CASE UnlockInstalls(t)
    <2>1. Rest'
      BY <1>0, <1>7, CopiesTyped DEF UnlockInstalls, Rest
    <2>2. CASE job[t].kind = "unlock"
      <3>1. Goto(t, "filing", [job[t] EXCEPT !.copy = {}])
        BY <1>7, <2>2 DEF UnlockInstalls
      <3>2. [job[t] EXCEPT !.copy = {}] \in Jobs /\ [job[t] EXCEPT !.copy = {}].kind # "add"
        BY <1>0, <2>2, CopiesTyped
      <3>3. Locals' /\ Added'
        BY <1>0, <1>7, <3>1, <3>2, GotoLocals DEF UnlockInstalls, Saving, Labels
      <3> QED BY <2>1, <3>3
    <2>3. CASE job[t].kind # "unlock"
      <3>1. Locals' /\ Added'
        BY <1>0, <1>7, <2>3, NoJobType, GotoLocals DEF UnlockInstalls, Saving, Labels
      <3> QED BY <2>1, <3>1
    <2> QED BY <2>2, <2>3
  <1>8. CASE Lock(t)
    BY <1>8 DEF Lock, Rest, Locals, Added, Saving
  <1>9. CASE ChangeInstalls(t)
    <2>1. Rest'
      BY <1>0, <1>9, CopiesTyped DEF ChangeInstalls, Rest
    <2>2. Locals' /\ Added'
      BY <1>0, <1>9, CopiesTyped, SaveLocals DEF ChangeInstalls, CallKinds
    <2> QED BY <2>1, <2>2
  <1>10. CASE KeyringSet(t)
    <2>1. Rest'
      BY <1>0, <1>10, CopiesTyped DEF KeyringSet, Rest
    <2>2. Locals' /\ Added'
      BY <1>0, <1>10, NoJobType, GotoLocals DEF KeyringSet, Saving, Labels
    <2> QED BY <2>1, <2>2
  <1>11. CASE KeyringLeft(t)
    <2>1. Rest'
      BY <1>11 DEF KeyringLeft, Rest
    <2>2. Locals' /\ Added'
      BY <1>0, <1>11, NoJobType, GotoLocals DEF KeyringLeft, Saving, Labels
    <2> QED BY <2>1, <2>2
  <1>12. CASE KeyringFails(t)
    <2>1. Rest'
      BY <1>12 DEF KeyringFails, Rest
    <2>2. Locals' /\ Added'
      BY <1>0, <1>12, NoJobType, GotoLocals DEF KeyringFails, Saving, Labels
    <2> QED BY <2>1, <2>2
  <1>13. CASE KeyringClear(t)
    BY <1>13 DEF KeyringClear, Rest, Locals, Added, Saving
  <1> QED BY <1>1, <1>3, <1>4, <1>5, <1>6, <1>7, <1>8, <1>9, <1>10, <1>11, <1>12, <1>13
          DEF MasterNext

(* The records the edits write.                                            *)
LEMMA MadeType ==
  ASSUME NEW id \in Ids, NEW input \in Inputs, NEW used \in 0 .. MaxStamps
  PROVE  /\ Made(id, input, used) \in Credential
         /\ Made(id, input, used).id = id /\ Made(id, input, used).name = input.name
  BY DEF Made, Credential, Inputs

LEMMA MergeType ==
  ASSUME NEW c \in Credential, NEW input \in Inputs
  PROVE  /\ Merge(c, input) \in Credential
         /\ Merge(c, input).id = c.id /\ Merge(c, input).name = input.name
         /\ Merge(c, input).isDefault <=> c.isDefault \/ input.isDefault
  <1>1. c.isDefault \in BOOLEAN /\ input.isDefault \in BOOLEAN
    BY DEF Credential, Inputs
  <1>2. c.isDefault \/ input.isDefault \in BOOLEAN
    BY <1>1
  <1> QED BY <1>2 DEF Merge, Credential, Inputs

LEMMA WantedType ==
  ASSUME Locals, NEW t \in Threads, NEW input \in Inputs, NEW c \in Wanted(t, input)
  PROVE  c \in Credential
  <1>1. PICK d \in job[t].copy :
          c = IF job[t].kind = "rename" THEN [d EXCEPT !.name = input.name]
                                        ELSE Made(d.id, input, d.used)
    BY DEF Wanted
  <1>2. d \in Credential
    BY CopiesTyped
  <1>3. CASE job[t].kind = "rename"
    BY <1>1, <1>2, <1>3 DEF Credential, Inputs
  <1>4. CASE job[t].kind # "rename"
    <2>1. d.id \in Ids /\ d.used \in 0 .. MaxStamps
      BY <1>2 DEF Credential
    <2> QED BY <1>1, <1>4, <2>1, MadeType
  <1> QED BY <1>3, <1>4

LEMMA DisableType ==
  ASSUME NEW c \in Credential, NEW flag \in BOOLEAN
  PROVE  /\ [c EXCEPT !.disabled = flag] \in Credential
         /\ [c EXCEPT !.disabled = flag].id = c.id /\ [c EXCEPT !.disabled = flag].name = c.name
         /\ [c EXCEPT !.disabled = flag].isDefault = c.isDefault
  BY DEF Credential

LEMMA EditStepsTyped ==
  ASSUME Typed, NEW t \in Callers, EditNext(t)
  PROVE  Typed'
  <1> USE DEF Typed, memVars, diskVars, userVars
  <1>0. t \in Threads
    BY DEF Threads
  <1>1. ASSUME NEW id \in Ids, NEW input \in Inputs, Add(t, id, input) PROVE Typed'
    <2>1. creds' \in SUBSET Credential
      BY <1>1, MadeType, PutType DEF Add, Rest
    <2>2. Rest'
      BY <1>1, <2>1 DEF Add, Rest
    <2>3. Locals' /\ Added'
      BY <1>0, <1>1, SaveLocals DEF Add, Ready, CallKinds
    <2> QED BY <2>2, <2>3
  <1>2. ASSUME NEW c \in creds, NEW kind \in {"store", "rename"}, GetForUpdate(t, kind, c)
        PROVE  Typed'
    <2>1. Rest'
      BY <1>2 DEF GetForUpdate, Rest
    <2>2. c \in Credential /\ c.id \in Ids /\ {c} \in SUBSET Credential
      BY DEF Rest, Credential
    <2>3. Locals' /\ Added'
      BY <1>0, <1>2, <2>2, GotoLocals, JobType DEF GetForUpdate, Ready, Saving, Labels, CallKinds
    <2> QED BY <2>1, <2>3
  <1>3. ASSUME NEW input \in Inputs, Update(t, input) PROVE Typed'
    <2>1. PICK c \in Wanted(t, input) :
            IF Unlocked /\ c.id \in IdsOf(creds) /\ NameFree(creds, c.name, c.id)
              THEN creds' = Put(creds, c) /\ Save(t, job[t].kind, c.id, None)
              ELSE Goto(t, "idle", NoJob) /\ UNCHANGED <<creds, lock>>
      BY <1>3 DEF Update
    <2>2. c \in Credential /\ c.id \in Ids
      BY <1>0, WantedType DEF Credential
    <2>3. creds' \in SUBSET Credential
      BY <2>1, <2>2, PutType DEF Rest
    <2>4. Rest'
      BY <1>3, <2>3 DEF Update, Rest
    <2>5. pc[t] = "updating" /\ Free /\ issued' = issued /\ job[t].kind \in CallKinds
          /\ job[t].kind # "add"
      BY <1>0, <1>3, CopiesTyped DEF Update, Added, Saving
    <2>6. CASE Unlocked /\ c.id \in IdsOf(creds) /\ NameFree(creds, c.name, c.id)
      BY <1>0, <2>1, <2>2, <2>4, <2>5, <2>6, SaveLocals
    <2>7. CASE ~(Unlocked /\ c.id \in IdsOf(creds) /\ NameFree(creds, c.name, c.id))
      BY <1>0, <2>1, <2>4, <2>5, <2>7, GotoLocals, NoJobType DEF Saving, Labels
    <2> QED BY <2>6, <2>7
  <1>4. ASSUME NEW input \in Inputs, NEW c \in creds, UpdateMetadata(t, c, input) PROVE Typed'
    <2>1. c \in Credential /\ c.id \in Ids /\ Merge(c, input) \in Credential
      BY MergeType DEF Rest, Credential
    <2>2. creds' \in SUBSET Credential
      BY <1>4, <2>1, PutType DEF UpdateMetadata, Rest, Others
    <2>3. Rest'
      BY <1>4, <2>2 DEF UpdateMetadata, Rest
    <2>4. Locals' /\ Added'
      BY <1>0, <1>4, <2>1, SaveLocals DEF UpdateMetadata, Ready, CallKinds
    <2> QED BY <2>3, <2>4
  <1>5. ASSUME NEW c \in creds, Delete(t, c) PROVE Typed'
    <2>1. Rest'
      BY <1>5 DEF Delete, Rest
    <2>2. c.id \in Ids
      BY DEF Rest, Credential
    <2>3. Locals' /\ Added'
      BY <1>0, <1>5, <2>2, SaveLocals DEF Delete, Ready, CallKinds
    <2> QED BY <2>1, <2>3
  <1>6. ASSUME NEW c \in creds, SetDisabled(t, c, ~c.disabled) PROVE Typed'
    <2>1. c \in Credential /\ c.id \in Ids /\ (~c.disabled) \in BOOLEAN
      BY DEF Rest, Credential
    <2>2. creds' \in SUBSET Credential
      BY <1>6, <2>1, DisableType DEF SetDisabled, Rest, Others
    <2>3. Rest'
      BY <1>6, <2>2 DEF SetDisabled, Rest
    <2>4. Locals' /\ Added'
      BY <1>0, <1>6, <2>1, SaveLocals DEF SetDisabled, Ready, CallKinds
    <2> QED BY <2>3, <2>4
  <1>7. ASSUME NEW id \in IdsOf(creds) \cup Strays, SetDefault(t, id) PROVE Typed'
    <2>1. Marked(creds, id) \in SUBSET Credential
      BY MarkedType DEF Rest
    <2>2. Rest'
      BY <1>7, <2>1 DEF SetDefault, Rest
    <2>3. CASE id \in IdsOf(creds)
      <3>1. id \in Ids
        BY <2>3 DEF IdsOf, Rest, Credential
      <3> QED BY <1>0, <1>7, <2>2, <2>3, <3>1, SaveLocals DEF SetDefault, Ready, CallKinds
    <2>4. CASE id \notin IdsOf(creds)
      BY <1>7, <2>2, <2>4 DEF SetDefault, Locals, Added, Saving
    <2> QED BY <2>3, <2>4
  <1>8. CASE UnsetDefault(t)
    <2>1. creds' \in SUBSET Credential
      BY <1>8, ClearType DEF UnsetDefault, Rest
    <2>2. Rest'
      BY <1>8, <2>1 DEF UnsetDefault, Rest
    <2>3. Locals' /\ Added'
      BY <1>0, <1>8, SaveLocals DEF UnsetDefault, Ready, CallKinds
    <2> QED BY <2>2, <2>3
  <1> QED BY <1>1, <1>2, <1>3, <1>4, <1>5, <1>6, <1>7, <1>8 DEF EditNext, addCredential, editCredential, renameCredential, deleteCredential,
             toggleDisabled, makeDefault

LEMMA NowType == clock \in 0 .. MaxStamps => Now \in 0 .. MaxStamps
  BY DEF Now

LEMMA DialStepsTyped ==
  ASSUME Typed, NEW t \in Threads, DialNext(t)
  PROVE  Typed'
  <1> USE DEF Typed, memVars, diskVars, userVars
  <1>1. ASSUME NEW c \in creds, Resolve(t, c) PROVE Typed'
    <2>1. Rest'
      BY <1>1 DEF Resolve, Rest
    <2>2. c.id \in Ids
      BY DEF Rest, Credential
    <2>3. Locals' /\ Added'
      BY <1>1, <2>2, GotoLocals, JobType DEF Resolve, Ready, Saving, Labels, CallKinds
    <2> QED BY <2>1, <2>3
  <1>2. CASE MarkUsed(t)
    <2>1. Now \in 0 .. MaxStamps /\ creds \in SUBSET Credential
      BY NowType DEF Rest
    <2>2. pc[t] = "stamping" /\ Free /\ issued' = issued /\ job[t].id \in Ids \cup {None}
      BY <1>2, CopiesTyped DEF MarkUsed
    <2>3. CASE Unlocked /\ job[t].id \in IdsOf(creds)
      <3>1. creds' = Stamped(creds, job[t].id, Now)
        BY <1>2, <2>3 DEF MarkUsed, Stamped
      <3>2. creds' \in SUBSET Credential
        BY <2>1, <3>1 DEF Stamped, Credential
      <3>3. Rest'
        BY <1>2, <2>1, <3>2 DEF MarkUsed, Rest
      <3> QED BY <1>2, <2>2, <2>3, <3>3, SaveLocals DEF MarkUsed, CallKinds
    <2>4. CASE ~(Unlocked /\ job[t].id \in IdsOf(creds))
      <3>1. Rest'
        BY <1>2, <2>1, <2>4 DEF MarkUsed, Rest
      <3> QED BY <1>2, <2>2, <2>4, <3>1, GotoLocals, NoJobType DEF MarkUsed, Saving, Labels
    <2> QED BY <2>3, <2>4
  <1> QED BY <1>1, <1>2 DEF DialNext

LEMMA CrashTyped ==
  ASSUME Typed, Crash
  PROVE  Typed'
  <1>1. Rest'
    BY DEF Crash, Typed, Rest, diskVars
  <1>2. Locals' /\ Added'
    BY NoJobType, NotAThread DEF Crash, Locals, Added, Saving, Labels
  <1> QED BY <1>1, <1>2 DEF Typed

LEMMA InitTyped == Init => Typed
  <1> SUFFICES ASSUME Init PROVE Typed
    OBVIOUS
  <1>1. Rest
    BY FileTypes DEF Init, Rest
  <1>2. Locals /\ Added
    BY NoJobType, NotAThread DEF Init, Locals, Added, Saving, Labels
  <1> QED BY <1>1, <1>2 DEF Typed

LEMMA NextTyped == Typed /\ [Next]_vars => Typed'
  <1> SUFFICES ASSUME Typed, [Next]_vars PROVE Typed'
    OBVIOUS
  <1>1. CASE UNCHANGED vars
    BY <1>1 DEF Typed, Rest, Locals, Added, Saving, vars
  <1>2. CASE Crash
    BY <1>2, CrashTyped
  <1>3. ASSUME NEW t \in Threads, SaveNext(t) \/ DialNext(t) PROVE Typed'
    BY <1>3, SaveStepsTyped, DialStepsTyped
  <1>4. ASSUME NEW t \in Callers, MasterNext(t) \/ EditNext(t) PROVE Typed'
    BY <1>4, MasterStepsTyped, EditStepsTyped
  <1> QED BY <1>1, <1>2, <1>3, <1>4 DEF Next

LEMMA AlwaysTyped == Spec => []Typed
  BY InitTyped, NextTyped, PTL DEF Spec

(* Every variable of the vault keeps its type, and v.mu is held exactly by *)
(* the one thread that is saving, whatever fails and whoever calls.        *)
THEOREM VaultTypes == Spec => []TypeOK
  <1>1. Typed => TypeOK
    BY TypeParts DEF Typed
  <1> QED BY <1>1, AlwaysTyped, PTL

-----------------------------------------------------------------------------
(* The file.  A thread about to harden has written the temporary file, one *)
(* about to rename has hardened it; the mutex keeps every other thread     *)
(* from writing it.                                                        *)

Staged ==
  \A t \in Threads :
    /\ pc[t] = "harden" => tmp.kind = "sealed"
    /\ pc[t] = "rename" => tmp.kind = "sealed" /\ tmp.private
FileInv == Staged /\ FileIsWhole

LEMMA SealedPrivate ==
  ASSUME NEW f \in Files, f.kind = "sealed"
  PROVE  [f EXCEPT !.private = TRUE].kind = "sealed" /\ [f EXCEPT !.private = TRUE].private
  BY DEF Files

(* Only the thread that saves is at one of the file steps.                 *)
LEMMA OneSaver ==
  ASSUME Locals, NEW t \in Threads, Saving(t), NEW u \in Threads, Saving(u)
  PROVE  t = u
  BY DEF Locals

LEMMA SaveStepsFile ==
  ASSUME Typed, FileInv, NEW t \in Threads, SaveNext(t)
  PROVE  FileInv'
  <1> USE DEF FileInv, memVars, diskVars, userVars
  <1>0. pc \in [Threads -> Labels] /\ tmp \in Files /\ Saving(t)
        /\ \A u \in Threads : Saving(u) => u = t
    BY OneSaver DEF Typed, Locals, Rest, SaveNext, Saving, SaveOpens, SaveWrites,
       SaveHardens, SaveRenames, SaveReturns, SaveFails
  <1>1. CASE SaveOpens(t)
    BY <1>0, <1>1 DEF SaveOpens, Staged, FileIsWhole, Saving
  <1>2. CASE SaveWrites(t)
    BY <1>0, <1>2 DEF SaveWrites, Staged, FileIsWhole, Saving, Sealed
  <1>3. CASE SaveHardens(t)
    <2>1. tmp.kind = "sealed"
      BY <1>3 DEF SaveHardens, Staged
    <2>2. tmp'.kind = "sealed" /\ tmp'.private
      BY <1>0, <1>3, <2>1, SealedPrivate DEF SaveHardens
    <2>3. Staged'
      BY <1>0, <1>3, <2>2 DEF SaveHardens, Staged, Saving
    <2> QED BY <1>3, <2>3 DEF SaveHardens, FileIsWhole
  <1>4. CASE SaveRenames(t)
    <2>1. file'.kind = "sealed" /\ file'.private
      BY <1>4 DEF SaveRenames, Staged
    <2>2. Staged'
      BY <1>0, <1>4 DEF SaveRenames, Staged, Saving
    <2> QED BY <2>1, <2>2 DEF FileIsWhole
  <1>5. CASE SaveReturns(t)
    <2>1. pc' = [pc EXCEPT ![t] = "filing"] \/ pc' = [pc EXCEPT ![t] = "idle"]
      BY <1>5 DEF SaveReturns, Goto
    <2> QED BY <1>0, <1>5, <2>1 DEF SaveReturns, Staged, FileIsWhole
  <1>6. CASE SaveFails(t)
    <2>1. pc' = [pc EXCEPT ![t] = "idle"]
      BY <1>6 DEF SaveFails, Goto
    <2>2. \A u \in Threads : pc'[u] # "harden" /\ pc'[u] # "rename"
      BY <1>0, <2>1 DEF Saving
    <2> QED BY <1>6, <2>2 DEF SaveFails, Staged, FileIsWhole
  <1> QED BY <1>1, <1>2, <1>3, <1>4, <1>5, <1>6 DEF SaveNext

(* Every other step leaves both files alone and puts nobody at a file step *)
(* past the first.                                                         *)
Elsewhere ==
  /\ UNCHANGED <<file, tmp>>
  /\ \E t \in Threads, label \in Labels \ {"harden", "rename"} :
       pc' = pc \/ pc' = [pc EXCEPT ![t] = label]

LEMMA ElsewhereFile ==
  ASSUME Typed, FileInv, Elsewhere
  PROVE  FileInv'
  BY DEF Typed, Locals, FileInv, Elsewhere, Staged, FileIsWhole

LEMMA DialStepsElsewhere ==
  ASSUME NEW t \in Threads, DialNext(t)
  PROVE  Elsewhere
  BY DEF DialNext, Resolve, MarkUsed, Goto, Save, Elsewhere, Labels, memVars, diskVars, userVars

LEMMA MasterStepsElsewhere ==
  ASSUME NEW t \in Callers, MasterNext(t)
  PROVE  Elsewhere
  BY DEF MasterNext, CreateChecks, UnlockTyped, UnlockQuiet, UnlockReads, ChangeReads, Create,
         UnlockInstalls, Lock, ChangeInstalls, KeyringSet, KeyringLeft, KeyringFails,
         KeyringClear, Goto, Save, Elsewhere, Labels, Threads, memVars, diskVars, userVars

LEMMA EditStepsElsewhere ==
  ASSUME NEW t \in Callers, EditNext(t)
  PROVE  Elsewhere
  <1> USE DEF Goto, Save, Elsewhere, Labels, diskVars, memVars, userVars
  <1>0. t \in Threads
    BY DEF Threads
  <1>1. ASSUME NEW id \in Ids, NEW input \in Inputs, Add(t, id, input) PROVE Elsewhere
    BY <1>0, <1>1 DEF Add
  <1>2. ASSUME NEW input \in Inputs, Update(t, input) PROVE Elsewhere
    BY <1>0, <1>2 DEF Update
  <1>3. ASSUME NEW input \in Inputs, NEW c \in creds, UpdateMetadata(t, c, input) PROVE Elsewhere
    BY <1>0, <1>3 DEF UpdateMetadata
  <1>4. ASSUME NEW c \in creds, NEW kind \in {"store", "rename"}, GetForUpdate(t, kind, c)
        PROVE  Elsewhere
    BY <1>0, <1>4 DEF GetForUpdate
  <1>5. ASSUME NEW c \in creds, Delete(t, c) \/ SetDisabled(t, c, ~c.disabled) PROVE Elsewhere
    BY <1>0, <1>5 DEF Delete, SetDisabled
  <1>6. ASSUME NEW id \in IdsOf(creds) \cup Strays, SetDefault(t, id) PROVE Elsewhere
    BY <1>0, <1>6 DEF SetDefault
  <1>7. CASE UnsetDefault(t)
    BY <1>0, <1>7 DEF UnsetDefault
  <1> QED BY <1>1, <1>2, <1>3, <1>4, <1>5, <1>6, <1>7 DEF EditNext, addCredential, editCredential, renameCredential, deleteCredential,
             toggleDisabled, makeDefault

LEMMA NextFile == Typed /\ FileInv /\ [Next]_vars => FileInv'
  <1> SUFFICES ASSUME Typed, FileInv, [Next]_vars PROVE FileInv'
    OBVIOUS
  <1>1. CASE UNCHANGED vars
    BY <1>1 DEF FileInv, Staged, FileIsWhole, vars
  <1>2. CASE Crash
    BY <1>2 DEF Crash, FileInv, Staged, FileIsWhole, diskVars
  <1>3. ASSUME NEW t \in Threads, SaveNext(t) \/ DialNext(t) PROVE FileInv'
    BY <1>3, SaveStepsFile, DialStepsElsewhere, ElsewhereFile
  <1>4. ASSUME NEW t \in Callers, MasterNext(t) \/ EditNext(t) PROVE FileInv'
    BY <1>4, MasterStepsElsewhere, EditStepsElsewhere, ElsewhereFile
  <1> QED BY <1>1, <1>2, <1>3, <1>4 DEF Next

(* The vault file is never half-written and never readable by others under *)
(* its own name, wherever a save fails or the process dies (saveLocked).   *)
THEOREM FileStaysWhole == Spec => []FileIsWhole
  <1>1. Init => FileInv
    BY DEF Init, FileInv, Staged, FileIsWhole, NoFile
  <1>2. FileInv => FileIsWhole
    BY DEF FileInv
  <1> QED BY <1>1, <1>2, NextFile, AlwaysTyped, PTL DEF Spec

-----------------------------------------------------------------------------
(* The lists.  Whatever a thread has read and may still install is sound   *)
(* too, and so is the temporary file.                                      *)

CopiesSound == \A t \in Threads : Sound(job[t].copy)
ListsInv == Sound(creds) /\ Sound(file.creds) /\ Sound(tmp.creds) /\ CopiesSound

LEMMA SoundSmall == Sound({}) /\ \A c : Sound({c})
  BY DEF Sound

LEMMA SaveStepsLists ==
  ASSUME Typed, ListsInv, NEW t \in Threads, SaveNext(t)
  PROVE  ListsInv'
  <1> USE DEF ListsInv, memVars, diskVars, userVars
  <1>0. job \in [Threads -> Jobs] /\ tmp \in Files
    BY DEF Typed, Locals, Rest
  <1>1. CASE SaveOpens(t)
    BY <1>1, SoundSmall DEF SaveOpens, CopiesSound, Torn, NoFile
  <1>2. CASE SaveWrites(t)
    BY <1>2 DEF SaveWrites, CopiesSound, Sealed
  <1>3. CASE SaveHardens(t)
    <2>1. tmp'.creds = tmp.creds
      BY <1>0, <1>3 DEF SaveHardens, Files
    <2> QED BY <1>3, <2>1 DEF SaveHardens, CopiesSound
  <1>4. CASE SaveRenames(t)
    BY <1>4, SoundSmall DEF SaveRenames, CopiesSound, NoFile
  <1>5. CASE SaveReturns(t)
    <2>1. job' = job \/ job' = [job EXCEPT ![t] = NoJob]
      BY <1>5 DEF SaveReturns, Goto
    <2>2. CopiesSound'
      BY <1>0, <2>1, NoJobType, SoundSmall DEF CopiesSound
    <2> QED BY <1>5, <2>2 DEF SaveReturns
  <1>6. CASE SaveFails(t)
    <2>1. CopiesSound'
      BY <1>0, <1>6, NoJobType, SoundSmall DEF SaveFails, Goto, CopiesSound
    <2>2. Sound(tmp'.creds)
      BY <1>6, SoundSmall DEF SaveFails, NoFile
    <2> QED BY <1>6, <2>1, <2>2 DEF SaveFails
  <1> QED BY <1>1, <1>2, <1>3, <1>4, <1>5, <1>6 DEF SaveNext

(* A step to a job whose copy is sound.                                    *)
LEMMA CopyInstalled ==
  ASSUME Locals, CopiesSound, NEW t \in Threads, NEW j, Sound(j.copy),
         job' = [job EXCEPT ![t] = j]
  PROVE  CopiesSound'
  BY DEF Locals, CopiesSound

LEMMA CopyRead ==
  ASSUME Locals, CopiesSound, NEW t \in Threads, NEW label, NEW kind, NEW id, NEW m, NEW cs,
         Sound(cs), Goto(t, label, Job(kind, id, m, cs))
  PROVE  CopiesSound'
  <1>1. Job(kind, id, m, cs).copy = cs
    BY DEF Job
  <1> QED BY <1>1, CopyInstalled DEF Goto

LEMMA CopySaved ==
  ASSUME Locals, CopiesSound, NEW t \in Threads, NEW kind, NEW id, NEW m, Save(t, kind, id, m)
  PROVE  CopiesSound'
  BY CopyRead, SoundSmall DEF Save

LEMMA MasterStepsLists ==
  ASSUME Typed, ListsInv, NEW t \in Callers, MasterNext(t)
  PROVE  ListsInv'
  <1> USE DEF ListsInv, memVars, diskVars, userVars
  <1>0. t \in Threads /\ Locals
    BY DEF Threads, Typed
  <1>1. ASSUME NEW m \in Masters, CreateChecks(t, m) PROVE ListsInv'
    BY <1>0, <1>1, SoundSmall, CopyRead DEF CreateChecks
  <1>2. ASSUME NEW m, NEW kind, UnlockReads(t, m, kind) PROVE ListsInv'
    BY <1>0, <1>2, CopyRead DEF UnlockReads
  <1>3. ASSUME NEW old \in Masters, NEW new \in Masters, ChangeReads(t, old, new) PROVE ListsInv'
    BY <1>0, <1>3, CopyRead DEF ChangeReads
  <1>4. CASE Create(t)
    BY <1>0, <1>4, SoundSmall, CopySaved DEF Create
  <1>5. CASE UnlockInstalls(t)
    <2>1. Sound(creds')
      BY <1>0, <1>5 DEF UnlockInstalls, CopiesSound
    <2>2. CopiesSound'
      <3>1. CASE job[t].kind = "unlock"
        <4>1. job' = [job EXCEPT ![t] = [job[t] EXCEPT !.copy = {}]]
          BY <1>5, <3>1 DEF UnlockInstalls, Goto
        <4>2. Sound([job[t] EXCEPT !.copy = {}].copy)
          BY <1>0, CopiesTyped, SoundSmall
        <4> QED BY <1>0, <4>1, <4>2, CopyInstalled
      <3>2. CASE job[t].kind # "unlock"
        <4>1. job' = [job EXCEPT ![t] = NoJob]
          BY <1>5, <3>2 DEF UnlockInstalls, Goto
        <4>2. Sound(NoJob.copy)
          BY NoJobType, SoundSmall
        <4> QED BY <1>0, <4>1, <4>2, CopyInstalled
      <3> QED BY <3>1, <3>2
    <2> QED BY <1>5, <2>1, <2>2 DEF UnlockInstalls
  <1>6. CASE Lock(t)
    BY <1>6, SoundSmall DEF Lock, CopiesSound
  <1>7. CASE ChangeInstalls(t)
    BY <1>0, <1>7, CopySaved DEF ChangeInstalls, CopiesSound
  <1>8. CASE KeyringSet(t) \/ KeyringLeft(t) \/ KeyringFails(t)
    <2>1. job' = [job EXCEPT ![t] = NoJob] /\ UNCHANGED <<creds, file, tmp>>
      BY <1>8 DEF KeyringSet, KeyringLeft, KeyringFails, Goto
    <2> QED BY <1>0, <2>1, NoJobType, CopyInstalled, SoundSmall
  <1>9. CASE KeyringClear(t)
    BY <1>9 DEF KeyringClear, CopiesSound
  <1> QED BY <1>1, <1>2, <1>3, <1>4, <1>5, <1>6, <1>7, <1>8, <1>9
          DEF MasterNext, UnlockTyped, UnlockQuiet

LEMMA EditStepsLists ==
  ASSUME Typed, ListsInv, NEW t \in Callers, EditNext(t)
  PROVE  ListsInv'
  <1> USE DEF ListsInv, memVars, diskVars, userVars
  <1>0. t \in Threads /\ Locals /\ creds \in SUBSET Credential
    BY DEF Threads, Typed, Rest
  <1>1. ASSUME NEW id \in Ids, NEW input \in Inputs, Add(t, id, input) PROVE ListsInv'
    <2>1. Made(id, input, 0) \in Credential /\ Made(id, input, 0).id = id
          /\ Made(id, input, 0).name = input.name
      BY MadeType
    <2>2. Sound(creds')
      BY <1>0, <1>1, <2>1, SoundPut DEF Add
    <2> QED BY <1>0, <1>1, <2>2, CopySaved DEF Add
  <1>2. ASSUME NEW c \in creds, NEW kind, GetForUpdate(t, kind, c) PROVE ListsInv'
    BY <1>0, <1>2, SoundSmall, CopyRead DEF GetForUpdate
  <1>3. ASSUME NEW input \in Inputs, Update(t, input) PROVE ListsInv'
    <2>1. PICK c \in Wanted(t, input) :
            IF Unlocked /\ c.id \in IdsOf(creds) /\ NameFree(creds, c.name, c.id)
              THEN creds' = Put(creds, c) /\ Save(t, job[t].kind, c.id, None)
              ELSE Goto(t, "idle", NoJob) /\ UNCHANGED <<creds, lock>>
      BY <1>3 DEF Update
    <2>2. c \in Credential
      BY <1>0, WantedType
    <2>3. CASE Unlocked /\ c.id \in IdsOf(creds) /\ NameFree(creds, c.name, c.id)
      <3>1. Sound(creds')
        BY <1>0, <2>1, <2>2, <2>3, SoundPut
      <3>2. CopiesSound'
        BY <1>0, <2>1, <2>3, CopySaved
      <3> QED BY <1>3, <3>1, <3>2 DEF Update
    <2>4. CASE ~(Unlocked /\ c.id \in IdsOf(creds) /\ NameFree(creds, c.name, c.id))
      <3>1. CopiesSound'
        BY <1>0, <2>1, <2>4, NoJobType, SoundSmall, CopyInstalled DEF Goto
      <3> QED BY <1>3, <2>1, <2>4, <3>1 DEF Update
    <2> QED BY <2>3, <2>4
  <1>4. ASSUME NEW input \in Inputs, NEW c \in creds, UpdateMetadata(t, c, input) PROVE ListsInv'
    <2> DEFINE d == Merge(c, input)
    <2>1. c \in Credential /\ d \in Credential /\ d.id = c.id /\ d.name = input.name
      BY <1>0, MergeType
    <2>2. d.isDefault <=> c.isDefault \/ input.isDefault
      BY <1>0, MergeType
    <2>3. NameFree(creds, d.name, d.id)
      BY <1>4, <2>1 DEF UpdateMetadata
    <2> HIDE DEF d
    <2>4. CASE input.isDefault /\ ~c.isDefault
      <3>1. creds' = Put(creds, d)
        BY <1>4, <2>4 DEF UpdateMetadata, d
      <3>2. Sound(creds')
        BY <1>0, <2>1, <2>3, <3>1, SoundPut
      <3> QED BY <1>0, <1>4, <3>2, CopySaved DEF UpdateMetadata
    <2>5. CASE ~(input.isDefault /\ ~c.isDefault)
      <3>1. creds' = Others(creds, d.id) \cup {d}
        BY <1>4, <2>1, <2>5 DEF UpdateMetadata, d
      <3>2. d.isDefault => \A b \in Others(creds, d.id) : ~b.isDefault
        BY <2>1, <2>2, <2>5 DEF Sound, Others
      <3>3. Sound(creds')
        BY <1>0, <2>1, <2>3, <3>1, <3>2, SoundOver
      <3> QED BY <1>0, <1>4, <3>3, CopySaved DEF UpdateMetadata
    <2> QED BY <2>4, <2>5
  <1>5. ASSUME NEW c \in creds, Delete(t, c) PROVE ListsInv'
    <2>1. Sound(creds')
      BY <1>5, SoundSubset DEF Delete
    <2> QED BY <1>0, <1>5, <2>1, CopySaved DEF Delete
  <1>6. ASSUME NEW c \in creds, SetDisabled(t, c, ~c.disabled) PROVE ListsInv'
    <2> DEFINE d == [c EXCEPT !.disabled = ~c.disabled]
    <2>1. c \in Credential /\ (~c.disabled) \in BOOLEAN
      BY <1>0 DEF Credential
    <2>2. d.id = c.id /\ d.name = c.name /\ d.isDefault = c.isDefault
      BY <2>1, DisableType
    <2>3. creds' = Others(creds, c.id) \cup {d}
      BY <1>6 DEF SetDisabled
    <2> HIDE DEF d
    <2>4. NameFree(creds, d.name, d.id)
      BY <2>2 DEF NameFree, Sound
    <2>5. d.isDefault => \A b \in Others(creds, d.id) : ~b.isDefault
      BY <2>1, <2>2 DEF Sound, Others
    <2>6. Sound(creds')
      BY <2>2, <2>3, <2>4, <2>5, SoundOver
    <2> QED BY <1>0, <1>6, <2>6, CopySaved DEF SetDisabled
  <1>7. ASSUME NEW id \in IdsOf(creds) \cup Strays, SetDefault(t, id) PROVE ListsInv'
    <2>1. Sound(creds')
      BY <1>0, <1>7, SoundMarked DEF SetDefault
    <2>2. CopiesSound'
      BY <1>0, <1>7, CopySaved DEF SetDefault, CopiesSound
    <2> QED BY <1>7, <2>1, <2>2 DEF SetDefault
  <1>8. CASE UnsetDefault(t)
    <2>1. Sound(creds')
      BY <1>0, <1>8, SoundClear DEF UnsetDefault
    <2> QED BY <1>0, <1>8, <2>1, CopySaved DEF UnsetDefault
  <1> QED BY <1>1, <1>2, <1>3, <1>4, <1>5, <1>6, <1>7, <1>8 DEF EditNext, addCredential, editCredential, renameCredential, deleteCredential,
             toggleDisabled, makeDefault

LEMMA DialStepsLists ==
  ASSUME Typed, ListsInv, NEW t \in Threads, DialNext(t)
  PROVE  ListsInv'
  <1> USE DEF ListsInv, memVars, diskVars, userVars
  <1>0. Locals /\ creds \in SUBSET Credential /\ Now \in 0 .. MaxStamps
    BY NowType DEF Typed, Rest
  <1>1. ASSUME NEW c \in creds, Resolve(t, c) PROVE ListsInv'
    BY <1>0, <1>1, SoundSmall, CopyRead DEF Resolve
  <1>2. CASE MarkUsed(t)
    <2>1. CASE Unlocked /\ job[t].id \in IdsOf(creds)
      <3>1. creds' = Stamped(creds, job[t].id, Now)
        BY <1>2, <2>1 DEF MarkUsed, Stamped
      <3>2. Sound(creds')
        BY <1>0, <3>1, SoundStamped
      <3>3. CopiesSound'
        BY <1>0, <1>2, <2>1, CopySaved DEF MarkUsed
      <3> QED BY <1>2, <3>2, <3>3 DEF MarkUsed
    <2>2. CASE ~(Unlocked /\ job[t].id \in IdsOf(creds))
      <3>1. CopiesSound'
        BY <1>0, <1>2, <2>2, NoJobType, SoundSmall, CopyInstalled DEF MarkUsed, Goto
      <3> QED BY <1>2, <2>2, <3>1 DEF MarkUsed
    <2> QED BY <2>1, <2>2
  <1> QED BY <1>1, <1>2 DEF DialNext

LEMMA NextLists == Typed /\ ListsInv /\ [Next]_vars => ListsInv'
  <1> SUFFICES ASSUME Typed, ListsInv, [Next]_vars PROVE ListsInv'
    OBVIOUS
  <1>1. CASE UNCHANGED vars
    BY <1>1 DEF ListsInv, CopiesSound, vars
  <1>2. CASE Crash
    BY <1>2, SoundSmall, NoJobType DEF Crash, ListsInv, CopiesSound, diskVars
  <1>3. ASSUME NEW t \in Threads, SaveNext(t) \/ DialNext(t) PROVE ListsInv'
    BY <1>3, SaveStepsLists, DialStepsLists
  <1>4. ASSUME NEW t \in Callers, MasterNext(t) \/ EditNext(t) PROVE ListsInv'
    BY <1>4, MasterStepsLists, EditStepsLists
  <1> QED BY <1>1, <1>2, <1>3, <1>4 DEF Next

(* Ids and names stay unique and at most one credential is the default, in *)
(* memory and in the file, through any sequence of edits, failed saves,    *)
(* dials, changes of master and crashes (vault.go, metadata.go).           *)
THEOREM ListsStaySound == Spec => []ListsSound
  <1>1. Init => ListsInv
    BY SoundSmall, NoJobType DEF Init, ListsInv, CopiesSound, NoFile
  <1>2. ListsInv => ListsSound
    BY DEF ListsInv, ListsSound
  <1> QED BY <1>1, <1>2, NextLists, AlwaysTyped, PTL DEF Spec
-----------------------------------------------------------------------------
(* What was stored stays.  One thread makes the vault calls, as in the     *)
(* application; dials run beside it.  What the file holds, what an         *)
(* unlocked list holds, what is on its way to the file and what a call has *)
(* read and will install all contain every id reported saved.              *)

InMemory(ids) == ids \subseteq IdsOf(creds)
Kept ==
  /\ file.kind = "absent" => file.creds = {}
  /\ stored \subseteq IdsOf(file.creds)
  /\ Unlocked => InMemory(stored)
  /\ \A t \in Threads :
       /\ Saving(t) => InMemory(stored)
       /\ pc[t] \in {"harden", "rename"} => stored \subseteq IdsOf(tmp.creds)
       /\ pc[t] \in {"creating", "unlocking", "changing"} =>
            t \in Callers /\ stored \subseteq IdsOf(job[t].copy)
       /\ pc[t] = "creating" => job[t].copy = {}
(* The id of an addition follows the list on its way to the file.          *)
AddKept ==
  \A t \in Threads : job[t].kind = "add" =>
    /\ t \in Callers
    /\ job[t].id \in IdsOf(creds)
    /\ pc[t] \in {"harden", "rename"} => job[t].id \in IdsOf(tmp.creds)
    /\ pc[t] = "return" => job[t].id \in IdsOf(file.creds)
KeptInv == Kept /\ AddKept

LEMMA NoSaver == Locals /\ Free => \A t \in Threads : ~Saving(t)
  BY NotAThread DEF Locals, Free

LEMMA EnterSave ==
  ASSUME Typed, KeptInv, Free, NEW t \in Threads, NEW kind \in CallKinds,
         NEW id \in Ids \cup {None}, NEW m \in Masters \cup {None}, Save(t, kind, id, m),
         UNCHANGED <<file, tmp>>, stored' \subseteq stored, stored' \subseteq IdsOf(creds'),
         kind = "add" => t \in Callers /\ id \in IdsOf(creds')
  PROVE  KeptInv'
  <1> DEFINE j == Job(kind, id, m, {})
  <1>0. j \in Jobs /\ j.kind = kind /\ j.id = id
    BY JobType
  <1>1. pc' = [pc EXCEPT ![t] = "open"] /\ job' = [job EXCEPT ![t] = j]
    BY DEF Save, Goto
  <1> HIDE DEF j
  <1>2. \A u \in Threads : ~Saving(u)
    BY NoSaver DEF Typed
  <1>3. pc \in [Threads -> Labels] /\ job \in [Threads -> Jobs]
    BY DEF Typed, Locals
  <1>4. \A u \in Threads : pc'[u] \notin {"harden", "rename", "return"}
    BY <1>1, <1>2, <1>3 DEF Saving
  <1>5. \A u \in Threads : pc'[u] \in {"creating", "unlocking", "changing"} =>
                             u \in Callers /\ stored' \subseteq IdsOf(job'[u].copy)
    BY <1>1, <1>3 DEF KeptInv, Kept
  <1>6. Kept'
    BY <1>1, <1>3, <1>4, <1>5 DEF KeptInv, Kept, InMemory
  <1>7. \A u \in Threads : u # t => job'[u].kind # "add"
    BY <1>1, <1>2, <1>3 DEF Typed, Added
  <1>8. AddKept'
    BY <1>0, <1>1, <1>3, <1>4, <1>7 DEF AddKept
  <1> QED BY <1>6, <1>8 DEF KeptInv

LEMMA StayOut ==
  ASSUME Typed, KeptInv, NEW t \in Threads, ~Saving(t),
         NEW label \in Labels \ {"open", "write", "harden", "rename", "return"},
         NEW j, j.kind # "add", Goto(t, label, j),
         UNCHANGED <<file, tmp, stored>>, creds' = creds \/ Free,
         Unlocked' => stored \subseteq IdsOf(creds'),
         label \in {"creating", "unlocking", "changing"} =>
           t \in Callers /\ stored \subseteq IdsOf(j.copy),
         label = "creating" => j.copy = {}
  PROVE  KeptInv'
  <1>1. pc' = [pc EXCEPT ![t] = label] /\ job' = [job EXCEPT ![t] = j]
    BY DEF Goto
  <1>2. pc \in [Threads -> Labels] /\ job \in [Threads -> Jobs]
    BY DEF Typed, Locals
  <1>3. \A u \in Threads : Saving(u)' => Saving(u) /\ u # t /\ pc'[u] = pc[u] /\ creds' = creds
    BY <1>1, <1>2, NoSaver DEF Saving, Typed
  <1>4. Kept'
    <2>1. \A u \in Threads : Saving(u)' => InMemory(stored)'
      BY <1>3 DEF KeptInv, Kept, InMemory
    <2>2. \A u \in Threads : pc'[u] \in {"harden", "rename"} => stored' \subseteq IdsOf(tmp'.creds)
      BY <1>1, <1>2 DEF KeptInv, Kept
    <2>3. \A u \in Threads : pc'[u] \in {"creating", "unlocking", "changing"} =>
                               u \in Callers /\ stored' \subseteq IdsOf(job'[u].copy)
      BY <1>1, <1>2 DEF KeptInv, Kept
    <2>4. \A u \in Threads : pc'[u] = "creating" => job'[u].copy = {}
      BY <1>1, <1>2 DEF KeptInv, Kept
    <2> QED BY <2>1, <2>2, <2>3, <2>4 DEF KeptInv, Kept, InMemory
  <1>5. AddKept'
    <2> SUFFICES ASSUME NEW u \in Threads, job'[u].kind = "add"
                 PROVE  /\ u \in Callers
                        /\ job'[u].id \in IdsOf(creds')
                        /\ pc'[u] \in {"harden", "rename"} => job'[u].id \in IdsOf(tmp'.creds)
                        /\ pc'[u] = "return" => job'[u].id \in IdsOf(file'.creds)
      BY DEF AddKept
    <2>1. u # t /\ job'[u] = job[u] /\ pc'[u] = pc[u]
      BY <1>1, <1>2
    <2>2. Saving(u) /\ creds' = creds
      BY <1>2, <2>1, NoSaver DEF Typed, Added
    <2> QED BY <2>1, <2>2 DEF KeptInv, AddKept
  <1> QED BY <1>4, <1>5 DEF KeptInv

(* No edit drops an id: what an edit leaves of a list holds its ids.       *)
LEMMA IdsOver ==
  ASSUME NEW cs, NEW d
  PROVE  IdsOf(cs) \cup {d.id} = IdsOf(Others(cs, d.id) \cup {d})
  BY DEF IdsOf, Others

LEMMA IdsClear ==
  ASSUME NEW cs \in SUBSET Credential
  PROVE  IdsOf(ClearDefault(cs)) = IdsOf(cs)
  <1>1. ClearDefault(cs) = {Flagged(c, FALSE) : c \in cs}
    BY DEF ClearDefault, Flagged
  <1>2. \A c \in cs : Flagged(c, FALSE).id = c.id
    BY FlagType
  <1> DEFINE Clear(c) == Flagged(c, FALSE)
  <1>3. IdsOf(ClearDefault(cs)) = {Clear(c).id : c \in cs}
    BY <1>1, Zenon DEF IdsOf
  <1>4. \A c \in cs : Clear(c).id = c.id
    BY <1>2
  <1> HIDE DEF Clear
  <1>5. {Clear(c).id : c \in cs} = {c.id : c \in cs}
    BY <1>4
  <1> QED BY <1>3, <1>5 DEF IdsOf

LEMMA IdsPut ==
  ASSUME NEW cs \in SUBSET Credential, NEW d
  PROVE  IdsOf(cs) \cup {d.id} = IdsOf(Put(cs, d))
  <1>1. CASE ~d.isDefault
    BY <1>1, IdsOver DEF Put
  <1>2. CASE d.isDefault
    <2>1. Others(cs, d.id) \in SUBSET Credential
      BY DEF Others
    <2>2. IdsOf(ClearDefault(Others(cs, d.id))) = IdsOf(Others(cs, d.id))
      BY <2>1, IdsClear
    <2>3. IdsOf(Put(cs, d)) = IdsOf(ClearDefault(Others(cs, d.id))) \cup {d.id}
      BY <1>2 DEF Put, IdsOf
    <2>4. IdsOf(Others(cs, d.id)) \cup {d.id} = IdsOf(cs) \cup {d.id}
      BY DEF IdsOf, Others
    <2> QED BY <2>2, <2>3, <2>4
  <1> QED BY <1>1, <1>2

LEMMA IdsMarked ==
  ASSUME NEW cs \in SUBSET Credential, NEW id
  PROVE  IdsOf(Marked(cs, id)) = IdsOf(cs)
  <1>1. Marked(cs, id) = {Flagged(c, c.id = id) : c \in cs}
    BY DEF Marked, Flagged
  <1>2. \A c \in cs : Flagged(c, c.id = id).id = c.id
    BY FlagType
  <1> QED BY <1>1, <1>2 DEF IdsOf

LEMMA IdsStamped ==
  ASSUME NEW cs \in SUBSET Credential, NEW id, NEW now \in 0 .. MaxStamps
  PROVE  IdsOf(Stamped(cs, id, now)) = IdsOf(cs)
  <1> DEFINE S(c) == IF c.id = id THEN [c EXCEPT !.used = now] ELSE c
  <1>1. \A c \in cs : S(c).id = c.id
    BY DEF Credential
  <1>2. Stamped(cs, id, now) = {S(c) : c \in cs}
    BY DEF Stamped
  <1> HIDE DEF S
  <1> QED BY <1>1, <1>2 DEF IdsOf

LEMMA IdsLess ==
  ASSUME NEW cs, NEW c \in cs
  PROVE  IdsOf(cs) \ {c.id} \subseteq IdsOf(cs \ {c})
  BY DEF IdsOf

(* The ids of two lists of records do not depend on the mode of a file.    *)
LEMMA HardenKeeps ==
  ASSUME NEW f \in Files
  PROVE  [f EXCEPT !.private = TRUE].creds = f.creds
  BY DEF Files

LEMMA SaveStepsKept ==
  ASSUME \A s, u \in Callers : s = u,
         Typed, FileInv, KeptInv, NEW t \in Threads, SaveNext(t)
  PROVE  KeptInv'
  <1> USE DEF KeptInv, memVars, diskVars, userVars
  <1>0. /\ pc \in [Threads -> Labels] /\ job \in [Threads -> Jobs] /\ tmp \in Files
        /\ Saving(t) /\ \A u \in Threads : Saving(u) => u = t
    BY OneSaver DEF Typed, Locals, Rest, SaveNext, Saving, SaveOpens, SaveWrites,
       SaveHardens, SaveRenames, SaveReturns, SaveFails
  <1>1. CASE SaveOpens(t)
    BY <1>0, <1>1 DEF SaveOpens, Kept, AddKept, Saving, InMemory
  <1>2. CASE SaveWrites(t)
    <2>1. tmp'.creds = creds
      BY <1>2 DEF SaveWrites, Sealed
    <2>2. Kept'
      BY <1>0, <1>2, <2>1 DEF SaveWrites, Kept, Saving, InMemory
    <2>3. AddKept'
      BY <1>0, <1>2, <2>1 DEF SaveWrites, AddKept, Saving
    <2> QED BY <2>2, <2>3
  <1>3. CASE SaveHardens(t)
    <2>1. tmp'.creds = tmp.creds
      BY <1>0, <1>3, HardenKeeps DEF SaveHardens
    <2>2. Kept'
      BY <1>0, <1>3, <2>1 DEF SaveHardens, Kept, Saving, InMemory
    <2>3. AddKept'
      BY <1>0, <1>3, <2>1 DEF SaveHardens, AddKept, Saving
    <2> QED BY <2>2, <2>3
  <1>4. CASE SaveRenames(t)
    <2>1. file'.kind = "sealed" /\ file'.creds = tmp.creds
      BY <1>4 DEF SaveRenames, FileInv, Staged
    <2>2. stored \subseteq IdsOf(tmp.creds)
      BY <1>0, <1>4 DEF SaveRenames, Kept
    <2>3. Kept'
      BY <1>0, <1>4, <2>1, <2>2 DEF SaveRenames, Kept, Saving, InMemory
    <2>4. AddKept'
      BY <1>0, <1>4, <2>1 DEF SaveRenames, AddKept, Saving
    <2> QED BY <2>3, <2>4
  <1>5. CASE SaveReturns(t)
    <2>1. \A u \in Threads : ~Saving(u)'
      <3>1. pc' = [pc EXCEPT ![t] = "filing"] \/ pc' = [pc EXCEPT ![t] = "idle"]
        BY <1>5 DEF SaveReturns, Goto
      <3> QED BY <1>0, <3>1 DEF Saving
    <2>2. \A u \in Threads : u # t => pc'[u] = pc[u] /\ job'[u] = job[u]
      BY <1>0, <1>5 DEF SaveReturns, Goto
    <2>3. pc'[t] \in {"filing", "idle"} /\ job'[t].kind # "add"
      BY <1>0, <1>5, NoJobType DEF SaveReturns, Goto
    <2>4. stored' \subseteq IdsOf(file.creds) /\ (Unlocked => stored' \subseteq IdsOf(creds))
      BY <1>5 DEF SaveReturns, Kept, AddKept, InMemory
    <2>5. ASSUME NEW u \in Threads, pc'[u] \in {"creating", "unlocking", "changing"}
          PROVE  u \in Callers /\ stored' \subseteq IdsOf(job'[u].copy)
      <3>1. u # t /\ pc'[u] = pc[u] /\ job'[u] = job[u]
        BY <2>2, <2>3, <2>5
      <3>2. u \in Callers /\ stored \subseteq IdsOf(job[u].copy)
        BY <2>5, <3>1 DEF Kept
      <3>3. job[t].kind # "add"
        BY <3>1, <3>2 DEF AddKept
      <3> QED BY <1>5, <3>1, <3>2, <3>3 DEF SaveReturns
    <2>6. Kept'
      BY <1>5, <2>1, <2>2, <2>3, <2>4, <2>5 DEF SaveReturns, Kept, InMemory, Unlocked, Saving
    <2>7. \A u \in Threads : job'[u].kind # "add"
      BY <1>0, <2>2, <2>3 DEF Typed, Added
    <2>8. AddKept'
      BY <2>7 DEF AddKept
    <2> QED BY <2>6, <2>8
  <1>6. CASE SaveFails(t)
    <2>1. pc' = [pc EXCEPT ![t] = "idle"] /\ job' = [job EXCEPT ![t] = NoJob]
      BY <1>6 DEF SaveFails, Goto
    <2>2. \A u \in Threads : ~Saving(u)'
      BY <1>0, <2>1 DEF Saving
    <2>3. Kept'
      BY <1>0, <1>6, <2>1, <2>2 DEF SaveFails, Kept, InMemory, Unlocked, Saving
    <2>4. \A u \in Threads : job'[u].kind # "add"
      BY <1>0, <2>1, NoJobType DEF Typed, Added
    <2> QED BY <2>3, <2>4 DEF AddKept
  <1> QED BY <1>1, <1>2, <1>3, <1>4, <1>5, <1>6 DEF SaveNext

LEMMA MasterStepsKept ==
  ASSUME Typed, KeptInv, NEW t \in Callers, MasterNext(t)
  PROVE  KeptInv'
  <1> USE DEF memVars, diskVars, userVars, Saving
  <1>0. /\ t \in Threads /\ pc \in [Threads -> Labels] /\ job \in [Threads -> Jobs]
        /\ NoJob.kind # "add"
    BY NoJobType DEF Threads, Typed, Locals
  <1>1. ASSUME NEW m \in Masters, CreateChecks(t, m) PROVE KeptInv'
    <2>1. stored = {}
      BY <1>1 DEF CreateChecks, KeptInv, Kept, IdsOf
    <2>2. /\ Job("create", None, m, {}).kind # "add"
          /\ Job("create", None, m, {}).copy = {}
      BY DEF Job
    <2> HIDE DEF Saving
    <2>3. ~Saving(t) /\ "creating" \in Labels \ {"open", "write", "harden", "rename", "return"}
      BY <1>1 DEF CreateChecks, Saving, Labels
    <2> QED BY <1>0, <1>1, <2>1, <2>2, <2>3, StayOut DEF CreateChecks, KeptInv, Kept, InMemory
  <1>2. ASSUME NEW m, NEW kind \in {"unlock", "quiet"}, UnlockReads(t, m, kind) PROVE KeptInv'
    <2>1. /\ Job(kind, None, m, file.creds).kind # "add"
          /\ Job(kind, None, m, file.creds).copy = file.creds
      BY DEF Job
    <2>2. stored \subseteq IdsOf(file.creds)
      BY DEF KeptInv, Kept
    <2>3. ~Saving(t) /\ "unlocking" \in Labels \ {"open", "write", "harden", "rename", "return"}
      BY <1>2 DEF UnlockReads, Labels
    <2> HIDE DEF Saving
    <2> QED BY <1>0, <1>2, <2>1, <2>2, <2>3, StayOut DEF UnlockReads, KeptInv, Kept, InMemory, Unlocked
  <1>3. ASSUME NEW old \in Masters, NEW new \in Masters, ChangeReads(t, old, new) PROVE KeptInv'
    <2>1. /\ Job("change", None, new, file.creds).kind # "add"
          /\ Job("change", None, new, file.creds).copy = file.creds
      BY DEF Job
    <2>2. stored \subseteq IdsOf(file.creds) /\ (Unlocked => InMemory(stored))
      BY DEF KeptInv, Kept
    <2>3. ~Saving(t) /\ "changing" \in Labels \ {"open", "write", "harden", "rename", "return"}
      BY <1>3 DEF ChangeReads, Labels
    <2> HIDE DEF Saving
    <2> QED BY <1>0, <1>3, <2>1, <2>2, <2>3, StayOut DEF ChangeReads, InMemory, Unlocked
  <1>4. CASE Create(t)
    <2>1. stored = {}
      BY <1>0, <1>4 DEF Create, KeptInv, Kept, IdsOf
    <2>2. job[t].master \in Masters \cup {None} /\ "create" \in CallKinds
      BY <1>0 DEF Jobs, CallKinds
    <2> HIDE DEF Saving
    <2> QED BY <1>0, <1>4, <2>1, <2>2, EnterSave DEF Create
  <1>5. CASE ChangeInstalls(t)
    <2>1. stored \subseteq IdsOf(creds')
      BY <1>0, <1>5 DEF ChangeInstalls, KeptInv, Kept
    <2>2. job[t].master \in Masters \cup {None} /\ "change" \in CallKinds
      BY <1>0 DEF Jobs, CallKinds
    <2> HIDE DEF Saving
    <2> QED BY <1>0, <1>5, <2>1, <2>2, EnterSave DEF ChangeInstalls
  <1>6. CASE UnlockInstalls(t)
    <2>1. stored \subseteq IdsOf(creds')
      BY <1>0, <1>6 DEF UnlockInstalls, KeptInv, Kept
    <2>2. ~Saving(t) /\ {"filing", "idle"} \subseteq Labels \ {"open", "write", "harden", "rename", "return"}
      BY <1>6 DEF UnlockInstalls, Labels
    <2>3. job[t].kind # "add"
      BY <1>0, <2>2 DEF Typed, Added
    <2>4. [job[t] EXCEPT !.copy = {}].kind = job[t].kind
      BY <1>0 DEF Jobs
    <2> HIDE DEF Saving
    <2> QED BY <1>0, <1>6, <2>1, <2>2, <2>3, <2>4, StayOut DEF UnlockInstalls
  <1>7. CASE Lock(t)
    <2>1. \A u \in Threads : ~Saving(u)
      BY <1>7, NoSaver DEF Lock, Typed
    <2>2. \A u \in Threads : job[u].kind # "add"
      BY <2>1 DEF Typed, Added
    <2> QED BY <1>7, <2>1, <2>2 DEF Lock, KeptInv, Kept, AddKept, Unlocked
  <1>8. CASE KeyringSet(t) \/ KeyringLeft(t) \/ KeyringFails(t)
    <2>1. ~Saving(t) /\ "idle" \in Labels \ {"open", "write", "harden", "rename", "return"}
      BY <1>8 DEF KeyringSet, KeyringLeft, KeyringFails, Labels
    <2>2. Goto(t, "idle", NoJob) /\ UNCHANGED <<memVars, lock, diskVars, stored>>
      BY <1>8 DEF KeyringSet, KeyringLeft, KeyringFails
    <2> HIDE DEF Saving
    <2> QED BY <1>0, <2>1, <2>2, StayOut DEF KeptInv, Kept, InMemory, Unlocked
  <1>9. CASE KeyringClear(t)
    BY <1>9 DEF KeyringClear, KeptInv, Kept, AddKept, InMemory, Unlocked
  <1> QED BY <1>1, <1>2, <1>3, <1>4, <1>5, <1>6, <1>7, <1>8, <1>9
       DEF MasterNext, UnlockTyped, UnlockQuiet

LEMMA DialStepsKept ==
  ASSUME Typed, KeptInv, NEW t \in Threads, DialNext(t)
  PROVE  KeptInv'
  <1> USE DEF memVars, diskVars, userVars
  <1>0. /\ pc \in [Threads -> Labels] /\ job \in [Threads -> Jobs]
        /\ creds \in SUBSET Credential /\ Now \in 0 .. MaxStamps /\ NoJob.kind # "add"
        /\ {"stamping", "idle"} \subseteq Labels \ {"open", "write", "harden", "rename", "return"}
    BY NowType, NoJobType DEF Typed, Rest, Locals, Labels
  <1>1. ASSUME NEW c \in creds, Resolve(t, c) PROVE KeptInv'
    <2>1. Job("stamp", c.id, None, {}).kind # "add" /\ ~Saving(t)
      BY <1>1 DEF Job, Resolve, Ready, Saving
    <2> QED BY <1>0, <1>1, <2>1, StayOut DEF Resolve, KeptInv, Kept, InMemory, Unlocked
  <1>2. CASE MarkUsed(t)
    <2>1. CASE Unlocked /\ job[t].id \in IdsOf(creds)
      <3>1. creds' = Stamped(creds, job[t].id, Now)
        BY <1>2, <2>1 DEF MarkUsed, Stamped
      <3>2. IdsOf(creds') = IdsOf(creds)
        BY <1>0, <3>1, IdsStamped
      <3>3. stored \subseteq IdsOf(creds)
        BY <2>1 DEF KeptInv, Kept, InMemory
      <3>4. job[t].id \in Ids \cup {None} /\ "stamp" \in CallKinds
        BY <1>0 DEF Jobs, CallKinds
      <3> QED BY <1>2, <2>1, <3>2, <3>3, <3>4, EnterSave DEF MarkUsed
    <2>2. CASE ~(Unlocked /\ job[t].id \in IdsOf(creds))
      <3>1. ~Saving(t)
        BY <1>2 DEF MarkUsed, Saving
      <3> QED BY <1>0, <1>2, <2>2, <3>1, StayOut DEF MarkUsed, KeptInv, Kept, InMemory, Unlocked
    <2> QED BY <2>1, <2>2
  <1> QED BY <1>1, <1>2 DEF DialNext

LEMMA EditStepsKept ==
  ASSUME Typed, KeptInv, NEW t \in Callers, EditNext(t)
  PROVE  KeptInv'
  <1> USE DEF memVars, diskVars, userVars
  <1>0. /\ t \in Threads /\ pc \in [Threads -> Labels] /\ job \in [Threads -> Jobs]
        /\ creds \in SUBSET Credential /\ stored \subseteq issued /\ NoJob.kind # "add"
        /\ {"updating", "idle"} \subseteq Labels \ {"open", "write", "harden", "rename", "return"}
        /\ {"add", "edit", "store", "rename"} \subseteq CallKinds
    BY NoJobType DEF Threads, Typed, Rest, Locals, Labels, CallKinds
  <1>1. Unlocked => stored \subseteq IdsOf(creds)
    BY DEF KeptInv, Kept, InMemory
  <1>2. ASSUME NEW input \in Inputs, NEW id \in Ids, Add(t, id, input) PROVE KeptInv'
    <2> DEFINE d == Made(id, input, 0)
    <2>1. d.id = id /\ creds' = Put(creds, d)
      BY <1>2 DEF Add, Made
    <2> HIDE DEF d
    <2>2. IdsOf(creds') = IdsOf(creds) \cup {id}
      BY <1>0, <2>1, IdsPut
    <2> QED BY <1>0, <1>1, <1>2, <2>2, EnterSave DEF Add, Ready
  <1>3. ASSUME NEW input \in Inputs, Update(t, input) PROVE KeptInv'
    <2>1. PICK c \in Wanted(t, input) :
             IF Unlocked /\ c.id \in IdsOf(creds) /\ NameFree(creds, c.name, c.id)
               THEN creds' = Put(creds, c) /\ Save(t, job[t].kind, c.id, None)
               ELSE Goto(t, "idle", NoJob) /\ UNCHANGED <<creds, lock>>
      BY <1>3 DEF Update
    <2>2. /\ pc[t] = "updating" /\ Free /\ ~Saving(t)
          /\ UNCHANGED <<key, diskVars, keyring, clock, userVars, failures, crashes>>
      BY <1>3 DEF Update, Saving
    <2>3. CASE Unlocked /\ c.id \in IdsOf(creds) /\ NameFree(creds, c.name, c.id)
      <3>1. IdsOf(creds') = IdsOf(creds) \cup {c.id}
        BY <1>0, <2>1, <2>3, IdsPut
      <3>2. job[t].kind \in CallKinds /\ job[t].kind # "add"
        BY <1>0, <2>2 DEF Jobs, Typed, Added
      <3>3. c.id \in Ids \cup {None}
        BY <1>0, <2>3 DEF IdsOf, Credential
      <3> QED BY <1>0, <1>1, <2>1, <2>2, <2>3, <3>1, <3>2, <3>3, EnterSave
    <2>4. CASE ~(Unlocked /\ c.id \in IdsOf(creds) /\ NameFree(creds, c.name, c.id))
      BY <1>0, <1>1, <2>1, <2>2, <2>4, StayOut DEF Unlocked
    <2> QED BY <2>3, <2>4
  <1>4. ASSUME NEW c \in creds, NEW input \in Inputs, UpdateMetadata(t, c, input) PROVE KeptInv'
    <2> DEFINE d == Merge(c, input)
    <2>1. d.id = c.id /\ c.id \in IdsOf(creds) /\ c.id \in Ids
      BY <1>0 DEF Merge, Credential, IdsOf
    <2>2. creds' = Put(creds, d) \/ creds' = Others(creds, c.id) \cup {d}
      BY <1>4 DEF UpdateMetadata
    <2> HIDE DEF d
    <2>3. IdsOf(Put(creds, d)) = IdsOf(creds) \cup {d.id}
      BY <1>0, IdsPut
    <2>4. IdsOf(Others(creds, d.id) \cup {d}) = IdsOf(creds) \cup {d.id}
      BY IdsOver
    <2>5. IdsOf(creds') = IdsOf(creds)
      BY <2>1, <2>2, <2>3, <2>4
    <2> QED BY <1>0, <1>1, <1>4, <2>1, <2>5, EnterSave DEF UpdateMetadata, Ready
  <1>5. ASSUME NEW c \in creds, NEW kind \in {"store", "rename"}, GetForUpdate(t, kind, c)
        PROVE  KeptInv'
    <2>1. Job(kind, c.id, None, {c}).kind # "add" /\ ~Saving(t)
      BY <1>5 DEF Job, GetForUpdate, Ready, Saving
    <2> QED BY <1>0, <1>1, <1>5, <2>1, StayOut DEF GetForUpdate, Unlocked
  <1>6. ASSUME NEW c \in creds, Delete(t, c) PROVE KeptInv'
    <2>1. stored' \subseteq stored /\ stored' \subseteq IdsOf(creds') /\ c.id \in Ids
      BY <1>0, <1>1, <1>6, IdsLess DEF Delete, Ready, Credential
    <2> QED BY <1>0, <1>6, <2>1, EnterSave DEF Delete, Ready
  <1>7. ASSUME NEW c \in creds, SetDisabled(t, c, ~c.disabled) PROVE KeptInv'
    <2> DEFINE d == [c EXCEPT !.disabled = ~c.disabled]
    <2>1. d.id = c.id /\ c.id \in IdsOf(creds) /\ c.id \in Ids
      BY <1>0 DEF Credential, IdsOf
    <2>2. creds' = Others(creds, c.id) \cup {d}
      BY <1>7 DEF SetDisabled
    <2> HIDE DEF d
    <2>3. IdsOf(creds') = IdsOf(creds)
      BY <2>1, <2>2, IdsOver
    <2> QED BY <1>0, <1>1, <1>7, <2>1, <2>3, EnterSave DEF SetDisabled, Ready
  <1>8. ASSUME NEW id \in IdsOf(creds) \cup Strays, SetDefault(t, id) PROVE KeptInv'
    <2>1. IdsOf(creds') = IdsOf(creds)
      BY <1>0, <1>8, IdsMarked DEF SetDefault
    <2>2. CASE id \in IdsOf(creds)
      <3>1. id \in Ids
        BY <1>0, <2>2 DEF IdsOf, Credential
      <3> QED BY <1>0, <1>1, <1>8, <2>1, <2>2, <3>1, EnterSave DEF SetDefault, Ready
    <2>3. CASE id \notin IdsOf(creds)
      <3>1. \A u \in Threads : ~Saving(u)
        BY <1>8, NoSaver DEF SetDefault, Ready, Typed
      <3>2. \A u \in Threads : job[u].kind # "add"
        BY <3>1 DEF Typed, Added
      <3> QED BY <1>8, <2>1, <2>3, <3>1, <3>2
           DEF SetDefault, KeptInv, Kept, AddKept, InMemory, Unlocked, Saving
    <2> QED BY <2>2, <2>3
  <1>9. CASE UnsetDefault(t)
    <2>1. IdsOf(creds') = IdsOf(creds)
      BY <1>0, <1>9, IdsClear DEF UnsetDefault
    <2> QED BY <1>0, <1>1, <1>9, <2>1, EnterSave DEF UnsetDefault, Ready
  <1> QED BY <1>2, <1>3, <1>4, <1>5, <1>6, <1>7, <1>8, <1>9 DEF EditNext, addCredential, editCredential, renameCredential, deleteCredential,
             toggleDisabled, makeDefault

LEMMA NextKept ==
  (\A s, t \in Callers : s = t) /\ Typed /\ FileInv /\ KeptInv /\ [Next]_vars => KeptInv'
  <1> SUFFICES ASSUME \A s, t \in Callers : s = t, Typed, FileInv, KeptInv, [Next]_vars
               PROVE  KeptInv'
    OBVIOUS
  <1>1. CASE UNCHANGED vars
    BY <1>1 DEF KeptInv, Kept, AddKept, InMemory, Unlocked, Saving, vars
  <1>2. CASE Crash
    BY <1>2, NoJobType DEF Crash, KeptInv, Kept, AddKept, InMemory, Unlocked, Saving, diskVars
  <1>3. ASSUME NEW t \in Threads, SaveNext(t) \/ DialNext(t) PROVE KeptInv'
    BY <1>3, SaveStepsKept, DialStepsKept
  <1>4. ASSUME NEW t \in Callers, MasterNext(t) \/ EditNext(t) PROVE KeptInv'
    BY <1>4, MasterStepsKept, EditStepsKept
  <1> QED BY <1>1, <1>2, <1>3, <1>4 DEF Next

(* With one thread making the vault calls, as the application does, a      *)
(* credential added and reported saved is in the file until its deletion   *)
(* is asked for: no failed save, change of master, re-lock, dial or crash  *)
(* loses it (saveLocked, ChangeMasterPassword).                            *)
THEOREM StoredStay ==
  ASSUME \A s, t \in Callers : s = t
  PROVE  Spec => []StoredStays
  <1>1. Init => FileInv
    BY DEF Init, FileInv, Staged, FileIsWhole, NoFile
  <1>2. Init => KeptInv
    BY NoJobType DEF Init, KeptInv, Kept, AddKept, NoFile, Unlocked, Saving
  <1>3. Typed /\ FileInv /\ KeptInv /\ [Next]_vars => KeptInv'
    BY NextKept
  <1>4. KeptInv => StoredStays
    BY DEF KeptInv, Kept, StoredStays
  <1> QED BY <1>1, <1>2, <1>3, <1>4, NextFile, AlwaysTyped, PTL DEF Spec
-----------------------------------------------------------------------------
(* File, memory and keyring, while no write has failed.  AsFiled: memory   *)
(* is what the file holds.  CallPlace and SavePlace say what a thread      *)
(* inside a call may count on; the rest is what holds between calls, what  *)
(* a person was told and what the keyring holds.                           *)
Ruling  == {"create", "change"}
AsFiled == file.kind = "sealed" /\ file.master = key /\ file.creds = creds

CallPlace(t) ==
  /\ pc[t] \in {"creating", "unlocking", "changing", "filing", "updating"} => t \in Callers
  /\ pc[t] = "creating" => ~Unlocked /\ file.kind = "absent" /\ job[t].master \in Masters
  /\ pc[t] = "unlocking" => /\ ~Unlocked /\ file.kind = "sealed" /\ job[t].master \in Masters
                            /\ file.master = job[t].master /\ file.creds = job[t].copy
  /\ pc[t] = "changing" => job[t].kind = "change" /\ job[t].master \in Masters /\ Unlocked
  /\ pc[t] = "filing" => file.kind = "sealed" /\ file.master = job[t].master
  /\ pc[t] = "updating" => job[t].kind \in {"store", "rename"}

SavePlace(t) ==
  /\ Saving(t) => Unlocked
  /\ Saving(t) /\ job[t].kind \in Ruling => t \in Callers /\ key = job[t].master
  /\ Saving(t) /\ job[t].kind \notin Ruling =>
       told = key /\ file.kind = "sealed" /\ file.master = key
  /\ Saving(t) /\ pc[t] # "return" =>
       file.kind = IF job[t].kind = "create" THEN "absent" ELSE "sealed"
  /\ pc[t] \in {"harden", "rename"} =>
       tmp.kind = "sealed" /\ tmp.master = key /\ tmp.creds = creds
  /\ pc[t] = "return" => AsFiled

AtRest == Free /\ Unlocked => AsFiled /\ told = key
KeyringFiled ==
  crashes = 0 /\ keyring # None =>
    file.kind = "sealed" /\ (keyring = file.master \/ Changing({"return", "filing"}, {"change"}))
FollowInv ==
  /\ AtRest /\ OpensAsTold /\ KeyringFiled
  /\ \A t \in Threads : CallPlace(t) /\ SavePlace(t)

Single == \A s, t \in Callers : s = t

LEMMA Threaded ==
  ASSUME Typed
  PROVE  pc \in [Threads -> Labels] /\ job \in [Threads -> Jobs]
  BY DEF Typed, Locals

(* Who waits to file a changed master is one of the threads a step leaves. *)
LEMMA StillChanging ==
  ASSUME NEW t \in Threads, NEW stages, NEW kinds, Changing(stages, kinds),
         pc[t] \notin stages \/ job[t].kind \notin kinds,
         \A u \in Threads : u # t => pc'[u] = pc[u] /\ job'[u] = job[u]
  PROVE  Changing(stages, kinds)'
  <1>1. PICK u \in Threads : pc[u] \in stages /\ job[u].kind \in kinds
    BY DEF Changing
  <1>2. u # t
    BY <1>1
  <1>3. pc'[u] \in stages /\ job'[u].kind \in kinds
    BY <1>1, <1>2
  <1> QED BY <1>3 DEF Changing

(* An edit or a stamp of an unlocked vault at rest starts its save.        *)
LEMMA FollowEnter ==
  ASSUME Typed, FollowInv, Free, Unlocked, NEW t \in Threads,
         NEW kind \in CallKinds \ Ruling, NEW id \in Ids \cup {None},
         pc[t] \in {"idle", "updating", "stamping"}, Save(t, kind, id, None),
         UNCHANGED <<key, file, tmp, told, keyring, crashes>>
  PROVE  FollowInv'
  <1> DEFINE j == Job(kind, id, None, {})
  <1>0. j.kind = kind
    BY DEF Job
  <1>1. pc' = [pc EXCEPT ![t] = "open"] /\ job' = [job EXCEPT ![t] = j] /\ lock' = t
    BY DEF Save, Goto
  <1> HIDE DEF j
  <1>2. \A u \in Threads : ~Saving(u)
    BY NoSaver DEF Typed
  <1>3. pc'[t] = "open" /\ job'[t].kind = kind
    BY <1>0, <1>1, Threaded
  <1>4. \A u \in Threads : u # t => pc'[u] = pc[u] /\ job'[u] = job[u]
    BY <1>1, Threaded
  <1>5. AtRest'
    BY <1>1, NotAThread DEF AtRest, Free
  <1>6. OpensAsTold'
    BY <1>2 DEF OpensAsTold, FollowInv, Changing, Saving
  <1>7. Changing({"return", "filing"}, {"change"}) => Changing({"return", "filing"}, {"change"})'
    BY <1>4, StillChanging
  <1>8. KeyringFiled'
    BY <1>7 DEF KeyringFiled, FollowInv
  <1>9. ASSUME NEW u \in Threads PROVE CallPlace(u)'
    <2>1. CASE u = t
      BY <1>3, <2>1 DEF CallPlace
    <2>2. CASE u # t
      BY <1>4, <2>2 DEF CallPlace, FollowInv, Unlocked
    <2> QED BY <2>1, <2>2
  <1>10. ASSUME NEW u \in Threads PROVE SavePlace(u)'
    <2>1. CASE u = t
      <3>1. AsFiled /\ told = key
        BY DEF FollowInv, AtRest
      <3> QED BY <1>3, <2>1, <3>1 DEF SavePlace, Saving, Unlocked, AsFiled, Ruling
    <2>2. CASE u # t
      BY <1>2, <1>4, <2>2 DEF SavePlace, Saving
    <2> QED BY <2>1, <2>2
  <1> QED BY <1>5, <1>6, <1>8, <1>9, <1>10 DEF FollowInv

(* A thread goes on without a save and without a change of what is kept.   *)
LEMMA FollowStay ==
  ASSUME Typed, FollowInv, NEW t \in Threads, ~Saving(t),
         NEW label \in Labels \ {"open", "write", "harden", "rename", "return"},
         NEW j, Goto(t, label, j), CallPlace(t)',
         pc[t] = "filing" /\ job[t].kind = "change" => keyring = None,
         UNCHANGED <<key, creds, lock, file, tmp, told, keyring, crashes>>
  PROVE  FollowInv'
  <1>1. pc' = [pc EXCEPT ![t] = label] /\ job' = [job EXCEPT ![t] = j]
    BY DEF Goto
  <1>2. ~Saving(t)' /\ pc[t] # "return"
    BY <1>1, Threaded DEF Saving
  <1>3. \A u \in Threads : u # t => pc'[u] = pc[u] /\ job'[u] = job[u]
    BY <1>1, Threaded
  <1>4. AtRest'
    BY DEF AtRest, FollowInv, Free, Unlocked, AsFiled
  <1>5. OpensAsTold'
    <2>1. Changing({"return"}, {"create", "change"}) => Changing({"return"}, {"create", "change"})'
      BY <1>2, <1>3, StillChanging
    <2> QED BY <2>1 DEF OpensAsTold, FollowInv
  <1>6. KeyringFiled'
    <2>1. CASE pc[t] \notin {"return", "filing"} \/ job[t].kind \notin {"change"}
      <3>1. Changing({"return", "filing"}, {"change"}) => Changing({"return", "filing"}, {"change"})'
        BY <1>3, <2>1, StillChanging
      <3> QED BY <3>1 DEF KeyringFiled, FollowInv
    <2>2. CASE keyring = None
      BY <2>2 DEF KeyringFiled
    <2> QED BY <1>2, <2>1, <2>2
  <1>7. ASSUME NEW u \in Threads PROVE CallPlace(u)'
    BY <1>3 DEF CallPlace, FollowInv, Unlocked
  <1>8. ASSUME NEW u \in Threads PROVE SavePlace(u)'
    <2>1. CASE u = t
      BY <1>2, <2>1 DEF SavePlace, Saving
    <2>2. CASE u # t
      BY <1>3, <2>2 DEF SavePlace, FollowInv, Saving, Unlocked, AsFiled
    <2> QED BY <2>1, <2>2
  <1> QED BY <1>4, <1>5, <1>6, <1>7, <1>8 DEF FollowInv

LEMMA SaveStepsFollow ==
  ASSUME Typed, Single, FollowInv, NEW t \in Threads, SaveNext(t), ~SaveFails(t)
  PROVE  FollowInv'
  <1> USE DEF memVars, diskVars, userVars
  <1>0. /\ Saving(t) /\ \A u \in Threads : Saving(u) => u = t
        /\ lock = t /\ pc \in [Threads -> Labels] /\ job \in [Threads -> Jobs]
        /\ tmp \in Files
    BY OneSaver, Threaded DEF Typed, Locals, Rest, SaveNext, Saving, SaveOpens, SaveWrites,
       SaveHardens, SaveRenames, SaveReturns, SaveFails
  <1>1. CASE SaveOpens(t) \/ SaveWrites(t) \/ SaveHardens(t)
    <2>1. UNCHANGED <<key, creds, lock, file, told, keyring, job, crashes>>
      BY <1>1 DEF SaveOpens, SaveWrites, SaveHardens
    <2>2. /\ pc[t] \in {"open", "write", "harden"} /\ pc'[t] \in {"write", "harden", "rename"}
          /\ \A u \in Threads : u # t => pc'[u] = pc[u]
      BY <1>0, <1>1 DEF SaveOpens, SaveWrites, SaveHardens
    <2>3. AtRest' /\ Unlocked' = Unlocked
      BY <2>1 DEF AtRest, FollowInv, Free, Unlocked, AsFiled
    <2>4. OpensAsTold'
      <3>1. Changing({"return"}, {"create", "change"}) => Changing({"return"}, {"create", "change"})'
        BY <2>1, <2>2, StillChanging
      <3> QED BY <2>1, <3>1 DEF OpensAsTold, FollowInv
    <2>5. KeyringFiled'
      <3>1. Changing({"return", "filing"}, {"change"}) => Changing({"return", "filing"}, {"change"})'
        BY <2>1, <2>2, StillChanging
      <3> QED BY <2>1, <3>1 DEF KeyringFiled, FollowInv
    <2>6. ASSUME NEW u \in Threads PROVE CallPlace(u)'
      BY <2>1, <2>2, <2>3 DEF CallPlace, FollowInv
    <2>7. pc'[t] \in {"harden", "rename"} => tmp'.kind = "sealed" /\ tmp'.master = key /\ tmp'.creds = creds
      <3>1. CASE SaveOpens(t)
        BY <1>0, <3>1 DEF SaveOpens
      <3>2. CASE SaveWrites(t)
        BY <3>2 DEF SaveWrites, Sealed
      <3>3. CASE SaveHardens(t)
        <4>1. tmp.kind = "sealed" /\ tmp.master = key /\ tmp.creds = creds
          BY <3>3 DEF SaveHardens, FollowInv, SavePlace
        <4> QED BY <1>0, <3>3, <4>1 DEF SaveHardens, Files
      <3> QED BY <1>1, <3>1, <3>2, <3>3
    <2>8. ASSUME NEW u \in Threads PROVE SavePlace(u)'
      <3>1. CASE u = t
        <4>1. SavePlace(t)
          BY DEF FollowInv
        <4> QED BY <2>1, <2>2, <2>3, <2>7, <3>1, <4>1 DEF SavePlace, Saving
      <3>2. CASE u # t
        BY <1>0, <2>2, <3>2 DEF SavePlace, Saving
      <3> QED BY <3>1, <3>2
    <2> QED BY <2>3, <2>4, <2>5, <2>6, <2>8 DEF FollowInv
  <1>2. CASE SaveRenames(t)
    <2>1. UNCHANGED <<key, creds, lock, told, keyring, job, crashes>> /\ file' = tmp
      BY <1>2 DEF SaveRenames
    <2>2. /\ pc[t] = "rename" /\ pc'[t] = "return" /\ \A u \in Threads : u # t => pc'[u] = pc[u]
      BY <1>0, <1>2 DEF SaveRenames
    <2>3. tmp.kind = "sealed" /\ tmp.master = key /\ tmp.creds = creds /\ Unlocked
      BY <1>0, <2>2 DEF FollowInv, SavePlace
    <2>4. AsFiled' /\ Unlocked' = Unlocked
      BY <2>1, <2>3 DEF AsFiled, Unlocked
    <2>5. AtRest'
      BY <2>4, <1>0, <2>1, NotAThread DEF AtRest, Free
    <2>6. CASE job[t].kind \in Ruling
      <3>1. t \in Callers
        BY <1>0, <2>6 DEF FollowInv, SavePlace
      <3>2. OpensAsTold'
        <4>1. Changing({"return"}, {"create", "change"})'
          BY <2>1, <2>2, <2>6 DEF Changing, Ruling
        <4> QED BY <4>1 DEF OpensAsTold
      <3>3. KeyringFiled'
        <4>1. CASE job[t].kind = "change"
          <5>1. Changing({"return", "filing"}, {"change"})'
            BY <2>1, <2>2, <4>1 DEF Changing
          <5> QED BY <2>1, <2>3, <5>1 DEF KeyringFiled
        <4>2. CASE job[t].kind = "create"
          <5>1. file.kind = "absent"
            BY <1>0, <2>2, <4>2 DEF FollowInv, SavePlace
          <5> QED BY <2>1, <5>1 DEF KeyringFiled, FollowInv
        <4> QED BY <2>6, <4>1, <4>2 DEF Ruling
      <3>4. ASSUME NEW u \in Threads PROVE CallPlace(u)'
        <4>1. CASE u = t
          BY <2>2, <4>1 DEF CallPlace
        <4>2. CASE u # t
          <5>1. pc[u] \notin {"creating", "unlocking", "changing", "filing", "updating"}
            BY <3>1, <4>2 DEF Single, FollowInv, CallPlace
          <5> QED BY <2>2, <4>2, <5>1 DEF CallPlace
        <4> QED BY <4>1, <4>2
      <3>5. ASSUME NEW u \in Threads PROVE SavePlace(u)'
        <4>1. CASE u = t
          <5>1. SavePlace(t)
            BY DEF FollowInv
          <5> QED BY <1>0, <2>1, <2>2, <2>4, <2>6, <4>1, <5>1 DEF SavePlace, Saving
        <4>2. CASE u # t
          BY <1>0, <2>2, <4>2 DEF SavePlace, Saving
        <4> QED BY <4>1, <4>2
      <3> QED BY <2>5, <3>2, <3>3, <3>4, <3>5 DEF FollowInv
    <2>7. CASE job[t].kind \notin Ruling
      <3>1. told = key /\ file.kind = "sealed" /\ file.master = key /\ file'.kind = "sealed"
            /\ file'.master = key
        BY <1>0, <2>1, <2>3, <2>7 DEF FollowInv, SavePlace
      <3>2. OpensAsTold'
        BY <2>1, <3>1 DEF OpensAsTold
      <3>3. KeyringFiled'
        <4>1. Changing({"return", "filing"}, {"change"}) => Changing({"return", "filing"}, {"change"})'
          BY <2>1, <2>2, StillChanging
        <4> QED BY <2>1, <3>1, <4>1 DEF KeyringFiled, FollowInv
      <3>4. ASSUME NEW u \in Threads PROVE CallPlace(u)'
        <4>1. CASE u = t
          BY <2>2, <4>1 DEF CallPlace
        <4>2. CASE u # t
          <5>1. CallPlace(u) /\ pc'[u] = pc[u] /\ job'[u] = job[u]
            BY <2>1, <2>2, <4>2 DEF FollowInv
          <5> QED BY <2>3, <2>4, <3>1, <5>1 DEF CallPlace
        <4> QED BY <4>1, <4>2
      <3>5. ASSUME NEW u \in Threads PROVE SavePlace(u)'
        <4>1. CASE u = t
          BY <1>0, <2>1, <2>2, <2>3, <2>4, <2>7, <3>1, <4>1 DEF SavePlace, Saving
        <4>2. CASE u # t
          BY <1>0, <2>2, <4>2 DEF SavePlace, Saving
        <4> QED BY <4>1, <4>2
      <3> QED BY <2>5, <3>2, <3>3, <3>4, <3>5 DEF FollowInv
    <2> QED BY <2>6, <2>7
  <1>3. CASE SaveReturns(t)
    <2>1. UNCHANGED <<key, creds, file, tmp, keyring, crashes>> /\ pc[t] = "return" /\ lock' = None
      BY <1>3 DEF SaveReturns
    <2>2. \A u \in Threads : u # t => pc'[u] = pc[u] /\ job'[u] = job[u]
      BY <1>0, <1>3 DEF SaveReturns, Goto
    <2>3. AsFiled /\ Unlocked /\ AsFiled' /\ Unlocked'
      BY <1>0, <2>1 DEF FollowInv, SavePlace, AsFiled, Unlocked
    <2>4. told' = key
      BY <1>0, <1>3 DEF SaveReturns, FollowInv, SavePlace, Ruling
    <2>5. AtRest' /\ OpensAsTold'
      BY <2>1, <2>3, <2>4 DEF AtRest, OpensAsTold, AsFiled
    <2>6. ASSUME NEW u \in Threads PROVE SavePlace(u)'
      <3>1. ~Saving(u)'
        <4>1. CASE u = t
          BY <1>0, <1>3, <4>1 DEF SaveReturns, Goto, Saving
        <4>2. CASE u # t
          BY <1>0, <2>2, <4>2 DEF Saving
        <4> QED BY <4>1, <4>2
      <3> QED BY <3>1 DEF SavePlace, Saving
    <2>7. CASE job[t].kind \in Ruling
      <3>1. pc'[t] = "filing" /\ job'[t] = job[t] /\ t \in Callers /\ job[t].master = key
        BY <1>0, <1>3, <2>7 DEF SaveReturns, FollowInv, SavePlace, Ruling
      <3>2. ASSUME NEW u \in Threads PROVE CallPlace(u)'
        <4>1. CASE u = t
          BY <2>1, <2>3, <3>1, <4>1 DEF CallPlace, AsFiled
        <4>2. CASE u # t
          BY <2>1, <2>2, <2>3, <4>2 DEF CallPlace, FollowInv
        <4> QED BY <4>1, <4>2
      <3>3. KeyringFiled'
        <4>1. CASE job[t].kind = "change"
          <5>1. Changing({"return", "filing"}, {"change"})'
            BY <3>1, <4>1 DEF Changing
          <5> QED BY <2>1, <2>3, <5>1 DEF KeyringFiled, AsFiled
        <4>2. CASE job[t].kind # "change"
          <5>1. Changing({"return", "filing"}, {"change"}) => Changing({"return", "filing"}, {"change"})'
            BY <2>2, <4>2, StillChanging
          <5> QED BY <2>1, <5>1 DEF KeyringFiled, FollowInv
        <4> QED BY <4>1, <4>2
      <3> QED BY <2>5, <2>6, <3>2, <3>3 DEF FollowInv
    <2>8. CASE job[t].kind \notin Ruling
      <3>1. pc'[t] = "idle"
        BY <1>0, <1>3, <2>8 DEF SaveReturns, Goto, Ruling
      <3>2. ASSUME NEW u \in Threads PROVE CallPlace(u)'
        <4>1. CASE u = t
          BY <3>1, <4>1 DEF CallPlace
        <4>2. CASE u # t
          BY <2>1, <2>2, <2>3, <4>2 DEF CallPlace, FollowInv
        <4> QED BY <4>1, <4>2
      <3>3. Changing({"return", "filing"}, {"change"}) => Changing({"return", "filing"}, {"change"})'
        BY <2>2, <2>8, StillChanging DEF Ruling
      <3>4. KeyringFiled'
        BY <2>1, <3>3 DEF KeyringFiled, FollowInv
      <3> QED BY <2>5, <2>6, <3>2, <3>4 DEF FollowInv
    <2> QED BY <2>7, <2>8
  <1> QED BY <1>1, <1>2, <1>3 DEF SaveNext

LEMMA DialStepsFollow ==
  ASSUME Typed, FollowInv, NEW t \in Threads, DialNext(t)
  PROVE  FollowInv'
  <1> USE DEF memVars, diskVars, userVars
  <1>0. /\ pc \in [Threads -> Labels] /\ job \in [Threads -> Jobs]
        /\ {"stamping", "idle"} \subseteq Labels \ {"open", "write", "harden", "rename", "return"}
    BY Threaded DEF Labels
  <1>1. ASSUME NEW c \in creds, Resolve(t, c) PROVE FollowInv'
    <2>1. pc'[t] = "stamping" /\ ~Saving(t) /\ pc[t] # "filing"
      BY <1>0, <1>1 DEF Resolve, Ready, Goto, Saving
    <2>2. CallPlace(t)'
      BY <2>1 DEF CallPlace
    <2> QED BY <1>0, <1>1, <2>1, <2>2, FollowStay DEF Resolve
  <1>2. CASE MarkUsed(t)
    <2>1. ~Saving(t) /\ pc[t] = "stamping" /\ Free
      BY <1>2 DEF MarkUsed, Saving
    <2>2. CASE Unlocked /\ job[t].id \in IdsOf(creds)
      <3>1. job[t].id \in Ids \cup {None} /\ "stamp" \in CallKinds \ Ruling
        BY <1>0 DEF Jobs, CallKinds, Ruling
      <3> QED BY <1>2, <2>1, <2>2, <3>1, FollowEnter DEF MarkUsed
    <2>3. CASE ~(Unlocked /\ job[t].id \in IdsOf(creds))
      <3>1. Goto(t, "idle", NoJob) /\ UNCHANGED <<key, creds, lock, file, tmp, told, keyring, crashes>>
        BY <1>2, <2>3 DEF MarkUsed
      <3>2. pc'[t] = "idle"
        BY <1>0, <3>1 DEF Goto
      <3>3. CallPlace(t)'
        BY <3>2 DEF CallPlace
      <3> QED BY <1>0, <2>1, <3>1, <3>3, FollowStay
    <2> QED BY <2>2, <2>3
  <1> QED BY <1>1, <1>2 DEF DialNext

(* A stray id is the one thing no edit may be given here (SetDefault).     *)
LEMMA EditStepsFollow ==
  ASSUME Typed, FollowInv, Strays = {}, NEW t \in Callers, EditNext(t)
  PROVE  FollowInv'
  <1> USE DEF memVars, diskVars, userVars
  <1>0. /\ t \in Threads /\ pc \in [Threads -> Labels] /\ job \in [Threads -> Jobs]
        /\ creds \in SUBSET Credential
        /\ {"updating", "idle"} \subseteq Labels \ {"open", "write", "harden", "rename", "return"}
        /\ {"add", "edit", "store", "rename"} \subseteq CallKinds \ Ruling
        /\ \A c \in creds : c.id \in Ids
    BY Threaded DEF Threads, Typed, Rest, Labels, CallKinds, Ruling, Credential
  <1>1. ASSUME NEW input \in Inputs, NEW id \in Ids, Add(t, id, input) PROVE FollowInv'
    BY <1>0, <1>1, FollowEnter DEF Add, Ready
  <1>2. ASSUME NEW input \in Inputs, Update(t, input) PROVE FollowInv'
    <2>1. PICK c \in Wanted(t, input) :
             IF Unlocked /\ c.id \in IdsOf(creds) /\ NameFree(creds, c.name, c.id)
               THEN creds' = Put(creds, c) /\ Save(t, job[t].kind, c.id, None)
               ELSE Goto(t, "idle", NoJob) /\ UNCHANGED <<creds, lock>>
      BY <1>2 DEF Update
    <2>2. /\ pc[t] = "updating" /\ Free /\ ~Saving(t)
          /\ UNCHANGED <<key, file, tmp, told, keyring, crashes>>
      BY <1>2 DEF Update, Saving
    <2>3. CASE Unlocked /\ c.id \in IdsOf(creds) /\ NameFree(creds, c.name, c.id)
      <3>1. c.id \in Ids \cup {None}
        BY <1>0, <2>3 DEF IdsOf
      <3>2. job[t].kind \in CallKinds \ Ruling
        BY <1>0, <2>2 DEF FollowInv, CallPlace, Jobs
      <3> QED BY <1>0, <2>1, <2>2, <2>3, <3>1, <3>2, FollowEnter
    <2>4. CASE ~(Unlocked /\ c.id \in IdsOf(creds) /\ NameFree(creds, c.name, c.id))
      <3>1. pc'[t] = "idle"
        BY <1>0, <2>1, <2>4 DEF Goto
      <3>2. CallPlace(t)'
        BY <3>1 DEF CallPlace
      <3> QED BY <1>0, <2>1, <2>2, <2>4, <3>2, FollowStay
    <2> QED BY <2>3, <2>4
  <1>3. ASSUME NEW c \in creds, NEW input \in Inputs, UpdateMetadata(t, c, input) PROVE FollowInv'
    BY <1>0, <1>3, FollowEnter DEF UpdateMetadata, Ready
  <1>4. ASSUME NEW c \in creds, NEW kind \in {"store", "rename"}, GetForUpdate(t, kind, c)
        PROVE  FollowInv'
    <2>1. pc'[t] = "updating" /\ job'[t].kind = kind /\ ~Saving(t) /\ pc[t] # "filing"
      BY <1>0, <1>4 DEF GetForUpdate, Ready, Goto, Job, Saving
    <2>2. CallPlace(t)'
      BY <2>1 DEF CallPlace
    <2> QED BY <1>0, <1>4, <2>1, <2>2, FollowStay DEF GetForUpdate
  <1>5. ASSUME NEW c \in creds, Delete(t, c) PROVE FollowInv'
    BY <1>0, <1>5, FollowEnter DEF Delete, Ready
  <1>6. ASSUME NEW c \in creds, SetDisabled(t, c, ~c.disabled) PROVE FollowInv'
    BY <1>0, <1>6, FollowEnter DEF SetDisabled, Ready
  <1>7. ASSUME NEW id \in IdsOf(creds) \cup Strays, SetDefault(t, id) PROVE FollowInv'
    <2>1. id \in IdsOf(creds) /\ id \in Ids
      BY <1>0 DEF IdsOf
    <2> QED BY <1>0, <1>7, <2>1, FollowEnter DEF SetDefault, Ready
  <1>8. CASE UnsetDefault(t)
    BY <1>0, <1>8, FollowEnter DEF UnsetDefault, Ready
  <1> QED BY <1>1, <1>2, <1>3, <1>4, <1>5, <1>6, <1>7, <1>8
          DEF EditNext, addCredential, editCredential, renameCredential, deleteCredential,
              toggleDisabled, makeDefault

LEMMA MasterStepsFollow ==
  ASSUME Typed, Single, FollowInv, NEW t \in Callers, MasterNext(t), ~KeyringFails(t)
  PROVE  FollowInv'
  <1> USE DEF memVars, diskVars, userVars
  <1>0. /\ t \in Threads /\ pc \in [Threads -> Labels] /\ job \in [Threads -> Jobs]
        /\ {"creating", "unlocking", "changing", "filing", "idle"}
             \subseteq Labels \ {"open", "write", "harden", "rename", "return"}
        /\ None \notin Masters
    BY Threaded DEF Threads, Labels
  <1>a. \A u \in Threads : u # t =>
           pc[u] \notin {"creating", "unlocking", "changing", "filing", "updating"}
    BY DEF Single, FollowInv, CallPlace
  <1>1. ASSUME NEW m \in Masters, CreateChecks(t, m) PROVE FollowInv'
    <2>1. pc'[t] = "creating" /\ job'[t].master = m /\ ~Saving(t) /\ pc[t] # "filing"
      BY <1>0, <1>1 DEF CreateChecks, Goto, Job, Saving
    <2>2. CallPlace(t)'
      BY <1>1, <2>1 DEF CallPlace, CreateChecks, Unlocked
    <2> QED BY <1>0, <1>1, <2>1, <2>2, FollowStay DEF CreateChecks
  <1>2. ASSUME NEW m \in Masters, NEW kind \in {"unlock", "quiet"}, UnlockReads(t, m, kind)
        PROVE  FollowInv'
    <2>1. /\ pc'[t] = "unlocking" /\ job'[t].master = m /\ job'[t].copy = file.creds
          /\ ~Saving(t) /\ pc[t] # "filing"
      BY <1>0, <1>2 DEF UnlockReads, Goto, Job, Saving
    <2>2. CallPlace(t)'
      BY <1>2, <2>1 DEF CallPlace, UnlockReads, Unlocked
    <2> QED BY <1>0, <1>2, <2>1, <2>2, FollowStay DEF UnlockReads
  <1>3. ASSUME NEW old \in Masters, NEW new \in Masters, ChangeReads(t, old, new)
        PROVE  FollowInv'
    <2>1. /\ pc'[t] = "changing" /\ job'[t].master = new /\ job'[t].kind = "change"
          /\ ~Saving(t) /\ pc[t] # "filing"
      BY <1>0, <1>3 DEF ChangeReads, Goto, Job, Saving
    <2>2. CallPlace(t)'
      BY <1>3, <2>1 DEF CallPlace, ChangeReads, Unlocked
    <2> QED BY <1>0, <1>3, <2>1, <2>2, FollowStay DEF ChangeReads
  <1>4. CASE KeyringLeft(t)
    <2>1. pc'[t] = "idle" /\ ~Saving(t)
      BY <1>0, <1>4 DEF KeyringLeft, Goto, Saving
    <2>2. CallPlace(t)'
      BY <2>1 DEF CallPlace
    <2>3. job[t].kind = "change" => keyring = None
      BY <1>4 DEF KeyringLeft, Refiles
    <2> QED BY <1>0, <1>4, <2>1, <2>2, <2>3, FollowStay DEF KeyringLeft
  <1>5. CASE Create(t) \/ ChangeInstalls(t)
    <2> DEFINE kind == IF pc[t] = "creating" THEN "create" ELSE "change"
    <2>1. /\ pc[t] \in {"creating", "changing"} /\ Free /\ key' = job[t].master
          /\ Save(t, kind, None, job[t].master) /\ kind \in Ruling
          /\ UNCHANGED <<file, tmp, told, keyring, crashes>>
      BY <1>5 DEF Create, ChangeInstalls, Ruling
    <2>2. /\ lock' = t /\ pc'[t] = "open" /\ job'[t].kind = kind /\ job'[t].master = job[t].master
          /\ \A u \in Threads : u # t => pc'[u] = pc[u] /\ job'[u] = job[u]
      BY <1>0, <2>1 DEF Save, Goto, Job
    <2>3. \A u \in Threads : ~Saving(u)
      BY <2>1, NoSaver DEF Typed
    <2>4. job[t].master \in Masters /\ Unlocked'
      BY <1>0, <2>1 DEF FollowInv, CallPlace, Unlocked
    <2>5. AtRest'
      BY <1>0, <2>2, NotAThread DEF AtRest, Free
    <2>6. ~Changing({"return"}, {"create", "change"}) /\ ~Changing({"return", "filing"}, {"change"})
      BY <1>a, <2>1, <2>3 DEF Changing, Saving
    <2>7. OpensAsTold' /\ KeyringFiled'
      BY <2>1, <2>6 DEF OpensAsTold, KeyringFiled, FollowInv
    <2>8. ASSUME NEW u \in Threads PROVE CallPlace(u)'
      BY <1>a, <2>2 DEF CallPlace
    <2>9. file'.kind = IF kind = "create" THEN "absent" ELSE "sealed"
      <3>1. CASE pc[t] = "creating"
        BY <1>0, <2>1, <3>1 DEF FollowInv, CallPlace
      <3>2. CASE pc[t] = "changing"
        <4>1. Unlocked
          BY <1>0, <3>2 DEF FollowInv, CallPlace
        <4> QED BY <2>1, <3>2, <4>1 DEF FollowInv, AtRest, AsFiled
      <3> QED BY <2>1, <3>1, <3>2
    <2> HIDE DEF kind
    <2>10. ASSUME NEW u \in Threads PROVE SavePlace(u)'
      <3>1. CASE u = t
        BY <2>1, <2>2, <2>4, <2>9, <3>1 DEF SavePlace, Saving
      <3>2. CASE u # t
        BY <2>2, <2>3, <3>2 DEF SavePlace, Saving
      <3> QED BY <3>1, <3>2
    <2> QED BY <2>5, <2>7, <2>8, <2>10 DEF FollowInv
  <1>6. CASE UnlockInstalls(t)
    <2>1. /\ pc[t] = "unlocking" /\ Free /\ key' = job[t].master /\ creds' = job[t].copy
          /\ told' = job[t].master /\ UNCHANGED <<lock, file, tmp, keyring, crashes>>
      BY <1>6 DEF UnlockInstalls
    <2>2. /\ file.kind = "sealed" /\ file.master = job[t].master /\ file.creds = job[t].copy
          /\ job[t].master \in Masters
      BY <1>0, <2>1 DEF FollowInv, CallPlace
    <2>3. AsFiled' /\ told' = key' /\ Unlocked'
      BY <1>0, <2>1, <2>2 DEF AsFiled, Unlocked
    <2>4. /\ pc'[t] \in {"filing", "idle"} /\ (pc'[t] = "filing" => job'[t].master = job[t].master)
          /\ \A u \in Threads : u # t => pc'[u] = pc[u] /\ job'[u] = job[u]
      BY <1>0, <1>6 DEF UnlockInstalls, Goto, Jobs
    <2>5. \A u \in Threads : ~Saving(u)
      BY <2>1, NoSaver DEF Typed
    <2>6. AtRest' /\ OpensAsTold'
      BY <2>3 DEF AtRest, OpensAsTold, AsFiled
    <2>7. KeyringFiled'
      <3>1. ~Changing({"return", "filing"}, {"change"})
        BY <1>a, <2>1, <2>5 DEF Changing, Saving
      <3> QED BY <2>1, <3>1 DEF KeyringFiled, FollowInv
    <2>8. ASSUME NEW u \in Threads PROVE CallPlace(u)'
      <3>1. CASE u = t
        BY <2>1, <2>2, <2>4, <3>1 DEF CallPlace
      <3>2. CASE u # t
        BY <1>a, <2>4, <3>2 DEF CallPlace
      <3> QED BY <3>1, <3>2
    <2>9. ASSUME NEW u \in Threads PROVE SavePlace(u)'
      BY <2>4, <2>5 DEF SavePlace, Saving
    <2> QED BY <2>6, <2>7, <2>8, <2>9 DEF FollowInv
  <1>7. CASE Lock(t)
    <2>1. /\ pc[t] = "idle" /\ Free /\ key' = None
          /\ UNCHANGED <<lock, file, tmp, keyring, pc, job, told, crashes>>
      BY <1>7 DEF Lock
    <2>2. \A u \in Threads : ~Saving(u)
      BY <2>1, NoSaver DEF Typed
    <2>3. AtRest'
      BY <2>1 DEF AtRest, Unlocked
    <2>4. OpensAsTold' /\ KeyringFiled'
      BY <2>1 DEF OpensAsTold, KeyringFiled, FollowInv, Changing
    <2>5. ASSUME NEW u \in Threads PROVE CallPlace(u)'
      BY <1>a, <2>1 DEF CallPlace
    <2>6. ASSUME NEW u \in Threads PROVE SavePlace(u)'
      BY <2>1, <2>2 DEF SavePlace, Saving
    <2> QED BY <2>3, <2>4, <2>5, <2>6 DEF FollowInv
  <1>8. CASE KeyringSet(t)
    <2>1. /\ pc[t] = "filing" /\ keyring' = job[t].master
          /\ UNCHANGED <<key, creds, lock, file, tmp, told, crashes>>
      BY <1>8 DEF KeyringSet
    <2>2. /\ pc'[t] = "idle" /\ \A u \in Threads : u # t => pc'[u] = pc[u] /\ job'[u] = job[u]
      BY <1>0, <1>8 DEF KeyringSet, Goto
    <2>3. AtRest'
      BY <2>1 DEF AtRest, FollowInv, Free, Unlocked, AsFiled
    <2>4. OpensAsTold'
      <3>1. Changing({"return"}, {"create", "change"}) => Changing({"return"}, {"create", "change"})'
        BY <1>0, <2>1, <2>2, StillChanging
      <3> QED BY <2>1, <3>1 DEF OpensAsTold, FollowInv
    <2>5. KeyringFiled'
      <3>1. file.kind = "sealed" /\ file.master = job[t].master
        BY <1>0, <2>1 DEF FollowInv, CallPlace
      <3> QED BY <2>1, <3>1 DEF KeyringFiled
    <2>6. ASSUME NEW u \in Threads PROVE CallPlace(u)'
      BY <1>a, <2>2 DEF CallPlace
    <2>7. ASSUME NEW u \in Threads PROVE SavePlace(u)'
      <3>1. CASE u = t
        BY <2>2, <3>1 DEF SavePlace, Saving
      <3>2. CASE u # t
        <4>1. SavePlace(u)
          BY DEF FollowInv
        <4> QED BY <2>1, <2>2, <3>2, <4>1 DEF SavePlace, Saving, Unlocked, AsFiled
      <3> QED BY <3>1, <3>2
    <2> QED BY <2>3, <2>4, <2>5, <2>6, <2>7 DEF FollowInv
  <1>9. CASE KeyringClear(t)
    <2>1. keyring' = None /\ UNCHANGED <<key, creds, lock, file, tmp, told, crashes, pc, job>>
      BY <1>9 DEF KeyringClear
    <2>2. AtRest' /\ OpensAsTold' /\ KeyringFiled'
      BY <2>1 DEF AtRest, OpensAsTold, KeyringFiled, FollowInv, Free, Unlocked, AsFiled, Changing
    <2>3. ASSUME NEW u \in Threads PROVE CallPlace(u)' /\ SavePlace(u)'
      <3>1. CallPlace(u) /\ SavePlace(u)
        BY DEF FollowInv
      <3> QED BY <2>1, <3>1 DEF CallPlace, SavePlace, Saving, Unlocked, AsFiled
    <2> QED BY <2>2, <2>3 DEF FollowInv
  <1> QED BY <1>1, <1>2, <1>3, <1>4, <1>5, <1>6, <1>7, <1>8, <1>9
          DEF MasterNext, UnlockTyped, UnlockQuiet, Typed, Rest

LEMMA CrashFollow ==
  ASSUME Typed, FollowInv, Crash
  PROVE  FollowInv'
  <1>1. /\ key' = None /\ UNCHANGED <<file, keyring>> /\ crashes' = crashes + 1
        /\ \A t \in Threads : pc'[t] = "idle"
        /\ told' = IF Changing({"return"}, {"create", "change"}) THEN None ELSE told
    BY DEF Crash, diskVars, Changing
  <1>2. crashes \in Nat
    BY DEF Typed, Rest
  <1>3. AtRest' /\ OpensAsTold' /\ KeyringFiled'
    BY <1>1, <1>2 DEF AtRest, Unlocked, OpensAsTold, FollowInv, KeyringFiled
  <1>4. ASSUME NEW t \in Threads PROVE CallPlace(t)' /\ SavePlace(t)'
    BY <1>1 DEF CallPlace, SavePlace, Saving
  <1> QED BY <1>3, <1>4 DEF FollowInv

(* A failure is counted, and the count never goes back.                    *)
LEMMA FailuresCount ==
  ASSUME failures \in Nat, [Next]_vars, failures' = 0
  PROVE  /\ failures = 0
         /\ \A t \in Threads : ~SaveFails(t)
         /\ \A t \in Callers : ~KeyringFails(t)
  <1> USE DEF memVars, diskVars, userVars
  <1>1. CASE Crash \/ UNCHANGED vars
    BY <1>1 DEF Crash, vars, SaveFails, KeyringFails
  <1>2. ASSUME NEW t \in Threads, SaveNext(t) PROVE failures' = failures \/ failures' = failures + 1
    BY <1>2 DEF SaveNext, SaveOpens, SaveWrites, SaveHardens, SaveRenames, SaveReturns, SaveFails
  <1>3. ASSUME NEW t \in Threads, DialNext(t) PROVE failures' = failures
    BY <1>3 DEF DialNext, Resolve, MarkUsed
  <1>4. ASSUME NEW t \in Callers, MasterNext(t)
        PROVE  failures' = failures \/ failures' = failures + 1
    BY <1>4 DEF MasterNext, CreateChecks, UnlockTyped, UnlockReads, ChangeReads, UnlockQuiet, Create,
       UnlockInstalls, Lock, ChangeInstalls, KeyringSet, KeyringLeft, KeyringFails, KeyringClear
  <1>5. ASSUME NEW t \in Callers, EditNext(t) PROVE failures' = failures
    BY <1>5 DEF EditNext, addCredential, editCredential, renameCredential, deleteCredential,
       toggleDisabled, makeDefault, Add, GetForUpdate, Update, UpdateMetadata, Delete,
       SetDefault, UnsetDefault, SetDisabled
  <1>6. failures = 0
    BY <1>1, <1>2, <1>3, <1>4, <1>5 DEF Next, Crash, vars
  <1>7. \A t \in Threads : SaveFails(t) => failures' = failures + 1
    BY DEF SaveFails
  <1>8. \A t \in Callers : KeyringFails(t) => failures' = failures + 1
    BY DEF KeyringFails
  <1> QED BY <1>6, <1>7, <1>8

Follows == failures = 0 => FollowInv

LEMMA NextFollow ==
  Single /\ Strays = {} /\ Typed /\ Follows /\ [Next]_vars => Follows'
  <1> SUFFICES ASSUME Single, Strays = {}, Typed, Follows, [Next]_vars, failures' = 0
               PROVE  FollowInv'
    BY DEF Follows
  <1>0. /\ FollowInv /\ \A t \in Threads : ~SaveFails(t)
        /\ \A t \in Callers : ~KeyringFails(t)
    BY FailuresCount DEF Follows, Typed, Rest
  <1>1. CASE UNCHANGED vars
    <2>1. AtRest' /\ OpensAsTold' /\ KeyringFiled'
      BY <1>0, <1>1 DEF vars, AtRest, OpensAsTold, KeyringFiled, FollowInv, Free, Unlocked,
         AsFiled, Changing
    <2>2. ASSUME NEW t \in Threads PROVE CallPlace(t)' /\ SavePlace(t)'
      <3>1. CallPlace(t) /\ SavePlace(t)
        BY <1>0 DEF FollowInv
      <3> QED BY <1>1, <3>1 DEF vars, CallPlace, SavePlace, Saving, Unlocked, AsFiled
    <2> QED BY <2>1, <2>2 DEF FollowInv
  <1>2. CASE Crash
    BY <1>0, <1>2, CrashFollow
  <1>3. ASSUME NEW t \in Threads, SaveNext(t) \/ DialNext(t) PROVE FollowInv'
    BY <1>0, <1>3, SaveStepsFollow, DialStepsFollow
  <1>4. ASSUME NEW t \in Callers, MasterNext(t) \/ EditNext(t) PROVE FollowInv'
    BY <1>0, <1>4, MasterStepsFollow, EditStepsFollow
  <1> QED BY <1>1, <1>2, <1>3, <1>4 DEF Next

LEMMA InitFollow == Init => Follows
  <1> SUFFICES ASSUME Init PROVE FollowInv
    BY DEF Follows
  <1>1. key = None /\ told = None /\ keyring = None /\ \A t \in Threads : pc[t] = "idle"
    BY DEF Init
  <1> QED BY <1>1 DEF FollowInv, AtRest, OpensAsTold, KeyringFiled, Unlocked, CallPlace,
             SavePlace, Saving

(* With one thread making the vault calls, any number of dials and crashes *)
(* and no failed write: an unlocked vault at rest is what its file holds,  *)
(* the master a person was last told is in force opens the file, and the   *)
(* one the keyring holds does (saveLocked, ChangeMasterPassword, the order *)
(* of changeMasterPassword and the keyring in app/mainwindow.cpp).         *)
THEOREM FileAlwaysFollows ==
  ASSUME Single
  PROVE  Spec => []FileFollows
  <1>1. CASE Strays = {}
    <2>1. Follows => FileFollows
      <3> SUFFICES ASSUME Follows, failures = 0
                   PROVE  FileNeverBehind /\ OpensAsTold /\ KeyringOpens
        BY DEF FileFollows
      <3>1. FileNeverBehind
        BY DEF Follows, FollowInv, AtRest, AsFiled, FileNeverBehind
      <3>2. OpensAsTold
        BY DEF Follows, FollowInv
      <3>3. KeyringOpens
        BY DEF Follows, FollowInv, KeyringFiled, KeyringOpens
      <3> QED BY <3>1, <3>2, <3>3
    <2> QED BY <1>1, <2>1, InitFollow, NextFollow, AlwaysTyped, PTL DEF Spec
  <1>2. CASE Strays # {}
    <2>1. FileFollows
      BY <1>2 DEF FileFollows
    <2> QED BY <2>1, PTL
  <1> QED BY <1>1, <1>2

-----------------------------------------------------------------------------
(* Secrets.  Every id in a list was issued, so that an addition never      *)
(* takes the place of a record; what a rename has read still has the       *)
(* secret the list has, since dials only stamp.                            *)
IssuedInv ==
  /\ IdsOf(creds) \subseteq issued /\ IdsOf(file.creds) \subseteq issued
  /\ IdsOf(tmp.creds) \subseteq issued
  /\ \A t \in Threads : IdsOf(job[t].copy) \subseteq issued

Derives(cs, ds) == \A d \in ds : \E c \in cs : c.id = d.id /\ c.secret = d.secret
Agrees(cs, ds)  == \A c \in cs, d \in ds : c.id = d.id => c.secret = d.secret

CallSecrets(t) ==
  /\ pc[t] \in {"creating", "unlocking", "changing", "updating"} => t \in Callers
  /\ pc[t] \in {"creating", "unlocking"} => ~Unlocked /\ job[t].master \in Masters
  /\ pc[t] = "changing" => job[t].master \in Masters
  /\ pc[t] = "updating" => job[t].kind \in {"store", "rename"} /\ Agrees(job[t].copy, creds)
SecretInv == (~Unlocked => creds = {}) /\ \A t \in Threads : CallSecrets(t)

(* What each edit does to secrets.                                         *)
LEMMA FlagSecret ==
  \A c \in Credential, flag \in BOOLEAN : Flagged(c, flag).secret = c.secret
  BY DEF Flagged, Credential

LEMMA DerivesClear ==
  ASSUME NEW cs \in SUBSET Credential
  PROVE  Derives(cs, ClearDefault(cs))
  <1>1. ClearDefault(cs) = {Flagged(c, FALSE) : c \in cs}
    BY DEF ClearDefault, Flagged
  <1>2. \A c \in cs : Flagged(c, FALSE).id = c.id /\ Flagged(c, FALSE).secret = c.secret
    BY FlagType, FlagSecret
  <1> QED BY <1>1, <1>2 DEF Derives

LEMMA DerivesMarked ==
  ASSUME NEW cs \in SUBSET Credential, NEW id
  PROVE  Derives(cs, Marked(cs, id))
  <1>1. Marked(cs, id) = {Flagged(c, c.id = id) : c \in cs}
    BY DEF Marked, Flagged
  <1>2. ASSUME NEW c \in cs
        PROVE  Flagged(c, c.id = id).id = c.id /\ Flagged(c, c.id = id).secret = c.secret
    <2>1. c \in Credential /\ (c.id = id) \in BOOLEAN
      OBVIOUS
    <2> QED BY <2>1, FlagType, FlagSecret
  <1> QED BY <1>1, <1>2 DEF Derives

LEMMA DerivesStamped ==
  ASSUME NEW cs \in SUBSET Credential, NEW id, NEW now \in 0 .. MaxStamps
  PROVE  Derives(cs, Stamped(cs, id, now))
  <1> DEFINE S(c) == IF c.id = id THEN [c EXCEPT !.used = now] ELSE c
  <1>1. \A c \in cs : S(c).id = c.id /\ S(c).secret = c.secret
    BY DEF Credential
  <1>2. Stamped(cs, id, now) = {S(c) : c \in cs}
    BY DEF Stamped
  <1> HIDE DEF S
  <1> QED BY <1>1, <1>2 DEF Derives

(* Putting a record over another changes no secret but its own.            *)
LEMMA DerivesPut ==
  ASSUME NEW cs \in SUBSET Credential, NEW d, NEW ds,
         ds = Put(cs, d) \/ ds = Others(cs, d.id) \cup {d}
  PROVE  \A e \in ds : e = d \/ (e.id # d.id /\ \E c \in cs : c.id = e.id /\ c.secret = e.secret)
  <1>1. Others(cs, d.id) \in SUBSET Credential
    BY DEF Others
  <1>2. Derives(Others(cs, d.id), ClearDefault(Others(cs, d.id)))
    BY <1>1, DerivesClear
  <1>3. \A e \in ClearDefault(Others(cs, d.id)) \cup Others(cs, d.id) :
           e.id # d.id /\ \E c \in cs : c.id = e.id /\ c.secret = e.secret
    BY <1>2 DEF Derives, Others
  <1>4. ds \subseteq ClearDefault(Others(cs, d.id)) \cup Others(cs, d.id) \cup {d}
    BY DEF Put
  <1> QED BY <1>3, <1>4

LEMMA DerivesOver ==
  ASSUME NEW cs \in SUBSET Credential, NEW d, NEW ds,
         ds = Put(cs, d) \/ ds = Others(cs, d.id) \cup {d},
         \E c \in cs : c.id = d.id /\ c.secret = d.secret
  PROVE  Derives(cs, ds)
  BY DerivesPut DEF Derives

(* In a sound list, what derives from it agrees with it.                   *)
LEMMA DerivesAgrees ==
  ASSUME NEW cs, NEW ds, Sound(cs), Derives(cs, ds)
  PROVE  Agrees(cs, ds)
  <1> SUFFICES ASSUME NEW c \in cs, NEW d \in ds, c.id = d.id PROVE c.secret = d.secret
    BY DEF Agrees
  <1>1. PICK b \in cs : b.id = d.id /\ b.secret = d.secret
    BY DEF Derives
  <1>2. b = c
    BY <1>1 DEF Sound
  <1> QED BY <1>1, <1>2

LEMMA AgreesDerives ==
  ASSUME NEW cs, NEW ds, NEW es, Agrees(cs, ds), Derives(ds, es)
  PROVE  Agrees(cs, es)
  BY DEF Agrees, Derives

-----------------------------------------------------------------------------
(* Ids are issued before they are used.                                    *)
LEMMA IssuedEnter ==
  ASSUME Typed, IssuedInv, NEW t \in Threads, NEW kind, NEW id, NEW m, Save(t, kind, id, m),
         UNCHANGED <<file, tmp>>, issued \subseteq issued', IdsOf(creds') \subseteq issued'
  PROVE  IssuedInv'
  <1>1. job' = [job EXCEPT ![t] = Job(kind, id, m, {})] /\ Job(kind, id, m, {}).copy = {}
    BY DEF Save, Goto, Job
  <1>2. \A u \in Threads : IdsOf(job'[u].copy) \subseteq issued'
    BY <1>1, Threaded DEF IssuedInv, IdsOf
  <1> QED BY <1>2 DEF IssuedInv

LEMMA IssuedStay ==
  ASSUME Typed, IssuedInv, NEW t \in Threads, NEW label, NEW j, Goto(t, label, j),
         UNCHANGED <<file, tmp, issued>>, IdsOf(creds') \subseteq issued,
         IdsOf(j.copy) \subseteq issued
  PROVE  IssuedInv'
  <1>1. \A u \in Threads : IdsOf(job'[u].copy) \subseteq issued'
    BY Threaded DEF IssuedInv, Goto
  <1> QED BY <1>1 DEF IssuedInv

LEMMA NoIds == IdsOf({}) = {} /\ \A c : IdsOf({c}) = {c.id}
  BY DEF IdsOf

LEMMA NextIssued == Typed /\ IssuedInv /\ [Next]_vars => IssuedInv'
  <1> SUFFICES ASSUME Typed, IssuedInv, [Next]_vars PROVE IssuedInv'
    OBVIOUS
  <1> USE DEF memVars, diskVars, userVars
  <1>0. /\ IdsOf(creds) \subseteq issued /\ IdsOf(file.creds) \subseteq issued
        /\ creds \in SUBSET Credential /\ tmp \in Files
        /\ \A t \in Threads : job[t] \in Jobs /\ IdsOf(job[t].copy) \subseteq issued
        /\ \A t \in Threads : [job[t] EXCEPT !.copy = {}].copy = {}
        /\ NoJob.copy = {} /\ NoFile.creds = {} /\ Torn.creds = {}
    BY CopiesTyped DEF IssuedInv, Typed, Rest, NoJob, NoFile, Torn
  <1>1. CASE UNCHANGED vars
    BY <1>1 DEF vars, IssuedInv
  <1>2. CASE Crash
    BY <1>0, <1>2, NoIds DEF Crash, IssuedInv
  <1>3. ASSUME NEW t \in Threads, SaveNext(t) PROVE IssuedInv'
    <2>1. CASE SaveOpens(t) \/ SaveWrites(t) \/ SaveHardens(t) \/ SaveRenames(t)
      <3>1. UNCHANGED <<creds, job, issued>>
        BY <2>1 DEF SaveOpens, SaveWrites, SaveHardens, SaveRenames
      <3>2. file' = file \/ file' = tmp
        BY <2>1 DEF SaveOpens, SaveWrites, SaveHardens, SaveRenames
      <3>3. tmp'.creds = {} \/ tmp'.creds = tmp.creds \/ tmp'.creds = creds
        <4>1. CASE SaveOpens(t) \/ SaveRenames(t)
          BY <1>0, <4>1 DEF SaveOpens, SaveRenames
        <4>2. CASE SaveWrites(t)
          BY <4>2 DEF SaveWrites, Sealed
        <4>3. CASE SaveHardens(t)
          BY <1>0, <4>3, HardenKeeps DEF SaveHardens
        <4> QED BY <2>1, <4>1, <4>2, <4>3
      <3> QED BY <3>1, <3>2, <3>3, NoIds DEF IssuedInv
    <2>2. CASE SaveReturns(t) \/ SaveFails(t)
      <3>1. UNCHANGED <<creds, file, issued>>
        BY <2>2 DEF SaveReturns, SaveFails
      <3>2. tmp' = tmp \/ tmp' = NoFile
        BY <2>2 DEF SaveReturns, SaveFails
      <3>3. job' = job \/ job' = [job EXCEPT ![t] = NoJob]
        BY <2>2 DEF SaveReturns, SaveFails, Goto
      <3>4. \A u \in Threads : IdsOf(job'[u].copy) \subseteq issued
        BY <1>0, <3>3, NoIds, Threaded
      <3> QED BY <1>0, <3>1, <3>2, <3>4, NoIds DEF IssuedInv
    <2> QED BY <1>3, <2>1, <2>2 DEF SaveNext
  <1>4. ASSUME NEW t \in Threads, DialNext(t) PROVE IssuedInv'
    <2>1. ASSUME NEW c \in creds, Resolve(t, c) PROVE IssuedInv'
      <3>1. Job("stamp", c.id, None, {}).copy = {}
        BY DEF Job
      <3> QED BY <1>0, <2>1, <3>1, NoIds, IssuedStay DEF Resolve
    <2>2. CASE MarkUsed(t)
      <3>1. CASE Unlocked /\ job[t].id \in IdsOf(creds)
        <4>1. creds' = Stamped(creds, job[t].id, Now) /\ Now \in 0 .. MaxStamps
          BY <2>2, <3>1, NowType DEF MarkUsed, Stamped, Typed, Rest
        <4>2. IdsOf(creds') = IdsOf(creds)
          BY <1>0, <4>1, IdsStamped
        <4> QED BY <1>0, <2>2, <3>1, <4>2, IssuedEnter DEF MarkUsed
      <3>2. CASE ~(Unlocked /\ job[t].id \in IdsOf(creds))
        BY <1>0, <2>2, <3>2, NoIds, IssuedStay DEF MarkUsed
      <3> QED BY <3>1, <3>2
    <2> QED BY <1>4, <2>1, <2>2 DEF DialNext
  <1>5. ASSUME NEW t \in Callers, MasterNext(t) PROVE IssuedInv'
    <2>0. t \in Threads
      BY DEF Threads
    <2>1. ASSUME NEW m, CreateChecks(t, m) PROVE IssuedInv'
      <3>1. Job("create", None, m, {}).copy = {}
        BY DEF Job
      <3> QED BY <1>0, <2>0, <2>1, <3>1, NoIds, IssuedStay DEF CreateChecks
    <2>2. ASSUME NEW m, NEW kind, UnlockReads(t, m, kind) PROVE IssuedInv'
      <3>1. Job(kind, None, m, file.creds).copy = file.creds
        BY DEF Job
      <3> QED BY <1>0, <2>0, <2>2, <3>1, IssuedStay DEF UnlockReads
    <2>3. ASSUME NEW old, NEW new, ChangeReads(t, old, new) PROVE IssuedInv'
      <3>1. Job("change", None, new, file.creds).copy = file.creds
        BY DEF Job
      <3> QED BY <1>0, <2>0, <2>3, <3>1, IssuedStay DEF ChangeReads
    <2>4. CASE Create(t) \/ ChangeInstalls(t)
      <3>1. IdsOf(creds') \subseteq issued /\ UNCHANGED <<file, tmp, issued>>
        BY <1>0, <2>0, <2>4, NoIds DEF Create, ChangeInstalls
      <3>2. PICK kind \in {"create", "change"} : Save(t, kind, None, job[t].master)
        BY <2>4 DEF Create, ChangeInstalls
      <3> QED BY <2>0, <3>1, <3>2, IssuedEnter
    <2>5. CASE UnlockInstalls(t)
      <3>1. IdsOf(creds') \subseteq issued /\ UNCHANGED <<file, tmp, issued>>
        BY <1>0, <2>0, <2>5 DEF UnlockInstalls
      <3>2. Goto(t, "filing", [job[t] EXCEPT !.copy = {}]) \/ Goto(t, "idle", NoJob)
        BY <2>5 DEF UnlockInstalls
      <3> QED BY <1>0, <2>0, <3>1, <3>2, NoIds, IssuedStay
    <2>6. CASE KeyringSet(t) \/ KeyringLeft(t) \/ KeyringFails(t)
      <3>1. Goto(t, "idle", NoJob) /\ UNCHANGED <<creds, file, tmp, issued>>
        BY <2>6 DEF KeyringSet, KeyringLeft, KeyringFails
      <3> QED BY <1>0, <2>0, <3>1, NoIds, IssuedStay
    <2>7. CASE Lock(t) \/ KeyringClear(t)
      BY <2>7, NoIds DEF Lock, KeyringClear, IssuedInv
    <2> QED BY <1>5, <2>1, <2>2, <2>3, <2>4, <2>5, <2>6, <2>7
            DEF MasterNext, UnlockTyped, UnlockQuiet
  <1>6. ASSUME NEW t \in Callers, EditNext(t) PROVE IssuedInv'
    <2>0. t \in Threads
      BY DEF Threads
    <2>1. ASSUME NEW id \in Ids, NEW input \in Inputs, Add(t, id, input) PROVE IssuedInv'
      <3> DEFINE d == Made(id, input, 0)
      <3>1. d.id = id /\ creds' = Put(creds, d) /\ issued' = issued \cup {id}
        BY <2>1 DEF Add, Made
      <3> HIDE DEF d
      <3>2. IdsOf(creds') = IdsOf(creds) \cup {id}
        BY <1>0, <3>1, IdsPut
      <3> QED BY <1>0, <2>0, <2>1, <3>1, <3>2, IssuedEnter DEF Add
    <2>2. ASSUME NEW input \in Inputs, Update(t, input) PROVE IssuedInv'
      <3>1. PICK c \in Wanted(t, input) :
               IF Unlocked /\ c.id \in IdsOf(creds) /\ NameFree(creds, c.name, c.id)
                 THEN creds' = Put(creds, c) /\ Save(t, job[t].kind, c.id, None)
                 ELSE Goto(t, "idle", NoJob) /\ UNCHANGED <<creds, lock>>
        BY <2>2 DEF Update
      <3>2. UNCHANGED <<file, tmp, issued>>
        BY <2>2 DEF Update
      <3>3. CASE Unlocked /\ c.id \in IdsOf(creds) /\ NameFree(creds, c.name, c.id)
        <4>0. IdsOf(creds') = IdsOf(creds) \cup {c.id}
          BY <1>0, <3>1, <3>3, IdsPut
        <4>1. IdsOf(creds') = IdsOf(creds)
          BY <3>3, <4>0
        <4> QED BY <1>0, <2>0, <3>1, <3>2, <3>3, <4>1, IssuedEnter
      <3>4. CASE ~(Unlocked /\ c.id \in IdsOf(creds) /\ NameFree(creds, c.name, c.id))
        BY <1>0, <2>0, <3>1, <3>2, <3>4, NoIds, IssuedStay
      <3> QED BY <3>3, <3>4
    <2>3. ASSUME NEW c \in creds, NEW input \in Inputs, UpdateMetadata(t, c, input) PROVE IssuedInv'
      <3> DEFINE d == Merge(c, input)
      <3>1. d.id = c.id /\ c.id \in IdsOf(creds)
        BY <1>0 DEF Merge, Credential, IdsOf
      <3>2. creds' = Put(creds, d) \/ creds' = Others(creds, c.id) \cup {d}
        BY <2>3 DEF UpdateMetadata
      <3> HIDE DEF d
      <3>3. IdsOf(Put(creds, d)) = IdsOf(creds) \cup {d.id}
        BY <1>0, IdsPut
      <3>4. IdsOf(Others(creds, d.id) \cup {d}) = IdsOf(creds) \cup {d.id}
        BY IdsOver
      <3>5. IdsOf(creds') = IdsOf(creds)
        BY <3>1, <3>2, <3>3, <3>4
      <3> QED BY <1>0, <2>0, <2>3, <3>5, IssuedEnter DEF UpdateMetadata
    <2>4. ASSUME NEW c \in creds, NEW kind, GetForUpdate(t, kind, c) PROVE IssuedInv'
      <3>1. Job(kind, c.id, None, {c}).copy = {c} /\ c.id \in IdsOf(creds)
        BY DEF Job, IdsOf
      <3>2. IdsOf({c}) \subseteq issued /\ UNCHANGED <<creds, file, tmp, issued>>
        BY <1>0, <2>4, <3>1, NoIds DEF GetForUpdate
      <3> QED BY <1>0, <2>0, <2>4, <3>1, <3>2, IssuedStay DEF GetForUpdate
    <2>5. ASSUME NEW c \in creds, Delete(t, c) PROVE IssuedInv'
      <3>1. IdsOf(creds') \subseteq IdsOf(creds)
        BY <2>5 DEF Delete, IdsOf
      <3> QED BY <1>0, <2>0, <2>5, <3>1, IssuedEnter DEF Delete
    <2>6. ASSUME NEW c \in creds, SetDisabled(t, c, ~c.disabled) PROVE IssuedInv'
      <3> DEFINE d == [c EXCEPT !.disabled = ~c.disabled]
      <3>1. d.id = c.id /\ c.id \in IdsOf(creds)
        BY <1>0 DEF Credential, IdsOf
      <3>2. creds' = Others(creds, c.id) \cup {d}
        BY <2>6 DEF SetDisabled
      <3> HIDE DEF d
      <3>3. IdsOf(creds') = IdsOf(creds)
        BY <3>1, <3>2, IdsOver
      <3> QED BY <1>0, <2>0, <2>6, <3>3, IssuedEnter DEF SetDisabled
    <2>7. ASSUME NEW id \in IdsOf(creds) \cup Strays, SetDefault(t, id) PROVE IssuedInv'
      <3>1. IdsOf(creds') = IdsOf(creds) /\ UNCHANGED <<file, tmp, issued>>
        BY <1>0, <2>7, IdsMarked DEF SetDefault
      <3>2. CASE id \in IdsOf(creds)
        BY <1>0, <2>0, <2>7, <3>1, <3>2, IssuedEnter DEF SetDefault
      <3>3. CASE id \notin IdsOf(creds)
        BY <2>7, <3>1, <3>3 DEF SetDefault, IssuedInv
      <3> QED BY <3>2, <3>3
    <2>8. CASE UnsetDefault(t)
      <3>1. IdsOf(creds') = IdsOf(creds)
        BY <1>0, <2>8, IdsClear DEF UnsetDefault
      <3> QED BY <1>0, <2>0, <2>8, <3>1, IssuedEnter DEF UnsetDefault
    <2> QED BY <1>6, <2>1, <2>2, <2>3, <2>4, <2>5, <2>6, <2>7, <2>8
            DEF EditNext, addCredential, editCredential, renameCredential, deleteCredential,
                toggleDisabled, makeDefault
  <1> QED BY <1>1, <1>2, <1>3, <1>4, <1>5, <1>6 DEF Next

-----------------------------------------------------------------------------
(* The step of one thread, on secrets: its own place, and that the list it *)
(* leaves derives from the one it found.                                   *)
LEMMA SecretStep ==
  ASSUME Typed, SecretInv, NEW t \in Threads, CallSecrets(t)',
         \A u \in Threads : u # t => pc'[u] = pc[u] /\ job'[u] = job[u],
         key' = key, Derives(creds, creds')
  PROVE  SecretInv'
  <1>1. ~Unlocked' => creds' = {}
    BY DEF SecretInv, Unlocked, Derives
  <1>2. ASSUME NEW u \in Threads PROVE CallSecrets(u)'
    <2>1. CASE u # t
      <3>1. CallSecrets(u) /\ pc'[u] = pc[u] /\ job'[u] = job[u]
        BY <2>1 DEF SecretInv
      <3>2. Agrees(job[u].copy, creds) => Agrees(job[u].copy, creds')
        BY AgreesDerives
      <3> QED BY <3>1, <3>2 DEF CallSecrets, Unlocked
    <2> QED BY <2>1
  <1> QED BY <1>1, <1>2 DEF SecretInv

(* Where another caller could have changed a secret meanwhile, there is    *)
(* none.                                                                   *)
LEMMA SecretAlone ==
  ASSUME Single, SecretInv, NEW t \in Callers, CallSecrets(t)',
         \A u \in Threads : u # t => pc'[u] = pc[u] /\ job'[u] = job[u],
         ~Unlocked' => creds' = {}
  PROVE  SecretInv'
  <1>1. ASSUME NEW u \in Threads PROVE CallSecrets(u)'
    <2>1. CASE u # t
      <3>1. pc[u] \notin {"creating", "unlocking", "changing", "updating"}
        BY <2>1 DEF Single, SecretInv, CallSecrets
      <3> QED BY <2>1, <3>1 DEF CallSecrets
    <2> QED BY <2>1
  <1> QED BY <1>1 DEF SecretInv

(* What the property lets a step do to secrets.                            *)
Supplied == \E t \in Callers : \/ pc[t] = "changing"
                               \/ pc[t] = "updating" /\ job[t].kind = "store"
Kindly == Agrees(creds, creds') \/ Supplied

LEMMA SaveStepsSecrets ==
  ASSUME Typed, SecretInv, Sound(creds), NEW t \in Threads, SaveNext(t)
  PROVE  SecretInv' /\ Kindly
  <1>1. UNCHANGED <<key, creds>>
    BY DEF SaveNext, SaveOpens, SaveWrites, SaveHardens, SaveRenames, SaveReturns, SaveFails, memVars
  <1>2. \A u \in Threads : u # t => pc'[u] = pc[u] /\ job'[u] = job[u]
    BY Threaded DEF SaveNext, SaveOpens, SaveWrites, SaveHardens, SaveRenames, SaveReturns, SaveFails, Goto
  <1>3. pc'[t] \notin {"creating", "unlocking", "changing", "updating"}
    BY Threaded DEF SaveNext, SaveOpens, SaveWrites, SaveHardens, SaveRenames, SaveReturns, SaveFails, Goto
  <1>4. CallSecrets(t)'
    BY <1>3 DEF CallSecrets
  <1>5. Derives(creds, creds')
    BY <1>1 DEF Derives
  <1> QED BY <1>1, <1>2, <1>4, <1>5, SecretStep, DerivesAgrees DEF Kindly

LEMMA DialStepsSecrets ==
  ASSUME Typed, SecretInv, Sound(creds), NEW t \in Threads, DialNext(t)
  PROVE  SecretInv' /\ Kindly
  <1>0. creds \in SUBSET Credential /\ Now \in 0 .. MaxStamps
    BY NowType DEF Typed, Rest
  <1>1. ASSUME NEW c \in creds, Resolve(t, c)
        PROVE  pc'[t] = "stamping" /\ UNCHANGED <<key, creds>>
    BY <1>1, Threaded DEF Resolve, Goto, memVars
  <1>2. ASSUME MarkUsed(t)
        PROVE  /\ key' = key /\ pc'[t] \in {"open", "idle"}
               /\ creds' = creds \/ creds' = Stamped(creds, job[t].id, Now)
    <2>1. key' = key /\ pc'[t] \in {"open", "idle"}
      BY <1>2, Threaded DEF MarkUsed, Save, Goto
    <2>2. creds' = creds \/ creds' = Stamped(creds, job[t].id, Now)
      BY <1>2 DEF MarkUsed, Stamped
    <2> QED BY <2>1, <2>2
  <1>3. key' = key /\ (creds' = creds \/ creds' = Stamped(creds, job[t].id, Now))
    BY <1>1, <1>2 DEF DialNext
  <1>4. pc'[t] \in {"stamping", "open", "idle"}
    BY <1>1, <1>2 DEF DialNext
  <1>5. \A u \in Threads : u # t => pc'[u] = pc[u] /\ job'[u] = job[u]
    BY Threaded DEF DialNext, Resolve, MarkUsed, Save, Goto
  <1>6. Derives(creds, creds')
    <2>1. Derives(creds, creds)
      BY DEF Derives
    <2> QED BY <1>0, <1>3, <2>1, DerivesStamped
  <1>7. CallSecrets(t)'
    BY <1>4 DEF CallSecrets
  <1> QED BY <1>3, <1>5, <1>6, <1>7, SecretStep, DerivesAgrees DEF Kindly

LEMMA MasterStepsSecrets ==
  ASSUME Single, Typed, SecretInv, Sound(creds), NEW t \in Callers, MasterNext(t)
  PROVE  SecretInv' /\ Kindly
  <1> USE DEF memVars
  <1>0. /\ t \in Threads /\ None \notin Masters
        /\ \A u \in Threads : u # t => pc'[u] = pc[u] /\ job'[u] = job[u]
    BY Threaded DEF Threads, MasterNext, CreateChecks, UnlockTyped, UnlockReads, ChangeReads, UnlockQuiet,
       Create, UnlockInstalls, Lock, ChangeInstalls, KeyringSet, KeyringLeft, KeyringFails,
       KeyringClear, Save, Goto
  <1>s. Agrees(creds, creds)
    BY DEF Agrees, Sound
  <1>1. ASSUME NEW m \in Masters, CreateChecks(t, m) PROVE SecretInv' /\ Kindly
    <2>1. /\ pc'[t] = "creating" /\ job'[t].master = m /\ ~Unlocked /\ UNCHANGED <<key, creds>>
          /\ creds = {}
      BY <1>0, <1>1, Threaded DEF CreateChecks, Goto, Job, SecretInv
    <2>2. CallSecrets(t)'
      BY <2>1 DEF CallSecrets, Unlocked
    <2> QED BY <1>0, <2>1, <2>2, SecretAlone DEF Kindly, Agrees
  <1>2. ASSUME NEW m \in Masters, NEW kind, UnlockReads(t, m, kind) PROVE SecretInv' /\ Kindly
    <2>1. /\ pc'[t] = "unlocking" /\ job'[t].master = m /\ ~Unlocked /\ UNCHANGED <<key, creds>>
          /\ creds = {}
      BY <1>0, <1>2, Threaded DEF UnlockReads, Goto, Job, SecretInv
    <2>2. CallSecrets(t)'
      BY <2>1 DEF CallSecrets, Unlocked
    <2> QED BY <1>0, <2>1, <2>2, SecretAlone DEF Kindly, Agrees
  <1>3. ASSUME NEW old \in Masters, NEW new \in Masters, ChangeReads(t, old, new)
        PROVE  SecretInv' /\ Kindly
    <2>1. pc'[t] = "changing" /\ job'[t].master = new /\ Unlocked /\ UNCHANGED <<key, creds>>
      BY <1>0, <1>3, Threaded DEF ChangeReads, Goto, Job
    <2>2. CallSecrets(t)'
      BY <2>1 DEF CallSecrets
    <2> QED BY <1>0, <1>s, <2>1, <2>2, SecretAlone DEF Kindly, Unlocked
  <1>4. CASE Create(t) \/ UnlockInstalls(t)
    <2>1. creds = {} /\ key' = job[t].master /\ job[t].master \in Masters
      BY <1>0, <1>4 DEF Create, UnlockInstalls, SecretInv, CallSecrets
    <2>2. pc'[t] \in {"open", "filing", "idle"}
      BY <1>0, <1>4, Threaded DEF Create, UnlockInstalls, Save, Goto
    <2>3. CallSecrets(t)'
      BY <2>2 DEF CallSecrets
    <2> QED BY <1>0, <2>1, <2>3, SecretAlone DEF Kindly, Agrees, Unlocked
  <1>5. CASE ChangeInstalls(t)
    <2>1. pc[t] = "changing" /\ key' = job[t].master /\ job[t].master \in Masters
      BY <1>0, <1>5 DEF ChangeInstalls, SecretInv, CallSecrets
    <2>2. CallSecrets(t)'
      BY <1>0, <1>5, Threaded DEF ChangeInstalls, Save, Goto, CallSecrets
    <2> QED BY <1>0, <2>1, <2>2, SecretAlone DEF Kindly, Supplied, Unlocked
  <1>6. CASE Lock(t)
    <2>1. key' = None /\ creds' = {} /\ pc'[t] = "idle"
      BY <1>6 DEF Lock
    <2>2. CallSecrets(t)'
      BY <2>1 DEF CallSecrets
    <2> QED BY <1>0, <2>1, <2>2, SecretAlone DEF Kindly, Agrees
  <1>7. CASE KeyringSet(t) \/ KeyringLeft(t) \/ KeyringFails(t) \/ KeyringClear(t)
    <2>1. UNCHANGED <<key, creds>> /\ pc'[t] = "idle"
      BY <1>0, <1>7, Threaded DEF KeyringSet, KeyringLeft, KeyringFails, KeyringClear, Goto
    <2>2. CallSecrets(t)'
      BY <2>1 DEF CallSecrets
    <2>3. ~Unlocked' => creds' = {}
      BY <2>1 DEF SecretInv, Unlocked
    <2> QED BY <1>0, <2>1, <2>2, <2>3, <1>s, SecretAlone DEF Kindly
  <1> QED BY <1>1, <1>2, <1>3, <1>4, <1>5, <1>6, <1>7
          DEF MasterNext, UnlockTyped, UnlockQuiet, Typed, Rest, Kindly

LEMMA EditStepsSecrets ==
  ASSUME Single, Typed, SecretInv, IssuedInv, Sound(creds), NEW t \in Callers, EditNext(t)
  PROVE  SecretInv' /\ Kindly
  <1> USE DEF memVars
  <1>0. /\ t \in Threads /\ creds \in SUBSET Credential
        /\ Derives(creds, creds) /\ Agrees(creds, creds)
        /\ \A c \in creds : c.id \in IdsOf(creds)
    BY DerivesAgrees DEF Threads, Typed, Rest, Derives, IdsOf
  <1>a. \A u \in Threads : u # t => pc'[u] = pc[u] /\ job'[u] = job[u]
    BY <1>0, Threaded DEF EditNext, addCredential, editCredential, renameCredential, deleteCredential,
       toggleDisabled, makeDefault, Add, GetForUpdate, Update, UpdateMetadata, Delete,
       SetDefault, UnsetDefault, SetDisabled, Ready, Save, Goto
  <1>b. ASSUME key' = key, pc'[t] \in {"open", "idle"}, Derives(creds, creds')
        PROVE  SecretInv' /\ Kindly
    <2>1. CallSecrets(t)'
      BY <1>b DEF CallSecrets
    <2> QED BY <1>0, <1>a, <1>b, <2>1, SecretStep, DerivesAgrees DEF Kindly
  <1>1. ASSUME NEW id \in Ids, NEW input \in Inputs, Add(t, id, input) PROVE SecretInv' /\ Kindly
    <2> DEFINE d == Made(id, input, 0)
    <2>1. d.id = id /\ creds' = Put(creds, d) /\ id \notin IdsOf(creds) /\ Unlocked /\ key' = key
      BY <1>1 DEF Add, Made, IssuedInv, Ready
    <2> HIDE DEF d
    <2>2. \A c \in creds : c.id # d.id
      BY <1>0, <2>1
    <2>3. Agrees(creds, creds')
      <3>1. \A e \in creds' : e = d \/ (e.id # d.id /\ \E c \in creds : c.id = e.id /\ c.secret = e.secret)
        BY <1>0, <2>1, DerivesPut
      <3> QED BY <2>2, <3>1 DEF Agrees, Sound
    <2>4. pc'[t] = "open"
      BY <1>0, <1>1, Threaded DEF Add, Save, Goto
    <2>5. CallSecrets(t)'
      BY <2>4 DEF CallSecrets
    <2> QED BY <1>a, <2>1, <2>3, <2>5, SecretAlone DEF Kindly, Unlocked
  <1>2. ASSUME NEW c \in creds, NEW kind \in {"store", "rename"}, GetForUpdate(t, kind, c)
        PROVE  SecretInv' /\ Kindly
    <2>1. /\ UNCHANGED <<key, creds>> /\ pc'[t] = "updating" /\ job'[t].kind = kind
          /\ job'[t].copy = {c} /\ Unlocked
      BY <1>0, <1>2, Threaded DEF GetForUpdate, Ready, Goto, Job
    <2>2. CallSecrets(t)'
      BY <2>1 DEF CallSecrets, Agrees, Sound
    <2> QED BY <1>0, <1>a, <2>1, <2>2, SecretAlone DEF Kindly, Unlocked
  <1>3. ASSUME NEW input \in Inputs, Update(t, input) PROVE SecretInv' /\ Kindly
    <2>1. PICK c \in Wanted(t, input) :
             IF Unlocked /\ c.id \in IdsOf(creds) /\ NameFree(creds, c.name, c.id)
               THEN creds' = Put(creds, c) /\ Save(t, job[t].kind, c.id, None)
               ELSE Goto(t, "idle", NoJob) /\ UNCHANGED <<creds, lock>>
      BY <1>3 DEF Update
    <2>2. pc[t] = "updating" /\ key' = key /\ pc'[t] \in {"open", "idle"}
      BY <1>0, <1>3, Threaded DEF Update, Save, Goto
    <2>3. job[t].kind \in {"store", "rename"} /\ Agrees(job[t].copy, creds)
      BY <1>0, <2>2 DEF SecretInv, CallSecrets
    <2>4. CASE ~(Unlocked /\ c.id \in IdsOf(creds) /\ NameFree(creds, c.name, c.id))
      BY <1>0, <1>b, <2>1, <2>2, <2>4
    <2>5. CASE /\ Unlocked /\ c.id \in IdsOf(creds) /\ NameFree(creds, c.name, c.id)
               /\ job[t].kind = "store"
      <3>1. CallSecrets(t)'
        BY <2>2 DEF CallSecrets
      <3> QED BY <1>a, <2>2, <2>5, <3>1, SecretAlone DEF Kindly, Supplied, Unlocked
    <2>6. CASE /\ Unlocked /\ c.id \in IdsOf(creds) /\ NameFree(creds, c.name, c.id)
               /\ job[t].kind = "rename"
      <3>1. PICK b \in job[t].copy : c = [b EXCEPT !.name = input.name]
        BY <2>6 DEF Wanted
      <3>2. b \in Credential
        BY <1>0, CopiesTyped DEF Typed
      <3>3. c.id = b.id /\ c.secret = b.secret
        BY <3>1, <3>2 DEF Credential
      <3>4. PICK a \in creds : a.id = c.id
        BY <2>6 DEF IdsOf
      <3>5. a.secret = c.secret
        BY <2>3, <3>3, <3>4 DEF Agrees
      <3>6. Derives(creds, creds')
        BY <1>0, <2>1, <2>6, <3>4, <3>5, DerivesOver
      <3> QED BY <1>b, <2>2, <3>6
    <2> QED BY <2>3, <2>4, <2>5, <2>6
  <1>4. ASSUME NEW c \in creds, NEW input \in Inputs, UpdateMetadata(t, c, input)
        PROVE  SecretInv' /\ Kindly
    <2> DEFINE d == Merge(c, input)
    <2>1. d.id = c.id /\ d.secret = c.secret
      BY <1>0 DEF Merge, Credential
    <2>2. creds' = Put(creds, d) \/ creds' = Others(creds, c.id) \cup {d}
      BY <1>4 DEF UpdateMetadata
    <2> HIDE DEF d
    <2>3. Derives(creds, creds')
      BY <1>0, <2>1, <2>2, DerivesOver
    <2>4. key' = key /\ pc'[t] = "open"
      BY <1>0, <1>4, Threaded DEF UpdateMetadata, Save, Goto
    <2> QED BY <1>b, <2>3, <2>4
  <1>5. ASSUME NEW c \in creds, Delete(t, c) PROVE SecretInv' /\ Kindly
    <2>1. Derives(creds, creds')
      BY <1>5 DEF Delete, Derives
    <2>2. key' = key /\ pc'[t] = "open"
      BY <1>0, <1>5, Threaded DEF Delete, Save, Goto
    <2> QED BY <1>b, <2>1, <2>2
  <1>6. ASSUME NEW c \in creds, SetDisabled(t, c, ~c.disabled) PROVE SecretInv' /\ Kindly
    <2> DEFINE d == [c EXCEPT !.disabled = ~c.disabled]
    <2>1. d.id = c.id /\ d.secret = c.secret
      BY <1>0 DEF Credential
    <2>2. creds' = Others(creds, d.id) \cup {d}
      BY <1>6, <2>1 DEF SetDisabled
    <2> HIDE DEF d
    <2>3. Derives(creds, creds')
      BY <1>0, <2>1, <2>2, DerivesOver
    <2>4. key' = key /\ pc'[t] = "open"
      BY <1>0, <1>6, Threaded DEF SetDisabled, Save, Goto
    <2> QED BY <1>b, <2>3, <2>4
  <1>7. ASSUME NEW id \in IdsOf(creds) \cup Strays, SetDefault(t, id) PROVE SecretInv' /\ Kindly
    <2>1. Derives(creds, creds') /\ key' = key
      BY <1>0, <1>7, DerivesMarked DEF SetDefault
    <2>2. pc'[t] \in {"open", "idle"}
      BY <1>0, <1>7, Threaded DEF SetDefault, Ready, Save, Goto
    <2> QED BY <1>b, <2>1, <2>2
  <1>8. CASE UnsetDefault(t)
    <2>1. Derives(creds, creds') /\ key' = key
      BY <1>0, <1>8, DerivesClear DEF UnsetDefault
    <2>2. pc'[t] = "open"
      BY <1>0, <1>8, Threaded DEF UnsetDefault, Save, Goto
    <2> QED BY <1>b, <2>1, <2>2
  <1> QED BY <1>1, <1>2, <1>3, <1>4, <1>5, <1>6, <1>7, <1>8
          DEF EditNext, addCredential, editCredential, renameCredential, deleteCredential,
              toggleDisabled, makeDefault

LEMMA NextSecrets ==
  ASSUME Single, Typed, SecretInv, IssuedInv, Sound(creds), [Next]_vars
  PROVE  SecretInv' /\ Kindly
  <1>1. CASE UNCHANGED vars
    <2>1. UNCHANGED <<key, creds, pc, job>>
      BY <1>1 DEF vars
    <2>2. Agrees(creds, creds)
      BY DEF Agrees, Sound
    <2>3. ASSUME NEW t \in Threads PROVE CallSecrets(t)'
      <3>1. CallSecrets(t)
        BY DEF SecretInv
      <3> QED BY <2>1, <3>1 DEF CallSecrets, Unlocked
    <2> QED BY <2>1, <2>2, <2>3 DEF SecretInv, Kindly, Unlocked
  <1>2. CASE Crash
    <2>1. creds' = {} /\ key' = None /\ \A t \in Threads : pc'[t] = "idle"
      BY <1>2 DEF Crash
    <2> QED BY <2>1 DEF SecretInv, CallSecrets, Kindly, Agrees
  <1>3. ASSUME NEW t \in Threads, SaveNext(t) \/ DialNext(t) PROVE SecretInv' /\ Kindly
    BY <1>3, SaveStepsSecrets, DialStepsSecrets
  <1>4. ASSUME NEW t \in Callers, MasterNext(t) \/ EditNext(t) PROVE SecretInv' /\ Kindly
    BY <1>4, MasterStepsSecrets, EditStepsSecrets
  <1> QED BY <1>1, <1>2, <1>3, <1>4 DEF Next

(* With one thread making the vault calls: secret material changes only    *)
(* where a caller supplies it, or where the list is reloaded to re-key it. *)
(* No rename, edit, default, dial, failed save, unlock or crash touches it *)
(* (vault/metadata.go, capi/vault.go omegassh_vault_rename and _store).    *)
THEOREM SecretsAreKept ==
  ASSUME Single
  PROVE  Spec => SecretsKept
  <1>1. Init => SecretInv /\ IssuedInv
    <2> SUFFICES ASSUME Init PROVE SecretInv /\ IssuedInv
      OBVIOUS
    <2>1. SecretInv
      BY DEF Init, SecretInv, CallSecrets
    <2>2. IssuedInv
      BY NoIds, NoJobType DEF Init, IssuedInv, NoFile
    <2> QED BY <2>1, <2>2
  <1>2. Typed /\ ListsInv /\ IssuedInv /\ SecretInv /\ [Next]_vars => SecretInv'
    BY NextSecrets DEF ListsInv
  <1>3. Typed /\ ListsInv /\ IssuedInv /\ SecretInv /\ [Next]_vars
          => [\A c \in creds, d \in creds' :
                c.id = d.id /\ c.secret # d.secret =>
                  \E t \in Callers : pc[t] = "changing"
                                     \/ (pc[t] = "updating" /\ job[t].kind = "store")]_vars
    BY NextSecrets DEF ListsInv, Kindly, Supplied, Agrees
  <1>4. Init => ListsInv
    BY SoundSmall, NoJobType DEF Init, ListsInv, CopiesSound, NoFile
  <1> QED BY <1>1, <1>2, <1>3, <1>4, NextIssued, NextLists, AlwaysTyped, PTL DEF Spec, SecretsKept
===============================================================================
