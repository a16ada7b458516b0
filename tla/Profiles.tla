------------------------------ MODULE Profiles ------------------------------
(***************************************************************************)
(* The saved connection profiles (internal/config, the persisting commands *)
(* of ui/connections.go) and their secrets in the keyring of the operating *)
(* system (internal/secrets). The list in memory changes at once; a command *)
(* then brings the keyring and config.toml after it, one keyring call at a  *)
(* time, from a clone of the list. Commands of different keys run at the    *)
(* same time, each call may fail, and the program may stop between two.     *)
(***************************************************************************)
EXTENDS Integers, Sequences, FiniteSets, SequencesExt

CONSTANTS
  Names,      \* names of profiles
  MaxTyped,   \* bound on the secrets typed
  MaxCmds,    \* bound on the commands of a behaviour
  MaxFails    \* bound on the failing calls and the stops

ASSUME ProfilesBounds == MaxTyped \in Nat /\ MaxCmds \in Nat /\ MaxFails \in Nat
\* No profile is without a name (Validate).
ASSUME ProfileNames == "" \notin Names

VARIABLES
  cfg,      \* Config.Connections in memory: names, and the secrets typed for them
  disk,     \* config.toml
  ring,     \* the keyring: what is filed under a name and slot, 0 for nothing
  keyring,  \* whether this machine has one
  cmds,     \* the commands in flight
  typed,    \* how many secrets were typed
  begun,    \* how many commands were started
  fails,    \* how many calls failed or sessions stopped
  alone     \* no command overlapped another, failed or was stopped

profileVars == <<cfg, disk, ring, keyring, cmds, typed, begun, fails, alone>>

\* The database password and the SSH secret, filed under SSHKey(name).
Slots == {"db", "ssh"}
NoSecrets == [s \in Slots |-> 0]

ProfilesInit ==
  /\ cfg = <<>>
  /\ disk = [list |-> <<>>, whole |-> TRUE]
  /\ ring = [n \in Names |-> NoSecrets]
  /\ keyring \in BOOLEAN
  /\ cmds = <<>>
  /\ typed = 0 /\ begun = 0 /\ fails = 0
  /\ alone = TRUE

-----------------------------------------------------------------------------
(* The list in memory.                                                     *)

NamesOf(l) == {l[i].name : i \in DOMAIN l}
Index(l, n) == CHOOSE i \in DOMAIN l : l[i].name = n
Find(l, n) == l[Index(l, n)]

\* In the place of the profile it replaces, or at the end; a name that
\* another profile has is refused.
Upsert(l, old, p) ==
  IF p.name \in NamesOf(l) /\ p.name # old THEN l
  ELSE IF old \in NamesOf(l) THEN [l EXCEPT ![Index(l, old)] = p]
  ELSE Append(l, p)

RemoveNamed(l, n) == RemoveAt(l, Index(l, n))

\* up = TRUE is MoveUp.
Swap(l, i, j) == [l EXCEPT ![i] = l[j], ![j] = l[i]]
MoveUp(l, n) == IF Index(l, n) > 1 THEN Swap(l, Index(l, n) - 1, Index(l, n)) ELSE l
MoveDown(l, n) == IF Index(l, n) < Len(l) THEN Swap(l, Index(l, n) + 1, Index(l, n)) ELSE l

-----------------------------------------------------------------------------
(* The steps of a command. renameOne and copyOne read first, and do nothing *)
(* where nothing is filed.                                                 *)

Step(op, from, to, slot, v) == [op |-> op, from |-> from, to |-> to, slot |-> slot, v |-> v]
Write == <<Step("write", "", "", "db", 0), Step("rename", "", "", "db", 0)>>

Set(n, slot, v) == Step("set", n, n, slot, v)
Delete(n, slot) == Step("delete", n, n, slot, 0)
Rename(old, new) == IF old = new THEN <<>> ELSE <<Step("move", old, new, "db", 0), Step("move", old, new, "ssh", 0)>>
Copy(src, dst) == <<Step("copy", src, dst, "db", 0), Step("copy", src, dst, "ssh", 0)>>
Forget(n) == <<Delete(n, "db"), Delete(n, "ssh")>>

\* What was typed, into the slots of the set.
storeSecrets(n, slots, v) ==
  (IF "db" \in slots THEN <<Set(n, "db", v)>> ELSE <<>>) \o
  (IF "ssh" \in slots THEN <<Set(n, "ssh", v)>> ELSE <<>>)

persist(old, n, slots, v) == (IF old = "" THEN <<>> ELSE Rename(old, n)) \o storeSecrets(n, slots, v) \o Write

\* Plausible bug: the copied secrets are filed over the ones just typed.
duplicatePersistCopiesLast(src, n, slots, v) == storeSecrets(n, slots, v) \o Copy(src, n) \o Write

duplicatePersist(src, n, slots, v) == Copy(src, n) \o storeSecrets(n, slots, v) \o Write

forget(n) == Forget(n) \o Write

reorder == Write

-----------------------------------------------------------------------------
(* The keys of panel [1]. Each changes the list and starts its command from *)
(* a clone of it.                                                          *)

Clone(l) == l

Begin(todo) ==
  /\ begun < MaxCmds
  /\ begun' = begun + 1
  /\ cmds' = Append(cmds, [todo |-> todo, list |-> Clone(cfg')])
  /\ alone' = (alone /\ cmds = <<>>)
  /\ UNCHANGED <<disk, ring, keyring, fails>>

Typed(slots) == typed' = IF slots = {} THEN typed ELSE typed + 1

\* The secrets of a profile after a form that changed the given slots.
Meant(before, slots) == [s \in Slots |-> IF s \in slots THEN typed' ELSE before[s]]

\* The form of a new profile (old = "") or of the profile old.
SubmitForm(old, n, slots) ==
  /\ typed < MaxTyped
  /\ old = "" \/ old \in NamesOf(cfg)
  /\ n \notin NamesOf(cfg) \/ n = old
  /\ Typed(slots)
  /\ cfg' = Upsert(cfg, old,
                   [name |-> n, secrets |-> Meant(IF old = "" THEN NoSecrets ELSE Find(cfg, old).secrets, slots)])
  /\ Begin(persist(old, n, slots, typed'))

\* A name that is taken: Upsert refuses and the form stays open.
RefusedForm(old, n) ==
  /\ n \in NamesOf(cfg) /\ n # old
  /\ cfg' = Upsert(cfg, old, [name |-> n, secrets |-> NoSecrets])
  /\ UNCHANGED <<disk, ring, keyring, cmds, typed, begun, fails, alone>>

\* y: the profile src again, under a name that no profile has.
duplicateName(n) == n \notin NamesOf(cfg)

Duplicate(src, n, slots) ==
  /\ typed < MaxTyped
  /\ src \in NamesOf(cfg) /\ duplicateName(n)
  /\ Typed(slots)
  /\ cfg' = Upsert(cfg, "", [name |-> n, secrets |-> Meant(Find(cfg, src).secrets, slots)])
  /\ Begin(duplicatePersist(src, n, slots, typed'))

RemoveConnection(n) ==
  /\ n \in NamesOf(cfg)
  /\ cfg' = RemoveNamed(cfg, n)
  /\ Begin(forget(n))
  /\ UNCHANGED typed

Reorder(n) ==
  /\ n \in NamesOf(cfg)
  /\ cfg' \in {MoveUp(cfg, n), MoveDown(cfg, n)} \ {cfg}
  /\ Begin(reorder)
  /\ UNCHANGED typed

-----------------------------------------------------------------------------
(* A command's next call. Without a keyring a read and a Forget are let     *)
(* pass, and a typed secret fails the command before the file is written.   *)

Ends(i) == cmds' = RemoveAt(cmds, i)
Goes(i, before) == cmds' = [cmds EXCEPT ![i].todo = before \o Tail(@)]
Head1(i) == cmds[i].todo[1]

\* The Set and the Delete that follow the read of renameOne.
renameOne(i) ==
  LET s == Head1(i)
      held == ring[s.from][s.slot]
  IN /\ s.op = "move"
     /\ Goes(i, IF held = 0 \/ ~keyring THEN <<>>
                ELSE <<Set(s.to, s.slot, held), Delete(s.from, s.slot)>>)
     /\ UNCHANGED <<disk, ring>>

copyOne(i) ==
  LET s == Head1(i)
      held == ring[s.from][s.slot]
  IN /\ s.op = "copy"
     /\ Goes(i, IF held = 0 \/ ~keyring THEN <<>> ELSE <<Set(s.to, s.slot, held)>>)
     /\ UNCHANGED <<disk, ring>>

SetSecret(i) ==
  LET s == Head1(i)
  IN /\ s.op = "set" /\ keyring
     /\ ring' = [ring EXCEPT ![s.to][s.slot] = s.v]
     /\ Goes(i, <<>>)
     /\ UNCHANGED disk

DeleteSecret(i) ==
  LET s == Head1(i)
  IN /\ s.op = "delete"
     /\ ring' = IF keyring THEN [ring EXCEPT ![s.from][s.slot] = 0] ELSE ring
     /\ Goes(i, <<>>)
     /\ UNCHANGED disk

\* Into a temporary file of its own.
writeAtomicFile(i) ==
  /\ Head1(i).op = "write"
  /\ disk' = disk
  /\ Goes(i, <<>>)
  /\ UNCHANGED ring

\* The temporary file takes the place of the old one.
SaveTo(i) ==
  /\ Head1(i).op = "rename"
  /\ disk' = [list |-> cmds[i].list, whole |-> TRUE]
  /\ Ends(i)
  /\ UNCHANGED ring

Call ==
  /\ \E i \in DOMAIN cmds :
       renameOne(i) \/ copyOne(i) \/ SetSecret(i) \/ DeleteSecret(i) \/ writeAtomicFile(i) \/ SaveTo(i)
  /\ UNCHANGED <<cfg, keyring, typed, begun, fails, alone>>

\* connPersistedMsg with an error only logs: the list in memory keeps what
\* the file does not have.
PersistFails(i) ==
  /\ \/ Head1(i).op = "set" /\ ~keyring
     \/ fails < MaxFails /\ (Head1(i).op \in {"write", "rename"} \/ keyring)
  /\ Ends(i)
  /\ fails' = IF Head1(i).op = "set" /\ ~keyring THEN fails ELSE fails + 1
  /\ alone' = FALSE
  /\ UNCHANGED <<cfg, disk, ring, keyring, typed, begun>>

\* The program stops, whatever is in flight, and starts again from the file.
LoadFrom(d) == IF d.whole THEN d.list ELSE <<>>

Restart ==
  /\ fails < MaxFails
  /\ fails' = fails + 1
  /\ cfg' = LoadFrom(disk)
  /\ cmds' = <<>>
  /\ alone' = (alone /\ cmds = <<>>)
  /\ UNCHANGED <<disk, ring, keyring, typed, begun>>

ProfilesNext ==
  \/ \E n \in Names, slots \in SUBSET Slots, old \in Names \cup {""} : SubmitForm(old, n, slots)
  \/ \E n \in Names, old \in Names \cup {""} : RefusedForm(old, n)
  \/ \E src, n \in Names, slots \in SUBSET Slots : Duplicate(src, n, slots)
  \/ \E n \in Names : RemoveConnection(n) \/ Reorder(n)
  \/ Call
  \/ \E i \in DOMAIN cmds : PersistFails(i)
  \/ Restart

ProfilesSpec == ProfilesInit /\ [][ProfilesNext]_profileVars

-----------------------------------------------------------------------------
(* Names are unique, in memory and on disk.                                *)
UniqueNames == \A l \in {cfg, disk.list} : Cardinality(NamesOf(l)) = Len(l)

(* However the program stops, config.toml is a whole list.                 *)
FileWhole == disk.whole

(* When each command had the keyring and the file for itself and none       *)
(* failed, then at rest the file is the list, each profile has the secrets  *)
(* last typed for it or copied with it, and no secret is left of a profile  *)
(* that was removed or renamed.                                            *)
Followed ==
  alone /\ cmds = <<>> =>
    /\ disk.list = cfg
    /\ keyring => \A n \in Names : ring[n] = IF n \in NamesOf(cfg) THEN Find(cfg, n).secrets ELSE NoSecrets

(* The saved profiles survive what is done with them: config.toml is always *)
(* one whole list with unique names (config.SaveTo, Upsert), and at rest it *)
(* and the keyring say what the panel says (persistCmd,                     *)
(* duplicatePersistCmd, forgetCmd, secrets.Rename).                         *)
ProfilesKept == UniqueNames /\ FileWhole /\ Followed
=============================================================================
