-------------------------- MODULE DeploymentProofs --------------------------
(***************************************************************************)
(* Theorems about deployment and its checks, for any number of builds at   *)
(* once, any settings, any failures and strangers, any file an operator    *)
(* writes by hand, and calls of verify-deploy that fail.                   *)
(***************************************************************************)
EXTENDS DeployChecks, TLAPS, FiniteSetTheorems, SequenceTheorems, WellFoundedInduction

Entries == [sender : Nat, owner : {"us", "stranger"}, machineOwner : BOOLEAN,
            projectOwner : BOOLEAN, evmKeys : BOOLEAN]

Stages == {"idle", "preflight", "deploy", "register", "machineOwner", "projectOwner", "evmKeys",
           "adopt", "truncate", "write", "done", "failed", "refused"}

BuildRecords == [pc : Stages, sender : Nat, id : Nat]

DeployTypeOK ==
    /\ environ \in Environs
    /\ escrows \in Seq(Nat)
    /\ registry \in Seq(Entries)
    /\ build \in [Builds -> BuildRecords]
    /\ envFile = Absent \/ envFile.exists = TRUE

(* The escrow has taken an id that is its own, and no later one than id.   *)
Adopted(id, sender) ==
    /\ sender \in 1..Len(escrows)
    /\ escrows[sender] \in Matches(sender) /\ escrows[sender] <= id

(* How far a build has got, and what is on the chain by then. *)
BuildOK(c) ==
    /\ c.sender \in 0..Len(escrows)
    /\ c.pc \in {"register", "machineOwner", "projectOwner", "evmKeys", "adopt", "truncate", "write"}
          => c.sender # None
    /\ c.pc \in {"machineOwner", "projectOwner", "evmKeys", "adopt", "truncate", "write"}
          => Registered(c.id, c.sender)
    /\ c.pc \in {"projectOwner", "evmKeys", "adopt", "truncate", "write"}
          => registry[c.id].machineOwner
    /\ c.pc \in {"evmKeys", "adopt", "truncate", "write"} => registry[c.id].projectOwner
    /\ c.pc \in {"adopt", "truncate", "write"} => registry[c.id].evmKeys
    /\ c.pc \in {"truncate", "write"} => Adopted(c.id, c.sender)

(* SetupExtension's steps are taken in their order, on extensions of       *)
(* escrows that exist.                                                     *)
EntryOK(e) ==
    /\ e.evmKeys => e.projectOwner
    /\ e.projectOwner => e.machineOwner
    /\ e.machineOwner => e.sender \in 1..Len(escrows)

NoDuplicates ==
    environ.rejectsDuplicates => \A i, j \in 1..Len(registry) :
        registry[i].sender = registry[j].sender /\ registry[i].sender # None => i = j

(* What pre-build.sh wrote, with or without duplicates. *)
FileOK(file) ==
    file.id # None => Usable(file.id, file.sender) /\ Adopted(file.id, file.sender)

DeployInv ==
    /\ DeployTypeOK
    /\ \A b \in Builds : BuildOK(build[b])
    /\ \A i \in 1..Len(registry) : EntryOK(registry[i])
    /\ NoDuplicates
    /\ environ.edits = {} => FileOK(envFile)
-----------------------------------------------------------------------------
(* What no step takes back: the settings stay, escrows and extensions are  *)
(* only added, an adopted id is kept, a setting that is there stays.       *)
Grows ==
    /\ environ' = environ
    /\ Len(escrows) <= Len(escrows')
    /\ \A s \in 1..Len(escrows) : escrows[s] # None => escrows'[s] = escrows[s]
    /\ Len(registry) <= Len(registry')
    /\ \A i \in 1..Len(registry) :
          /\ registry'[i].sender = registry[i].sender
          /\ registry[i].machineOwner => registry'[i].machineOwner
          /\ registry[i].projectOwner => registry'[i].projectOwner
          /\ registry[i].evmKeys => registry'[i].evmKeys

(* What has been set up stays set up. *)
LEMMA GrowsKeepsUsable ==
    ASSUME DeployTypeOK, Grows, DeployTypeOK', NEW id, NEW sender
    PROVE  /\ Registered(id, sender) => Registered(id, sender)'
           /\ Usable(id, sender) => Usable(id, sender)'
           /\ Adopted(id, sender) => Adopted(id, sender)'
  <1>1. Len(registry) \in Nat /\ Len(registry') \in Nat /\ Len(escrows) \in Nat /\ Len(escrows') \in Nat
    BY DEF DeployTypeOK
  <1>2. Registered(id, sender) => Registered(id, sender)'
    BY <1>1 DEF Grows, Registered
  <1>3. Usable(id, sender) => Usable(id, sender)'
    BY <1>1, <1>2 DEF Grows, Registered, Usable
  <1>4. Adopted(id, sender) => Adopted(id, sender)'
    <2>1. SUFFICES ASSUME Adopted(id, sender) PROVE Adopted(id, sender)'
      OBVIOUS
    <2>2. PICK k : k = escrows[sender]
      OBVIOUS
    <2>3. /\ sender \in 1..Len(escrows) /\ k \in 1..Len(registry) /\ k <= id
          /\ registry[k].sender = sender
      BY <2>1, <2>2 DEF Adopted, Matches
    <2>4. escrows'[sender] = k
      BY <1>1, <2>2, <2>3 DEF Grows, None
    <2>5. k \in 1..Len(registry') /\ registry'[k].sender = sender /\ sender \in 1..Len(escrows')
      BY <1>1, <2>3 DEF Grows
    <2>6. QED
      BY <2>3, <2>4, <2>5 DEF Adopted, Matches
  <1>5. QED
    BY <1>2, <1>3, <1>4

LEMMA GrowsKeepsBuild ==
    ASSUME DeployTypeOK, Grows, DeployTypeOK', NEW c \in BuildRecords, BuildOK(c)
    PROVE  BuildOK(c)'
  <1>1. Len(registry) \in Nat /\ Len(registry') \in Nat /\ Len(escrows) \in Nat /\ Len(escrows') \in Nat
    BY DEF DeployTypeOK
  <1>2. /\ Registered(c.id, c.sender) => Registered(c.id, c.sender)'
        /\ Adopted(c.id, c.sender) => Adopted(c.id, c.sender)'
    BY GrowsKeepsUsable
  <1>3. Registered(c.id, c.sender) =>
           /\ registry[c.id].machineOwner => registry'[c.id].machineOwner
           /\ registry[c.id].projectOwner => registry'[c.id].projectOwner
           /\ registry[c.id].evmKeys => registry'[c.id].evmKeys
    BY DEF Grows, Registered
  <1>4. c.sender \in 0..Len(escrows) => c.sender \in 0..Len(escrows')
    BY <1>1 DEF Grows
  <1>5. QED
    BY <1>2, <1>3, <1>4 DEF BuildOK

LEMMA GrowsKeepsFile ==
    ASSUME DeployTypeOK, Grows, DeployTypeOK', NEW file, FileOK(file)
    PROVE  FileOK(file)'
  BY GrowsKeepsUsable DEF FileOK

(* The chain does not change. *)
LEMMA ChainStays ==
    ASSUME DeployInv, UNCHANGED <<environ, escrows, registry>>
    PROVE  /\ Grows /\ escrows' \in Seq(Nat) /\ registry' \in Seq(Entries)
           /\ (\A i \in 1..Len(registry) : EntryOK(registry[i]))' /\ NoDuplicates'
  <1>1. Len(registry) \in Nat /\ Len(escrows) \in Nat
    BY DEF DeployInv, DeployTypeOK
  <1>2. Grows
    BY <1>1 DEF Grows
  <1>3. QED
    BY <1>2 DEF DeployInv, DeployTypeOK, EntryOK, NoDuplicates

LEMMA EscrowAdded ==
    ASSUME DeployInv, escrows' = Append(escrows, None), UNCHANGED <<environ, registry>>
    PROVE  /\ Grows /\ escrows' \in Seq(Nat) /\ registry' \in Seq(Entries)
           /\ Len(escrows') = Len(escrows) + 1
           /\ (\A i \in 1..Len(registry) : EntryOK(registry[i]))' /\ NoDuplicates'
  <1>1. escrows \in Seq(Nat) /\ registry \in Seq(Entries)
    BY DEF DeployInv, DeployTypeOK
  <1>2. /\ Len(registry) \in Nat /\ Len(escrows) \in Nat
        /\ escrows' \in Seq(Nat) /\ Len(escrows') = Len(escrows) + 1
        /\ \A s \in 1..Len(escrows) : escrows'[s] = escrows[s]
    BY <1>1 DEF None
  <1>3. Grows
    BY <1>2 DEF Grows
  <1>4. (\A i \in 1..Len(registry) : EntryOK(registry[i]))'
    <2>1. 1..Len(escrows) \subseteq 1..Len(escrows')
      BY <1>2
    <2>2. QED
      BY <2>1 DEF DeployInv, EntryOK
  <1>5. QED
    BY <1>1, <1>2, <1>3, <1>4 DEF DeployInv, NoDuplicates

LEMMA ExtensionAdded ==
    ASSUME DeployInv, NEW s \in Nat, NEW o \in {"us", "stranger"},
           registry' = Append(registry, Entry(s, o)), UNCHANGED <<environ, escrows>>,
           environ.rejectsDuplicates /\ s # None => Matches(s) = {}
    PROVE  /\ Grows /\ escrows' \in Seq(Nat) /\ registry' \in Seq(Entries)
           /\ Len(registry') = Len(registry) + 1 /\ registry'[Len(registry) + 1].sender = s
           /\ (\A i \in 1..Len(registry) : EntryOK(registry[i]))' /\ NoDuplicates'
  <1>1. escrows \in Seq(Nat) /\ registry \in Seq(Entries)
    BY DEF DeployInv, DeployTypeOK
  <1>2. PICK e : e = Entry(s, o)
    OBVIOUS
  <1>3. e \in Entries /\ e.sender = s /\ ~e.machineOwner /\ ~e.projectOwner /\ ~e.evmKeys
    BY <1>2 DEF Entry, Entries
  <1>4. PICK n \in Nat : n = Len(registry)
    BY <1>1
  <1>5. /\ registry' \in Seq(Entries) /\ Len(registry') = n + 1
        /\ \A i \in 1..n : registry'[i] = registry[i]
        /\ registry'[n + 1] = e
    BY <1>1, <1>2, <1>3, <1>4
  <1>6. Grows
    BY <1>1, <1>4, <1>5 DEF Grows
  <1>7. (\A i \in 1..Len(registry) : EntryOK(registry[i]))'
    <2>1. SUFFICES ASSUME NEW i \in 1..Len(registry') PROVE EntryOK(registry[i])'
      BY Zenon
    <2>2. CASE i = n + 1
      BY <2>2, <1>5, <1>3 DEF EntryOK
    <2>3. CASE i # n + 1
      <3>1. i \in 1..n
        BY <2>3, <1>5
      <3>2. EntryOK(registry[i])
        BY <3>1, <1>4 DEF DeployInv
      <3>3. QED
        BY <3>1, <3>2, <1>5 DEF EntryOK
    <2>4. QED
      BY <2>2, <2>3
  <1>8. NoDuplicates'
    <2>1. SUFFICES ASSUME environ.rejectsDuplicates, NEW i \in 1..(n + 1), NEW j \in 1..(n + 1),
                          registry'[i].sender = registry'[j].sender, registry'[i].sender # None
                   PROVE  i = j
      BY <1>5 DEF NoDuplicates
    <2>2. \A k \in 1..n : s # None => registry[k].sender # s
      BY <2>1, <1>4 DEF Matches
    <2>3. CASE i \in 1..n /\ j \in 1..n
      BY <2>1, <2>3, <1>4, <1>5 DEF DeployInv, NoDuplicates
    <2>4. CASE i = n + 1 /\ j \in 1..n
      BY <2>1, <2>2, <2>4, <1>3, <1>5
    <2>5. CASE j = n + 1 /\ i \in 1..n
      BY <2>1, <2>2, <2>5, <1>3, <1>5
    <2>6. QED
      BY <2>3, <2>4, <2>5
  <1>9. QED
    BY <1>1, <1>3, <1>4, <1>5, <1>6, <1>7, <1>8

LEMMA EntryReplaced ==
    ASSUME registry \in Seq(Entries), NEW k \in 1..Len(registry), NEW e \in Entries,
           registry' = [registry EXCEPT ![k] = e]
    PROVE  /\ registry' \in Seq(Entries) /\ Len(registry') = Len(registry)
           /\ registry'[k] = e
           /\ \A i \in 1..Len(registry) : i # k => registry'[i] = registry[i]
  BY ExceptSeq

(* One of the settings of an extension. *)
Flags == {"machineOwner", "projectOwner", "evmKeys"}

LEMMA FlagSet ==
    ASSUME DeployInv, NEW k \in 1..Len(registry), NEW flag \in Flags,
           NEW e, e = [registry[k] EXCEPT ![flag] = TRUE],
           registry' = [registry EXCEPT ![k] = e], UNCHANGED <<environ, escrows>>,
           registry[k].sender \in 1..Len(escrows),
           flag \in {"projectOwner", "evmKeys"} => registry[k].machineOwner,
           flag = "evmKeys" => registry[k].projectOwner
    PROVE  /\ Grows /\ escrows' \in Seq(Nat) /\ registry' \in Seq(Entries)
           /\ Len(registry') = Len(registry)
           /\ registry'[k][flag] = TRUE
           /\ (\A i \in 1..Len(registry) : EntryOK(registry[i]))' /\ NoDuplicates'
  <1>1. escrows \in Seq(Nat) /\ registry \in Seq(Entries)
    BY DEF DeployInv, DeployTypeOK
  <1>3. registry[k] \in Entries
    BY <1>1
  <1>4. /\ e \in Entries /\ e.sender = registry[k].sender /\ e[flag] = TRUE
        /\ registry[k].machineOwner => e.machineOwner
        /\ registry[k].projectOwner => e.projectOwner
        /\ registry[k].evmKeys => e.evmKeys
        /\ e.machineOwner => flag = "machineOwner" \/ registry[k].machineOwner
        /\ e.projectOwner => flag = "projectOwner" \/ registry[k].projectOwner
        /\ e.evmKeys => flag = "evmKeys" \/ registry[k].evmKeys
    BY <1>3 DEF Entries, Flags
  <1>6. /\ registry' \in Seq(Entries) /\ Len(registry') = Len(registry)
        /\ registry'[k] = e
        /\ \A i \in 1..Len(registry) : i # k => registry'[i] = registry[i]
    BY <1>1, <1>4, EntryReplaced, Zenon
  <1>7. Grows
    <2>1. Len(registry) \in Nat /\ Len(escrows) \in Nat
      BY <1>1
    <2>2. ASSUME NEW i \in 1..Len(registry)
          PROVE  /\ registry'[i].sender = registry[i].sender
                 /\ registry[i].machineOwner => registry'[i].machineOwner
                 /\ registry[i].projectOwner => registry'[i].projectOwner
                 /\ registry[i].evmKeys => registry'[i].evmKeys
      <3>1. CASE i = k
        BY <3>1, <1>4, <1>6, Zenon
      <3>2. CASE i # k
        BY <3>2, <1>6, Zenon
      <3>3. QED
        BY <3>1, <3>2
    <2>3. Len(registry) <= Len(registry)
      BY <2>1
    <2>4. Len(escrows) <= Len(escrows)
      BY <2>1
    <2>5. QED
      BY <2>2, <2>3, <2>4, <1>6, Zenon DEF Grows
  <1>8. EntryOK(registry[k])
    BY DEF DeployInv
  <1>9. (\A i \in 1..Len(registry) : EntryOK(registry[i]))'
    <2>1. SUFFICES ASSUME NEW i \in 1..Len(registry') PROVE EntryOK(registry[i])'
      BY Zenon
    <2>2. CASE i = k
      <3>1. e.evmKeys => e.projectOwner
        BY <1>4, <1>8 DEF EntryOK
      <3>2. e.projectOwner => e.machineOwner
        BY <1>4, <1>8 DEF EntryOK
      <3>3. QED
        BY <2>2, <3>1, <3>2, <1>4, <1>6 DEF EntryOK
    <2>3. CASE i # k
      BY <2>1, <2>3, <1>6 DEF EntryOK, DeployInv
    <2>4. QED
      BY <2>2, <2>3
  <1>10. \A i \in 1..Len(registry) : registry'[i].sender = registry[i].sender
    BY <1>7 DEF Grows
  <1>11. NoDuplicates'
    <2>1. SUFFICES ASSUME environ.rejectsDuplicates,
                          NEW i \in 1..Len(registry), NEW j \in 1..Len(registry),
                          registry'[i].sender = registry'[j].sender, registry'[i].sender # None
                   PROVE  i = j
      BY <1>6, Zenon DEF NoDuplicates
    <2>2. QED
      BY <2>1, <1>10, Zenon DEF NoDuplicates, DeployInv
  <1>12. QED
    BY <1>1, <1>4, <1>6, <1>7, <1>9, <1>11

LEMMA FileStays ==
    ASSUME DeployInv, Grows, DeployTypeOK', envFile' = envFile
    PROVE  (environ.edits = {} => FileOK(envFile))'
  <1>1. SUFFICES ASSUME environ.edits = {} PROVE FileOK(envFile)'
    BY DEF Grows
  <1>2. PICK file : file = envFile
    OBVIOUS
  <1>3. FileOK(file)'
    BY <1>1, <1>2, GrowsKeepsFile DEF DeployInv
  <1>4. QED
    BY <1>2, <1>3 DEF FileOK, Usable, Registered, Adopted, Matches

(* A build goes on; the other builds are as good as they were. *)
LEMMA BuildMoves ==
    ASSUME DeployInv, DeployTypeOK', Grows, (\A i \in 1..Len(registry) : EntryOK(registry[i]))', NoDuplicates',
           NEW b \in Builds, NEW c \in BuildRecords, build' = [build EXCEPT ![b] = c], BuildOK(c)',
           (environ.edits = {} => FileOK(envFile))'
    PROVE  DeployInv'
  <1>1. build \in [Builds -> BuildRecords]
    BY DEF DeployInv, DeployTypeOK
  <1>2. (\A x \in Builds : BuildOK(build[x]))'
    <2>1. SUFFICES ASSUME NEW x \in Builds PROVE BuildOK(build[x])'
      BY Zenon
    <2>2. CASE x = b
      <3>1. build'[x] = c
        BY <1>1, <2>2
      <3>2. QED
        BY <3>1 DEF BuildOK, Registered, Adopted, Matches
    <2>3. CASE x # b
      <3>1. PICK d \in BuildRecords : d = build[x]
        BY <1>1
      <3>2. BuildOK(d)
        BY <3>1 DEF DeployInv
      <3>3. BuildOK(d)'
        BY <3>2, GrowsKeepsBuild DEF DeployInv
      <3>4. build'[x] = d
        BY <1>1, <2>3, <3>1
      <3>5. QED
        BY <3>3, <3>4 DEF BuildOK, Registered, Adopted, Matches
    <2>4. QED
      BY <2>2, <2>3
  <1>3. QED
    BY <1>2, Zenon DEF DeployInv

LEMMA GotoRecord ==
    ASSUME build \in [Builds -> BuildRecords], NEW b \in Builds, NEW p \in Stages, Goto(b, p)
    PROVE  \E c \in BuildRecords : /\ build' = [build EXCEPT ![b] = c]
                                   /\ build' \in [Builds -> BuildRecords]
                                   /\ c.pc = p /\ c.sender = build[b].sender /\ c.id = build[b].id
  <1>1. build[b] \in BuildRecords
    OBVIOUS
  <1>2. PICK c : c = [build[b] EXCEPT !.pc = p]
    OBVIOUS
  <1>3. c \in BuildRecords /\ c.pc = p /\ c.sender = build[b].sender /\ c.id = build[b].id
    BY <1>1, <1>2 DEF BuildRecords
  <1>4. build' = [build EXCEPT ![b] = c]
    BY <1>2 DEF Goto
  <1>5. QED
    BY <1>3, <1>4

LEMMA DieRecord ==
    ASSUME build \in [Builds -> BuildRecords], NEW b \in Builds, Die(b)
    PROVE  \E c \in BuildRecords : /\ build' = [build EXCEPT ![b] = c]
                                   /\ build' \in [Builds -> BuildRecords]
                                   /\ c.pc = "failed" /\ c.sender = build[b].sender
  <1>1. build[b] \in BuildRecords
    OBVIOUS
  <1>2. PICK c : c = [build[b] EXCEPT !.pc = "failed", !.id = None]
    OBVIOUS
  <1>3. c \in BuildRecords /\ c.pc = "failed" /\ c.sender = build[b].sender
    BY <1>1, <1>2 DEF BuildRecords, Stages, None
  <1>4. build' = [build EXCEPT ![b] = c]
    BY <1>2 DEF Die
  <1>5. QED
    BY <1>3, <1>4

(* A build that ends early asks for nothing of the chain. *)
LEMMA DieKeeps ==
    ASSUME DeployInv, Grows, escrows' \in Seq(Nat), registry' \in Seq(Entries),
           (\A i \in 1..Len(registry) : EntryOK(registry[i]))', NoDuplicates',
           NEW b \in Builds, Die(b), envFile' = envFile
    PROVE  DeployInv'
  <1>1. build \in [Builds -> BuildRecords]
    BY DEF DeployInv, DeployTypeOK
  <1>2. PICK c \in BuildRecords : /\ build' = [build EXCEPT ![b] = c]
                                  /\ build' \in [Builds -> BuildRecords]
                                  /\ c.pc = "failed" /\ c.sender = build[b].sender
    BY <1>1, DieRecord
  <1>3. DeployTypeOK'
    BY <1>2 DEF DeployInv, DeployTypeOK, Grows
  <1>4. c.sender \in 0..Len(escrows')
    <2>1. c.sender \in 0..Len(escrows) /\ Len(escrows) \in Nat /\ Len(escrows') \in Nat
      BY <1>2, <1>3 DEF DeployInv, DeployTypeOK, BuildOK
    <2>2. QED
      BY <2>1 DEF Grows
  <1>5. BuildOK(c)'
    BY <1>2, <1>4 DEF BuildOK
  <1>6. QED
    BY <1>2, <1>3, <1>5, FileStays, BuildMoves

(* A build goes on to the next stage, which needs no more of the chain     *)
(* than it has there.                                                      *)
LEMMA GotoKeeps ==
    ASSUME DeployInv, Grows, escrows' \in Seq(Nat), registry' \in Seq(Entries),
           (\A i \in 1..Len(registry) : EntryOK(registry[i]))', NoDuplicates',
           NEW b \in Builds, NEW p \in Stages, Goto(b, p), envFile' = envFile,
           \A c \in BuildRecords :
              c.pc = p /\ c.sender = build[b].sender /\ c.id = build[b].id => BuildOK(c)'
    PROVE  DeployInv'
  <1>1. build \in [Builds -> BuildRecords]
    BY DEF DeployInv, DeployTypeOK
  <1>2. PICK c \in BuildRecords : /\ build' = [build EXCEPT ![b] = c]
                                  /\ build' \in [Builds -> BuildRecords]
                                  /\ c.pc = p /\ c.sender = build[b].sender /\ c.id = build[b].id
    BY <1>1, GotoRecord
  <1>3. DeployTypeOK'
    BY <1>2 DEF DeployInv, DeployTypeOK, Grows
  <1>4. BuildOK(c)'
    BY <1>2
  <1>5. QED
    BY <1>2, <1>3, <1>4, FileStays, BuildMoves

LEMMA StartKeeps ==
    ASSUME DeployInv, NEW b \in Builds, Start(b)
    PROVE  DeployInv' /\ Grows
  <1>1. /\ Grows /\ escrows' \in Seq(Nat) /\ registry' \in Seq(Entries)
        /\ (\A i \in 1..Len(registry) : EntryOK(registry[i]))' /\ NoDuplicates'
    BY ChainStays DEF Start
  <1>2. envFile' = envFile /\ escrows' = escrows
    BY DEF Start
  <1>3. build \in [Builds -> BuildRecords] /\ BuildOK(build[b])
    BY DEF DeployInv, DeployTypeOK
  <1>4. CASE build' = [build EXCEPT ![b] = [Idle EXCEPT !.pc = "preflight"]]
    <2>1. PICK c : c = [Idle EXCEPT !.pc = "preflight"]
      OBVIOUS
    <2>2. c \in BuildRecords /\ c.pc = "preflight" /\ c.sender = None
      BY <2>1 DEF Idle, BuildRecords, Stages, None
    <2>3. build' = [build EXCEPT ![b] = c] /\ build' \in [Builds -> BuildRecords]
      BY <1>3, <1>4, <2>1, <2>2
    <2>4. DeployTypeOK'
      BY <1>1, <1>2, <2>3 DEF DeployInv, DeployTypeOK, Grows
    <2>5. c.sender \in 0..Len(escrows')
      BY <2>2, <2>4 DEF None, DeployTypeOK
    <2>6. BuildOK(c)'
      BY <2>2, <2>5 DEF BuildOK
    <2>7. QED
      BY <1>1, <1>2, <2>2, <2>3, <2>4, <2>6, FileStays, BuildMoves
  <1>5. CASE build[b].pc = "failed" /\ build[b].sender # None /\ Goto(b, "register")
    <2>1. \A c \in BuildRecords :
             c.pc = "register" /\ c.sender = build[b].sender /\ c.id = build[b].id => BuildOK(c)'
      BY <1>2, <1>3, <1>5 DEF BuildOK
    <2>2. QED
      BY <1>1, <1>2, <1>5, <2>1, GotoKeeps DEF Stages
  <1>6. QED
    BY <1>4, <1>5 DEF Start

LEMMA DeployKeeps ==
    ASSUME DeployInv, NEW b \in Builds, Preflight(b) \/ DeployRefused(b) \/ DeployWorkProofEscrow(b)
    PROVE  DeployInv' /\ Grows
  <1>1. build \in [Builds -> BuildRecords] /\ BuildOK(build[b])
    BY DEF DeployInv, DeployTypeOK
  <1>2. CASE Preflight(b)
    <2>1. /\ Grows /\ escrows' \in Seq(Nat) /\ registry' \in Seq(Entries)
          /\ (\A i \in 1..Len(registry) : EntryOK(registry[i]))' /\ NoDuplicates'
      BY <1>2, ChainStays DEF Preflight
    <2>2. \A c \in BuildRecords :
             c.pc = "deploy" /\ c.sender = build[b].sender /\ c.id = build[b].id => BuildOK(c)'
      BY <1>1, <1>2 DEF BuildOK, Preflight
    <2>3. CASE Goto(b, "deploy")
      BY <1>2, <2>1, <2>2, <2>3, GotoKeeps DEF Stages, Preflight
    <2>4. CASE Die(b)
      BY <1>2, <2>1, <2>4, DieKeeps DEF Preflight
    <2>5. QED
      BY <1>2, <2>3, <2>4 DEF Preflight
  <1>3. CASE DeployRefused(b)
    <2>1. /\ Grows /\ escrows' \in Seq(Nat) /\ registry' \in Seq(Entries)
          /\ (\A i \in 1..Len(registry) : EntryOK(registry[i]))' /\ NoDuplicates'
      BY <1>3, ChainStays DEF DeployRefused
    <2>2. QED
      BY <1>3, <2>1, DieKeeps DEF DeployRefused
  <1>4. CASE DeployWorkProofEscrow(b)
    <2>1. /\ Grows /\ escrows' \in Seq(Nat) /\ registry' \in Seq(Entries)
          /\ Len(escrows') = Len(escrows) + 1
          /\ (\A i \in 1..Len(registry) : EntryOK(registry[i]))' /\ NoDuplicates'
      BY <1>4, EscrowAdded DEF DeployWorkProofEscrow
    <2>2. PICK n \in Nat : n = Len(escrows) + 1
      BY DEF DeployInv, DeployTypeOK
    <2>3. PICK c : c = [build[b] EXCEPT !.pc = "register", !.sender = n]
      OBVIOUS
    <2>4. build[b] \in BuildRecords
      BY <1>1
    <2>5. c \in BuildRecords /\ c.pc = "register" /\ c.sender = n
      BY <2>3, <2>4 DEF BuildRecords, Stages
    <2>6. build' = [build EXCEPT ![b] = c] /\ envFile' = envFile
      BY <1>4, <2>2, <2>3 DEF DeployWorkProofEscrow
    <2>7. build' \in [Builds -> BuildRecords]
      BY <1>1, <2>5, <2>6
    <2>8. DeployTypeOK'
      BY <2>1, <2>6, <2>7 DEF DeployInv, DeployTypeOK, Grows
    <2>9. c.sender \in 0..Len(escrows') /\ c.sender # None
      <3>1. Len(escrows) \in Nat
        BY DEF DeployInv, DeployTypeOK
      <3>2. QED
        BY <3>1, <2>1, <2>2, <2>5 DEF None
    <2>10. BuildOK(c)'
      BY <2>5, <2>9 DEF BuildOK
    <2>11. QED
      BY <2>1, <2>5, <2>6, <2>8, <2>10, FileStays, BuildMoves
  <1>5. QED
    BY <1>2, <1>3, <1>4

LEMMA RegisterKeeps ==
    ASSUME DeployInv, NEW b \in Builds, registerExtension(b) \/ RegisterRefused(b)
    PROVE  DeployInv' /\ Grows
  <1>1. build \in [Builds -> BuildRecords] /\ BuildOK(build[b]) /\ build[b] \in BuildRecords
    BY DEF DeployInv, DeployTypeOK
  <1>2. CASE registerExtension(b)
    <2>1. PICK s \in Nat : s = build[b].sender
      BY <1>1 DEF BuildRecords
    <2>2. s # None /\ s \in 0..Len(escrows)
      BY <1>1, <1>2, <2>1 DEF BuildOK, registerExtension
    <2>3. registry' = Append(registry, Entry(s, "us")) /\ UNCHANGED <<environ, escrows, envFile>>
      BY <1>2, <2>1 DEF registerExtension
    <2>4. environ.rejectsDuplicates => Matches(s) = {}
      BY <1>2, <2>1 DEF registerExtension, Registrable
    <2>5. /\ Grows /\ escrows' \in Seq(Nat) /\ registry' \in Seq(Entries)
          /\ Len(registry') = Len(registry) + 1 /\ registry'[Len(registry) + 1].sender = s
          /\ (\A i \in 1..Len(registry) : EntryOK(registry[i]))' /\ NoDuplicates'
      BY <2>3, <2>4, ExtensionAdded
    <2>6. PICK n \in Nat : n = Len(registry) + 1
      BY DEF DeployInv, DeployTypeOK
    <2>7. PICK c : c = [build[b] EXCEPT !.pc = "machineOwner", !.id = n]
      OBVIOUS
    <2>8. c \in BuildRecords /\ c.pc = "machineOwner" /\ c.sender = s /\ c.id = n
      BY <1>1, <2>1, <2>7 DEF BuildRecords, Stages
    <2>9. build' = [build EXCEPT ![b] = c]
      BY <1>2, <2>6, <2>7 DEF registerExtension
    <2>10. build' \in [Builds -> BuildRecords]
      BY <1>1, <2>8, <2>9
    <2>11. DeployTypeOK'
      BY <2>3, <2>5, <2>10 DEF DeployInv, DeployTypeOK
    <2>12. n \in 1..Len(registry')
      <3>1. Len(registry) \in Nat
        BY DEF DeployInv, DeployTypeOK
      <3>2. QED
        BY <3>1, <2>5, <2>6
    <2>13. BuildOK(c)'
      BY <2>2, <2>3, <2>5, <2>6, <2>8, <2>12 DEF BuildOK, Registered
    <2>14. QED
      BY <2>3, <2>5, <2>8, <2>9, <2>11, <2>13, FileStays, BuildMoves
  <1>3. CASE RegisterRefused(b)
    <2>1. /\ Grows /\ escrows' \in Seq(Nat) /\ registry' \in Seq(Entries)
          /\ (\A i \in 1..Len(registry) : EntryOK(registry[i]))' /\ NoDuplicates'
      BY <1>3, ChainStays DEF RegisterRefused
    <2>2. \A c \in BuildRecords :
             c.pc = "refused" /\ c.sender = build[b].sender /\ c.id = build[b].id => BuildOK(c)'
      BY <1>1, <1>3 DEF BuildOK, RegisterRefused
    <2>3. QED
      BY <1>3, <2>1, <2>2, GotoKeeps DEF RegisterRefused, Stages
  <1>4. QED
    BY <1>2, <1>3

LEMMA SetsOnChain ==
    ASSUME DeployInv, NEW b \in Builds, NEW p \in Flags, Sets(b, p), UNCHANGED <<environ, escrows>>
    PROVE  /\ Grows /\ escrows' \in Seq(Nat) /\ registry' \in Seq(Entries)
           /\ Len(registry') = Len(registry) /\ registry'[build[b].id][p] = TRUE
           /\ (\A i \in 1..Len(registry) : EntryOK(registry[i]))' /\ NoDuplicates'
           /\ Registered(build[b].id, build[b].sender)
           /\ build[b].sender # None /\ build[b].sender \in 1..Len(escrows)
           /\ p \in {"projectOwner", "evmKeys"} => registry[build[b].id].machineOwner
           /\ p = "evmKeys" => registry[build[b].id].projectOwner
  <1>1. build \in [Builds -> BuildRecords] /\ BuildOK(build[b]) /\ build[b] \in BuildRecords
    BY DEF DeployInv, DeployTypeOK
  <1>2. build[b].pc = p
    BY DEF Sets
  <1>3. PICK k, s : k = build[b].id /\ s = build[b].sender
    OBVIOUS
  <1>4. Registered(k, s) /\ s # None /\ s \in 0..Len(escrows) /\ Len(escrows) \in Nat
    BY <1>1, <1>2, <1>3 DEF BuildOK, DeployInv, DeployTypeOK, Flags
  <1>5. k \in 1..Len(registry) /\ registry[k].sender = s /\ s \in 1..Len(escrows)
    BY <1>4 DEF Registered, None
  <1>6. /\ p \in {"projectOwner", "evmKeys"} => registry[k].machineOwner
        /\ p = "evmKeys" => registry[k].projectOwner
    BY <1>1, <1>2, <1>3 DEF BuildOK
  <1>7. PICK e : e = [registry[k] EXCEPT ![p] = TRUE]
    OBVIOUS
  <1>8. registry' = [registry EXCEPT ![k] = e]
    BY <1>3, <1>7 DEF Sets
  <1>9. /\ Grows /\ escrows' \in Seq(Nat) /\ registry' \in Seq(Entries)
        /\ Len(registry') = Len(registry) /\ registry'[k][p] = TRUE
        /\ (\A i \in 1..Len(registry) : EntryOK(registry[i]))' /\ NoDuplicates'
    BY <1>5, <1>6, <1>7, <1>8, FlagSet
  <1>10. QED
    BY <1>3, <1>4, <1>5, <1>6, <1>9

LEMMA SettingKeeps ==
    ASSUME DeployInv, NEW b \in Builds,
           allowTeeMachineOwners(b) \/ allowTeeProjectManagerOwners(b) \/ AddSupportedKeyTypes(b)
    PROVE  DeployInv' /\ Grows
  <1>1. build \in [Builds -> BuildRecords] /\ BuildOK(build[b]) /\ build[b] \in BuildRecords
    BY DEF DeployInv, DeployTypeOK
  <1>2. PICK p \in Flags, next \in Stages :
           /\ Setting(b, p, next)
           /\ \/ p = "machineOwner" /\ next = "projectOwner"
              \/ p = "projectOwner" /\ next = "evmKeys"
              \/ p = "evmKeys" /\ next = "adopt"
    BY DEF allowTeeMachineOwners, allowTeeProjectManagerOwners, AddSupportedKeyTypes, Flags, Stages
  <1>3. Sets(b, p) /\ build[b].pc = p /\ Goto(b, next) /\ UNCHANGED <<environ, escrows, envFile>>
    BY <1>2 DEF Setting, Sets
  <1>4. PICK k, s : k = build[b].id /\ s = build[b].sender
    OBVIOUS
  <1>10. /\ Grows /\ escrows' \in Seq(Nat) /\ registry' \in Seq(Entries)
         /\ Len(registry') = Len(registry) /\ registry'[k][p] = TRUE
         /\ (\A i \in 1..Len(registry) : EntryOK(registry[i]))' /\ NoDuplicates'
         /\ Registered(k, s) /\ s # None /\ s \in 1..Len(escrows)
         /\ p \in {"projectOwner", "evmKeys"} => registry[k].machineOwner
         /\ p = "evmKeys" => registry[k].projectOwner
    BY <1>3, <1>4, SetsOnChain
  <1>5. Registered(k, s) /\ s # None /\ s \in 0..Len(escrows) /\ Len(escrows) \in Nat
    BY <1>10 DEF DeployInv, DeployTypeOK
  <1>6. k \in 1..Len(registry) /\ registry[k].sender = s /\ s \in 1..Len(escrows)
    BY <1>10 DEF Registered
  <1>7. /\ p \in {"projectOwner", "evmKeys"} => registry[k].machineOwner
        /\ p = "evmKeys" => registry[k].projectOwner
    BY <1>10
  <1>11. ASSUME NEW c \in BuildRecords, c.pc = next, c.sender = build[b].sender, c.id = build[b].id
         PROVE  BuildOK(c)'
    <2>1. Registered(k, s)'
      BY <1>6, <1>10 DEF Registered, Grows
    <2>2. /\ p = "machineOwner" \/ registry[k].machineOwner => registry'[k].machineOwner
          /\ p = "projectOwner" \/ registry[k].projectOwner => registry'[k].projectOwner
          /\ p = "evmKeys" \/ registry[k].evmKeys => registry'[k].evmKeys
      BY <1>6, <1>10 DEF Grows
    <2>3. c.pc \in {"projectOwner", "evmKeys", "adopt"} /\ c.id = k /\ c.sender = s
      BY <1>2, <1>4, <1>11
    <2>4. registry'[k].machineOwner
      BY <1>2, <1>7, <2>2
    <2>5. next \in {"evmKeys", "adopt"} => registry'[k].projectOwner
      BY <1>2, <1>7, <2>2
    <2>6. next = "adopt" => registry'[k].evmKeys
      BY <1>2, <2>2
    <2>7. QED
      BY <1>3, <1>5, <1>11, <2>1, <2>3, <2>4, <2>5, <2>6 DEF BuildOK
  <1>12. QED
    BY <1>3, <1>10, <1>11, GotoKeeps

LEMMA LeastExists ==
    ASSUME NEW S \in SUBSET Nat, S # {}
    PROVE  \E x \in S : \A y \in S : x <= y
  <1> DEFINE R == {ss \in Nat \X Nat : ss[1] < ss[2]}
  <1>1. IsWellFoundedOn(R, Nat)
    BY NatLessThanWellFounded, Zenon DEF OpToRel
  <1>2. PICK x \in S : \A y \in S : ~(<<y, x>> \in R)
    BY <1>1, WFMin, Zenon
  <1>3. ASSUME NEW y \in S PROVE x <= y
    <2>1. <<y, x>> \notin R
      BY <1>2
    <2>2. x \in Nat /\ y \in Nat /\ ~(y < x)
      BY <2>1
    <2>3. QED
      BY <2>2
  <1>4. QED
    BY <1>3

(* An escrow that takes its id takes the first of its extensions.          *)
LEMMA AdoptsOnChain ==
    ASSUME DeployInv, NEW b \in Builds, build[b].pc = "adopt", setExtensionId(build[b].sender),
           UNCHANGED <<environ, registry>>
    PROVE  /\ Grows /\ escrows' \in Seq(Nat) /\ registry' \in Seq(Entries)
           /\ (\A i \in 1..Len(registry) : EntryOK(registry[i]))' /\ NoDuplicates'
           /\ Len(escrows') = Len(escrows) /\ build[b].sender \in 1..Len(escrows)
           /\ escrows'[build[b].sender] \in Matches(build[b].sender)
           /\ escrows'[build[b].sender] \in Nat /\ escrows'[build[b].sender] <= build[b].id
  <1>1. build \in [Builds -> BuildRecords] /\ BuildOK(build[b]) /\ build[b] \in BuildRecords
    BY DEF DeployInv, DeployTypeOK
  <1>2. escrows \in Seq(Nat) /\ registry \in Seq(Entries) /\ Len(escrows) \in Nat /\ Len(registry) \in Nat
    BY DEF DeployInv, DeployTypeOK
  <1>3. PICK k, s : k = build[b].id /\ s = build[b].sender
    OBVIOUS
  <1>4. /\ build[b].pc = "adopt" /\ escrows[s] = None
        /\ escrows' = [escrows EXCEPT ![s] = CHOOSE id \in Matches(s) : \A j \in Matches(s) : id <= j]
        /\ UNCHANGED <<environ, registry>>
    BY <1>3 DEF setExtensionId
  <1>5. /\ Registered(k, s) /\ s \in 1..Len(escrows)
        /\ registry[k].machineOwner /\ registry[k].projectOwner /\ registry[k].evmKeys
    BY <1>1, <1>2, <1>3, <1>4 DEF BuildOK, None
  <1>6. Matches(s) \in SUBSET Nat /\ k \in Matches(s)
    BY <1>2, <1>5 DEF Matches, Registered
  <1>7. PICK x : x = CHOOSE id \in Matches(s) : \A j \in Matches(s) : id <= j
    OBVIOUS
  <1>8. x \in Matches(s) /\ \A j \in Matches(s) : x <= j
    <2>1. \E y \in Matches(s) : \A j \in Matches(s) : y <= j
      BY <1>6, LeastExists
    <2>2. QED
      BY <2>1, <1>7
  <1>9. x \in Nat /\ x <= k
    BY <1>6, <1>8
  <1>10. escrows' = [escrows EXCEPT ![s] = x]
    BY <1>4, <1>7
  <1>11. /\ escrows' \in Seq(Nat) /\ Len(escrows') = Len(escrows) /\ escrows'[s] = x
         /\ \A j \in 1..Len(escrows) : j # s => escrows'[j] = escrows[j]
    BY <1>2, <1>5, <1>9, <1>10, ExceptSeq
  <1>12. Grows
    <2>1. Len(escrows) <= Len(escrows') /\ Len(registry) <= Len(registry')
      BY <1>2, <1>4, <1>11
    <2>2. QED
      BY <1>4, <1>11, <2>1 DEF Grows
  <1>13. (\A i \in 1..Len(registry) : EntryOK(registry[i]))'
    BY <1>4, <1>11 DEF EntryOK, DeployInv
  <1>14. NoDuplicates'
    BY <1>4 DEF NoDuplicates, DeployInv
  <1>15. QED
    BY <1>2, <1>3, <1>4, <1>5, <1>8, <1>9, <1>11, <1>12, <1>13, <1>14

LEMMA AdoptKeeps ==
    ASSUME DeployInv, NEW b \in Builds, SetWorkProofEscrowExtensionId(b)
    PROVE  DeployInv' /\ Grows
  <1>1. /\ build[b] \in BuildRecords /\ BuildOK(build[b])
        /\ Len(escrows) \in Nat
    BY DEF DeployInv, DeployTypeOK
  <1>2. /\ build[b].pc = "adopt" /\ setExtensionId(build[b].sender) /\ Goto(b, "truncate")
        /\ UNCHANGED <<environ, registry, envFile>>
    BY DEF SetWorkProofEscrowExtensionId
  <1>3. PICK k, s, x : k = build[b].id /\ s = build[b].sender /\ x = escrows'[s]
    OBVIOUS
  <1>4. /\ Registered(k, s) /\ registry[k].machineOwner /\ registry[k].projectOwner /\ registry[k].evmKeys
    BY <1>1, <1>2, <1>3 DEF BuildOK
  <1>5. /\ Grows /\ escrows' \in Seq(Nat) /\ registry' \in Seq(Entries)
        /\ (\A i \in 1..Len(registry) : EntryOK(registry[i]))' /\ NoDuplicates'
        /\ Len(escrows') = Len(escrows) /\ s \in 1..Len(escrows)
        /\ escrows'[s] = x /\ x \in Matches(s) /\ x \in Nat /\ x <= k
    BY <1>2, <1>3, AdoptsOnChain
  <1>15. ASSUME NEW c \in BuildRecords, c.pc = "truncate", c.sender = build[b].sender, c.id = build[b].id
         PROVE  BuildOK(c)'
    <2>1. c.id = k /\ c.sender = s
      BY <1>3, <1>15
    <2>2. Registered(k, s)'
      BY <1>2, <1>4 DEF Registered
    <2>3. x \in Matches(s)'
      BY <1>2, <1>5 DEF Matches
    <2>4. Adopted(k, s)'
      BY <1>5, <2>3 DEF Adopted
    <2>5. s \in 0..Len(escrows') /\ s # None
      BY <1>1, <1>5 DEF None
    <2>6. QED
      BY <1>2, <1>4, <1>15, <2>1, <2>2, <2>4, <2>5 DEF BuildOK
  <1>16. QED
    BY <1>2, <1>5, <1>15, GotoKeeps DEF Stages

LEMMA AdoptRefusedKeeps ==
    ASSUME DeployInv, NEW b \in Builds, AdoptRefused(b)
    PROVE  DeployInv' /\ Grows
  <1>1. /\ Grows /\ escrows' \in Seq(Nat) /\ registry' \in Seq(Entries)
        /\ (\A i \in 1..Len(registry) : EntryOK(registry[i]))' /\ NoDuplicates'
    BY ChainStays DEF AdoptRefused
  <1>2. QED
    BY <1>1, DieKeeps DEF AdoptRefused

LEMMA WriteEnvKeeps ==
    ASSUME DeployInv, NEW b \in Builds, WriteEnv(b)
    PROVE  DeployInv' /\ Grows
  <1>1. build \in [Builds -> BuildRecords] /\ BuildOK(build[b]) /\ build[b] \in BuildRecords
    BY DEF DeployInv, DeployTypeOK
  <1>2. /\ Grows /\ escrows' \in Seq(Nat) /\ registry' \in Seq(Entries)
        /\ (\A i \in 1..Len(registry) : EntryOK(registry[i]))' /\ NoDuplicates'
    BY ChainStays DEF WriteEnv
  <1>3. PICK p \in Stages : /\ Goto(b, p) /\ UNCHANGED <<environ, escrows, registry>>
                            /\ \/ /\ build[b].pc = "truncate" /\ p = "write"
                                  /\ envFile' = File(None, None)
                               \/ /\ build[b].pc = "write" /\ p = "done"
                                  /\ envFile' = File(build[b].id, build[b].sender)
    BY DEF WriteEnv, Stages
  <1>4. PICK c \in BuildRecords : /\ build' = [build EXCEPT ![b] = c]
                                  /\ build' \in [Builds -> BuildRecords]
                                  /\ c.pc = p /\ c.sender = build[b].sender /\ c.id = build[b].id
    BY <1>1, <1>3, GotoRecord
  <1>5. envFile'.exists = TRUE
    BY <1>3 DEF File
  <1>6. DeployTypeOK'
    BY <1>2, <1>3, <1>4, <1>5 DEF DeployInv, DeployTypeOK
  <1>7. PICK d \in BuildRecords : d = build[b]
    BY <1>1
  <1>8. BuildOK(d)'
    BY <1>1, <1>2, <1>6, <1>7, GrowsKeepsBuild DEF DeployInv
  <1>9. BuildOK(c)'
    BY <1>3, <1>4, <1>7, <1>8 DEF BuildOK
  <1>10. FileOK(envFile)'
    <2>1. CASE envFile' = File(None, None)
      BY <2>1 DEF FileOK, File
    <2>2. CASE build[b].pc = "write" /\ envFile' = File(build[b].id, build[b].sender)
      <3>1. envFile'.id = d.id /\ envFile'.sender = d.sender /\ d.pc = "write"
        BY <2>2, <1>7 DEF File
      <3>2. /\ Registered(d.id, d.sender)' /\ Adopted(d.id, d.sender)'
            /\ registry'[d.id].machineOwner /\ registry'[d.id].projectOwner /\ registry'[d.id].evmKeys
        BY <3>1, <1>8 DEF BuildOK
      <3>3. QED
        BY <3>1, <3>2 DEF FileOK, Usable, Registered, Adopted, Matches
    <2>3. QED
      BY <1>3, <2>1, <2>2
  <1>11. QED
    BY <1>2, <1>4, <1>6, <1>9, <1>10, BuildMoves

LEMMA StopKeeps ==
    ASSUME DeployInv, NEW b \in Builds, Stop(b)
    PROVE  DeployInv' /\ Grows
  <1>1. UNCHANGED <<environ, envFile>> /\ Die(b)
    BY DEF Stop
  <1>2. build[b] \in BuildRecords /\ BuildOK(build[b])
    BY DEF DeployInv, DeployTypeOK
  <1>3. CASE UNCHANGED <<escrows, registry>>
    <2>1. /\ Grows /\ escrows' \in Seq(Nat) /\ registry' \in Seq(Entries)
          /\ (\A i \in 1..Len(registry) : EntryOK(registry[i]))' /\ NoDuplicates'
      BY <1>1, <1>3, ChainStays
    <2>2. QED
      BY <1>1, <2>1, DieKeeps
  <1>4. CASE escrows' = Append(escrows, None) /\ UNCHANGED registry
    <2>1. /\ Grows /\ escrows' \in Seq(Nat) /\ registry' \in Seq(Entries)
          /\ (\A i \in 1..Len(registry) : EntryOK(registry[i]))' /\ NoDuplicates'
      BY <1>1, <1>4, EscrowAdded
    <2>2. QED
      BY <1>1, <2>1, DieKeeps
  <1>5. CASE /\ Registrable(build[b].sender) /\ UNCHANGED escrows
             /\ registry' = Append(registry, Entry(build[b].sender, "us"))
    <2>1. PICK s \in Nat : s = build[b].sender
      BY <1>2 DEF BuildRecords
    <2>2. /\ registry' = Append(registry, Entry(s, "us"))
          /\ environ.rejectsDuplicates => Matches(s) = {}
      BY <1>5, <2>1 DEF Registrable
    <2>3. /\ Grows /\ escrows' \in Seq(Nat) /\ registry' \in Seq(Entries)
          /\ (\A i \in 1..Len(registry) : EntryOK(registry[i]))' /\ NoDuplicates'
      BY <1>1, <1>5, <2>2, ExtensionAdded
    <2>4. QED
      BY <1>1, <2>3, DieKeeps
  <1>6. CASE (\E flag \in Flags : Sets(b, flag)) /\ UNCHANGED escrows
    <2>1. PICK p \in Flags : Sets(b, p)
      BY <1>6
    <2>2. /\ Grows /\ escrows' \in Seq(Nat) /\ registry' \in Seq(Entries)
          /\ (\A i \in 1..Len(registry) : EntryOK(registry[i]))' /\ NoDuplicates'
      BY <1>1, <1>6, <2>1, SetsOnChain
    <2>3. QED
      BY <1>1, <2>2, DieKeeps
  <1>7. CASE build[b].pc = "adopt" /\ setExtensionId(build[b].sender) /\ UNCHANGED registry
    <2>1. /\ Grows /\ escrows' \in Seq(Nat) /\ registry' \in Seq(Entries)
          /\ (\A i \in 1..Len(registry) : EntryOK(registry[i]))' /\ NoDuplicates'
      BY <1>1, <1>7, AdoptsOnChain
    <2>2. QED
      BY <1>1, <2>1, DieKeeps
  <1>8. QED
    BY <1>3, <1>4, <1>5, <1>6, <1>7 DEF Stop, Flags

LEMMA StrangerKeeps ==
    ASSUME DeployInv, StrangerRegisters
    PROVE  DeployInv' /\ Grows
  <1>1. Len(escrows) \in Nat
    BY DEF DeployInv, DeployTypeOK
  <1>2. PICK s \in {None} \cup 1..Len(escrows) :
           /\ environ.rejectsDuplicates /\ s # None => Matches(s) = {}
           /\ registry' = Append(registry, Entry(s, "stranger"))
    BY DEF StrangerRegisters
  <1>3. s \in Nat /\ UNCHANGED <<environ, escrows, envFile, build>>
    BY <1>1 DEF None, StrangerRegisters
  <1>4. /\ Grows /\ escrows' \in Seq(Nat) /\ registry' \in Seq(Entries)
        /\ (\A i \in 1..Len(registry) : EntryOK(registry[i]))' /\ NoDuplicates'
    BY <1>2, <1>3, ExtensionAdded
  <1>5. DeployTypeOK'
    BY <1>3, <1>4 DEF DeployInv, DeployTypeOK
  <1>6. ASSUME NEW x \in Builds PROVE BuildOK(build[x])'
    <2>1. PICK d \in BuildRecords : d = build[x]
      BY DEF DeployInv, DeployTypeOK
    <2>2. BuildOK(d)'
      BY <1>4, <1>5, <2>1, GrowsKeepsBuild DEF DeployInv
    <2>3. QED
      BY <1>3, <2>1, <2>2 DEF BuildOK, Registered, Adopted, Matches
  <1>7. (environ.edits = {} => FileOK(envFile))'
    BY <1>3, <1>4, <1>5, FileStays
  <1>8. QED
    BY <1>3, <1>4, <1>5, <1>6, <1>7, Zenon DEF DeployInv

LEMMA DeployNextKeeps ==
    ASSUME DeployInv, DeployNext
    PROVE  DeployInv' /\ Grows
  <1>1. CASE StrangerRegisters
    BY <1>1, StrangerKeeps
  <1>2. ASSUME NEW b \in Builds, Start(b) \/ Step(b) \/ Stop(b)
        PROVE  DeployInv' /\ Grows
    BY <1>2, StartKeeps, StopKeeps, DeployKeeps, RegisterKeeps, SettingKeeps, AdoptKeeps,
       AdoptRefusedKeeps, WriteEnvKeeps DEF Step
  <1>3. QED
    BY <1>1, <1>2 DEF DeployNext

LEMMA EditEnvKeeps ==
    ASSUME DeployInv, EditEnv
    PROVE  DeployInv' /\ Grows
  <1>1. UNCHANGED <<environ, escrows, registry, build>> /\ envFile' \in environ.edits
    BY DEF EditEnv
  <1>2. /\ Grows /\ escrows' \in Seq(Nat) /\ registry' \in Seq(Entries)
        /\ (\A i \in 1..Len(registry) : EntryOK(registry[i]))' /\ NoDuplicates'
    BY <1>1, ChainStays
  <1>3. envFile'.exists = TRUE /\ environ.edits # {}
    BY <1>1, ChecksAssumption DEF DeployInv, DeployTypeOK
  <1>4. DeployTypeOK'
    BY <1>1, <1>2, <1>3 DEF DeployInv, DeployTypeOK
  <1>5. (\A b \in Builds : BuildOK(build[b]))'
    BY <1>1 DEF DeployInv, BuildOK, Registered, Adopted, Matches
  <1>6. QED
    BY <1>1, <1>2, <1>3, <1>4, <1>5, Zenon DEF DeployInv

LEMMA DeployStays ==
    ASSUME DeployInv, UNCHANGED <<environ, escrows, registry, envFile, build>>
    PROVE  DeployInv' /\ Grows
  <1>1. /\ Grows /\ (\A i \in 1..Len(registry) : EntryOK(registry[i]))' /\ NoDuplicates'
    BY ChainStays
  <1>2. DeployTypeOK' /\ (\A b \in Builds : BuildOK(build[b]))' /\ (environ.edits = {} => FileOK(envFile))'
    BY DEF DeployInv, DeployTypeOK, BuildOK, FileOK, Usable, Registered, Adopted, Matches
  <1>3. QED
    BY <1>1, <1>2, Zenon DEF DeployInv

LEMMA DeployInvHolds ==
    ASSUME DeployInv, [Next]_vars
    PROVE  DeployInv' /\ Grows
  <1>1. CASE DeployNext
    BY <1>1, DeployNextKeeps
  <1>2. CASE EditEnv
    BY <1>2, EditEnvKeeps
  <1>3. CASE UNCHANGED <<environ, escrows, registry, envFile, build>>
    BY <1>3, DeployStays
  <1>4. QED
    BY <1>1, <1>2, <1>3 DEF Next, vars, deployVars, VerifyStart, ChainSection, OfflineSection,
       RegistrationBegin, RegistrationLookups, VerifyFinish, DeployStep

LEMMA DeployInvInit == Init => DeployInv
  <1>1. SUFFICES ASSUME Init PROVE DeployInv
    OBVIOUS
  <1>2. /\ environ \in Environs /\ escrows = <<>> /\ registry = <<>> /\ envFile = Absent
        /\ build = [b \in Builds |-> Idle]
    BY <1>1 DEF Init, DeployInit
  <1>3. Idle \in BuildRecords /\ Idle.pc = "idle" /\ Idle.sender = None
    BY DEF Idle, BuildRecords, Stages, None
  <1>4. DeployTypeOK
    BY <1>2, <1>3 DEF DeployTypeOK
  <1>5. \A b \in Builds : BuildOK(build[b])
    BY <1>2, <1>3 DEF BuildOK, None
  <1>6. FileOK(envFile)
    BY <1>2 DEF FileOK, Absent
  <1>7. QED
    BY <1>2, <1>4, <1>5, <1>6 DEF DeployInv, NoDuplicates

(* pre-build.sh, for every number of builds at once, every way they fail   *)
(* and are started again and whatever strangers register: where the        *)
(* registry refuses duplicates, an extension.env that only pre-build.sh    *)
(* wrote names an escrow that is registered under the id, completely set   *)
(* up, and has adopted this id.                                            *)
THEOREM WrittenEnvIsUsable == Spec => []EnvIsUsable
  <1>1. DeployInv => EnvIsUsable
    <2>1. SUFFICES ASSUME DeployInv, environ.rejectsDuplicates, environ.edits = {}, envFile.id # None
                   PROVE  Usable(envFile.id, envFile.sender) /\ escrows[envFile.sender] = envFile.id
      BY DEF EnvIsUsable
    <2>2. PICK id, sender : id = envFile.id /\ sender = envFile.sender
      OBVIOUS
    <2>3. Usable(id, sender) /\ Adopted(id, sender)
      BY <2>1, <2>2 DEF DeployInv, FileOK
    <2>4. escrows[sender] \in 1..Len(registry) /\ registry[escrows[sender]].sender = sender
      BY <2>3 DEF Adopted, Matches
    <2>5. id \in 1..Len(registry) /\ registry[id].sender = sender /\ sender # None
      BY <2>3 DEF Usable, Registered, Adopted, None
    <2>6. escrows[sender] = id
      BY <2>1, <2>4, <2>5 DEF DeployInv, NoDuplicates
    <2>7. QED
      BY <2>2, <2>3, <2>6
  <1>2. DeployInv /\ [Next]_vars => DeployInv'
    BY DeployInvHolds
  <1>3. QED
    BY <1>1, <1>2, DeployInvInit, PTL DEF Spec
-----------------------------------------------------------------------------
(* verify is the record of a run. *)
IsRun(v) ==
    v = [pc |-> v.pc, step |-> v.step, config |-> v.config, filter |-> v.filter, todo |-> v.todo,
         report |-> v.report, file |-> v.file, counter |-> v.counter, failed |-> v.failed,
         quiet |-> v.quiet, usable |-> v.usable]

Pending(v, section) == \E i \in 1..Len(v.todo) : v.todo[i] = section

SectionNames == {"deploy", "register", "services", "tee-version", "tee-machine", "test"}
                \cup UNION {e.steps : e \in Environs}

(* The stages of a run: each section is due once. *)
StageOK(v) ==
    /\ v.pc \in {"check", "lookups", "exit0", "exit1"}
    /\ v.todo \in Seq(SectionNames)
    /\ \A i, j \in 1..Len(v.todo) : v.todo[i] = v.todo[j] => i = j
    /\ v.pc = "lookups" => v.todo # <<>> /\ Head(v.todo) = "register"
    /\ v.pc = "exit0" => v.todo = <<>> /\ (v.filter = {} => Failures(v.report) = {})

(* The escrow of the file has adopted the id of the file. *)
AdoptedFile(file) ==
    /\ file.sender \in 1..Len(escrows) /\ file.id # None
    /\ escrows[file.sender] = file.id

(* A report that shows R7 passed was made from a file that names the id    *)
(* the escrow has adopted.                                                 *)
UniqueMeansAdopted(v) ==
    environ.edits = {} =>
        /\ v.pc = "lookups" => /\ v.file.id # None /\ FileOK(v.file)
                               /\ v.counter # NoCounter => v.counter \in Nat /\ v.file.id <= v.counter
        /\ <<"R7", "PASS">> \in v.report =>
              /\ ~Pending(v, "register")
              /\ "R7" \notin v.failed => AdoptedFile(v.file)

Whole(v) == v.step = "all" /\ v.config /\ v.filter = {} /\ v.quiet

(* What a section without a failure shows of the file.                     *)
Shown(section) ==
    /\ section = "services" => envFile.exists /\ WellFormed(envFile.id)
    /\ section = "test" /\ envFile.exists => WellFormed(envFile.sender)
    /\ section = "register" /\ envFile.exists /\ WellFormed(envFile.id) /\ WellFormed(envFile.sender)
          => /\ Registered(envFile.id, envFile.sender)
             /\ registry[envFile.id].machineOwner /\ registry[envFile.id].evmKeys

ShownSoFar(v) ==
    Whole(v) =>
        /\ v.pc = "lookups" => v.file = envFile /\ envFile.exists
        /\ Failures(v.report) = {} =>
              \A section \in SectionNames : ~Pending(v, section) => Shown(section)

(* A usable deployment has given no reason to fail. *)
NoFalseAlarm(v) ==
    Whole(v) /\ v.usable /\ v.failed = {} /\ PreflightPasses =>
        /\ Usable(envFile.id, envFile.sender)
        /\ Failures(v.report) = {} /\ v.pc # "exit1"

RunOK(v) ==
    /\ IsRun(v)
    /\ StageOK(v) /\ UniqueMeansAdopted(v) /\ ShownSoFar(v) /\ NoFalseAlarm(v)

VerifyInv == verify = Checking \/ RunOK(verify)

LEMMA RunStays ==
    ASSUME NEW w, verify' = w, RunOK(w), UNCHANGED <<environ, escrows, registry, envFile>>
    PROVE  VerifyInv'
  <1>1. UniqueMeansAdopted(w)' /\ ShownSoFar(w)' /\ NoFalseAlarm(w)'
    <2>1. \A id, sender : /\ Usable(id, sender)' <=> Usable(id, sender)
                          /\ Registered(id, sender)' <=> Registered(id, sender)
      BY DEF Usable, Registered
    <2>2. \A file : /\ FileOK(file)' <=> FileOK(file)
                    /\ AdoptedFile(file)' <=> AdoptedFile(file)
      BY DEF FileOK, AdoptedFile, Usable, Registered, Adopted, Matches
    <2>3. \A section : Shown(section)' <=> Shown(section)
      BY DEF Shown, Registered
    <2>4. PreflightPasses' <=> PreflightPasses
      BY DEF PreflightPasses, DefaultSupport, resolveTreasury, resolveProtocolFeeBps,
             AddressNotZero, AddressHasCode, KeyHasFunds
    <2>5. UniqueMeansAdopted(w)'
      BY <2>2, Zenon DEF RunOK, UniqueMeansAdopted
    <2>6. ShownSoFar(w)'
      BY <2>3, Zenon DEF RunOK, ShownSoFar
    <2>7. NoFalseAlarm(w)'
      BY <2>1, <2>4 DEF RunOK, NoFalseAlarm
    <2>8. QED
      BY <2>5, <2>6, <2>7
  <1>2. RunOK(w)'
    BY <1>1, Zenon DEF RunOK
  <1>3. QED
    BY <1>2, Zenon DEF VerifyInv

LEMMA HeadIsPending ==
    ASSUME NEW v, StageOK(v), v.todo # <<>>
    PROVE  Pending(v, Head(v.todo))
  <1>1. PICK q \in Seq(SectionNames) : q = v.todo
    BY DEF StageOK
  <1>2. 1 \in 1..Len(q) /\ Head(q) = q[1]
    BY <1>1
  <1>3. QED
    BY <1>1, <1>2 DEF Pending

LEMMA NextSection ==
    ASSUME NEW v, StageOK(v), v.todo # <<>>, NEW w, w.todo = Tail(v.todo)
    PROVE  /\ w.todo \in Seq(SectionNames)
           /\ \A i, j \in 1..Len(w.todo) : w.todo[i] = w.todo[j] => i = j
           /\ Pending(v, Head(v.todo)) /\ ~Pending(w, Head(v.todo))
           /\ \A section : section # Head(v.todo) => (Pending(w, section) <=> Pending(v, section))
  <1>1. PICK q \in Seq(SectionNames) : q = v.todo
    BY DEF StageOK
  <1>2. PICK r : r = Tail(q)
    OBVIOUS
  <1>3. /\ r \in Seq(SectionNames) /\ Len(r) = Len(q) - 1 /\ Len(q) \in Nat \ {0}
        /\ \A i \in 1..Len(r) : r[i] = q[i + 1]
        /\ Head(q) = q[1]
    BY <1>1, <1>2
  <1>4. \A i, j \in 1..Len(q) : q[i] = q[j] => i = j
    BY <1>1 DEF StageOK
  <1>5. \A i, j \in 1..Len(r) : r[i] = r[j] => i = j
    <2>1. SUFFICES ASSUME NEW i \in 1..Len(r), NEW j \in 1..Len(r), r[i] = r[j] PROVE i = j
      OBVIOUS
    <2>2. i + 1 \in 1..Len(q) /\ j + 1 \in 1..Len(q) /\ q[i + 1] = q[j + 1]
      BY <1>3, <2>1
    <2>3. i + 1 = j + 1
      BY <1>4, <2>2
    <2>4. QED
      BY <1>3, <2>3
  <1>6. Pending(v, Head(q))
    BY <1>1, HeadIsPending
  <1>7. ~Pending(w, Head(q))
    <2>1. SUFFICES ASSUME NEW i \in 1..Len(r), r[i] = q[1] PROVE FALSE
      BY <1>1, <1>2, <1>3 DEF Pending
    <2>2. i + 1 \in 1..Len(q) /\ 1 \in 1..Len(q) /\ q[i + 1] = q[1] /\ i \in Nat \ {0}
      BY <1>3, <2>1
    <2>3. i + 1 = 1
      BY <1>4, <2>2
    <2>4. QED
      BY <2>2, <2>3
  <1>8. ASSUME NEW section, section # Head(q)
        PROVE  Pending(w, section) <=> Pending(v, section)
    <2>1. ASSUME NEW i \in 1..Len(r), r[i] = section PROVE Pending(v, section)
      <3>1. i + 1 \in 1..Len(q) /\ q[i + 1] = section
        BY <1>3, <2>1
      <3>2. QED
        BY <1>1, <3>1 DEF Pending
    <2>2. ASSUME NEW i \in 1..Len(q), q[i] = section PROVE Pending(w, section)
      <3>1. PICK j : j = i - 1
        OBVIOUS
      <3>2. j \in 1..Len(r) /\ r[j] = section
        BY <1>3, <1>8, <2>2, <3>1
      <3>3. QED
        BY <1>1, <1>2, <3>2 DEF Pending
    <2>3. QED
      BY <1>1, <1>2, <2>1, <2>2 DEF Pending
  <1>9. QED
    BY <1>1, <1>2, <1>3, <1>5, <1>6, <1>7, <1>8

(* A section is done: what its results must be for the run to go on well.  *)
LEMMA SectionDone ==
    ASSUME RunOK(verify), verify.todo # <<>>, NEW results, NEW down, Report(results, down),
           UNCHANGED <<environ, escrows, registry, envFile>>,
           environ.edits = {} /\ <<"R7", "PASS">> \in results =>
              /\ Head(verify.todo) = "register"
              /\ "R7" \notin verify.failed \cup down => AdoptedFile(verify.file),
           Whole(verify) /\ Failures(results) = {} => Shown(Head(verify.todo)),
           verify.pc # "exit1",
           Whole(verify) /\ Usable(envFile.id, envFile.sender) /\ PreflightPasses /\ down = {}
              => Failures(results) = {}
    PROVE  VerifyInv'
  <1>1. PICK v : v = verify
    OBVIOUS
  <1>2. PICK w : w = [v EXCEPT !.report = @ \cup results, !.todo = Tail(@),
                               !.failed = @ \cup down, !.pc = "check"]
    OBVIOUS
  <1>3. verify' = w
    BY <1>1, <1>2 DEF Report
  <1>4. /\ IsRun(w) /\ w.pc = "check" /\ w.todo = Tail(v.todo)
        /\ w.report = v.report \cup results /\ w.failed = v.failed \cup down
        /\ w.step = v.step /\ w.config = v.config /\ w.filter = v.filter
        /\ w.file = v.file /\ w.quiet = v.quiet /\ w.usable = v.usable
    <2>1. IsRun(v)
      BY <1>1 DEF RunOK
    <2>2. QED
      BY <2>1, <1>2 DEF IsRun
  <1>5. StageOK(v) /\ UniqueMeansAdopted(v) /\ ShownSoFar(v) /\ NoFalseAlarm(v)
    BY <1>1 DEF RunOK
  <1>6. /\ w.todo \in Seq(SectionNames)
        /\ \A i, j \in 1..Len(w.todo) : w.todo[i] = w.todo[j] => i = j
        /\ Pending(v, Head(v.todo)) /\ ~Pending(w, Head(v.todo))
        /\ \A section : section # Head(v.todo) => (Pending(w, section) <=> Pending(v, section))
    BY <1>1, <1>4, <1>5, NextSection
  <1>7. StageOK(w)
    <2>1. w.pc \in {"check", "lookups", "exit0", "exit1"} /\ w.pc # "lookups" /\ w.pc # "exit0"
      BY <1>4
    <2>2. QED
      BY <2>1, <1>6, Zenon DEF StageOK
  <1>8. Whole(w) <=> Whole(v)
    BY <1>4 DEF Whole
  <1>9. Failures(w.report) = Failures(v.report) \cup Failures(results)
    BY <1>4 DEF Failures
  <1>10. UniqueMeansAdopted(w)
    <2>1. SUFFICES ASSUME environ.edits = {}, <<"R7", "PASS">> \in w.report
                   PROVE  /\ ~Pending(w, "register")
                          /\ "R7" \notin w.failed => AdoptedFile(w.file)
      BY <1>4 DEF UniqueMeansAdopted
    <2>2. CASE <<"R7", "PASS">> \in v.report
      <3>1. /\ ~Pending(v, "register")
            /\ "R7" \notin v.failed => AdoptedFile(v.file)
        BY <1>5, <2>1, <2>2 DEF UniqueMeansAdopted
      <3>2. QED
        BY <3>1, <1>4, <1>6, Zenon
    <2>3. CASE <<"R7", "PASS">> \in results
      BY <1>1, <1>4, <1>6, <2>1, <2>3
    <2>4. QED
      BY <1>4, <2>1, <2>2, <2>3
  <1>11. ShownSoFar(w)
    <2>1. SUFFICES ASSUME Whole(w), Failures(w.report) = {},
                          NEW section \in SectionNames, ~Pending(w, section)
                   PROVE  Shown(section)
      BY <1>4 DEF ShownSoFar
    <2>2. Failures(v.report) = {} /\ Failures(results) = {} /\ Whole(v)
      BY <1>8, <1>9, <2>1
    <2>3. CASE section = Head(v.todo)
      BY <1>1, <2>2, <2>3, Zenon
    <2>4. CASE section # Head(v.todo)
      BY <1>5, <1>6, <2>1, <2>2, <2>4, Zenon DEF ShownSoFar
    <2>5. QED
      BY <2>3, <2>4
  <1>12. NoFalseAlarm(w)
    <2>1. SUFFICES ASSUME Whole(w), w.usable, w.failed = {}, PreflightPasses
                   PROVE  Usable(envFile.id, envFile.sender) /\ Failures(w.report) = {}
      BY <1>4 DEF NoFalseAlarm
    <2>2. Whole(v) /\ v.usable /\ v.failed = {} /\ down = {}
      BY <1>4, <1>8, <2>1
    <2>3. Usable(envFile.id, envFile.sender) /\ Failures(v.report) = {}
      BY <1>5, <2>1, <2>2 DEF NoFalseAlarm
    <2>4. Failures(results) = {}
      BY <1>1, <2>1, <2>2, <2>3, Zenon
    <2>5. QED
      BY <1>9, <2>3, <2>4
  <1>13. RunOK(w)
    BY <1>4, <1>7, <1>10, <1>11, <1>12 DEF RunOK
  <1>14. QED
    BY <1>3, <1>13, RunStays

LEMMA UsableIsWellFormed ==
    ASSUME DeployInv, Usable(envFile.id, envFile.sender)
    PROVE  envFile.exists /\ WellFormed(envFile.id) /\ WellFormed(envFile.sender)
  <1>1. PICK id, sender : id = envFile.id /\ sender = envFile.sender
    OBVIOUS
  <1>2. id \in 1..Len(registry) /\ registry[id].sender = sender /\ registry[id].machineOwner
    BY <1>1 DEF Usable, Registered
  <1>3. EntryOK(registry[id]) /\ Len(registry) \in Nat /\ Len(escrows) \in Nat
    BY <1>2 DEF DeployInv, DeployTypeOK
  <1>4. sender \in 1..Len(escrows)
    BY <1>2, <1>3 DEF EntryOK
  <1>5. WellFormed(id) /\ WellFormed(sender) /\ id # None
    BY <1>2, <1>3, <1>4 DEF WellFormed, None, Malformed
  <1>6. envFile # Absent
    BY <1>1, <1>5 DEF Absent
  <1>7. QED
    BY <1>1, <1>5, <1>6 DEF DeployInv, DeployTypeOK

LEMMA ChainSectionKeeps ==
    ASSUME DeployInv, RunOK(verify), ChainSection
    PROVE  VerifyInv'
  <1>1. /\ verify.todo # <<>> /\ Head(verify.todo) = "deploy" /\ verify.pc = "check"
        /\ UNCHANGED <<environ, escrows, registry, envFile>>
    BY DEF ChainSection, Due
  <1>2. PICK down \in SUBSET Unreliable : Report(RegisterDeployChecks(verify.config, down), down)
    BY DEF ChainSection
  <1>3. PICK results : results = RegisterDeployChecks(verify.config, down)
    OBVIOUS
  <1>4. <<"R7", "PASS">> \notin results
    BY <1>3 DEF RegisterDeployChecks, CheckDeployerKeySource, CheckExtensionEnvFormat, checkChainID, When
  <1>5. Shown("deploy")
    BY DEF Shown
  <1>6. ASSUME Usable(envFile.id, envFile.sender), PreflightPasses, down = {}
        PROVE  Failures(results) = {}
    <2>1. WellFormed(envFile.id) /\ WellFormed(envFile.sender)
      BY <1>6, UsableIsWellFormed
    <2>2. AddressNotZero /\ AddressHasCode /\ KeyHasFunds
      BY <1>6 DEF PreflightPasses
    <2>3. ASSUME NEW r \in results PROVE r[2] # "FAIL"
      BY <1>3, <1>6, <2>1, <2>2, <2>3 DEF RegisterDeployChecks, CheckDeployerKeySource,
         CheckExtensionEnvFormat, checkChainID, When, Is
    <2>4. QED
      BY <2>3 DEF Failures
  <1>7. QED
    BY <1>1, <1>2, <1>3, <1>4, <1>5, <1>6, SectionDone

LEMMA OfflineSectionKeeps ==
    ASSUME DeployInv, RunOK(verify), OfflineSection
    PROVE  VerifyInv'
  <1>1. UNCHANGED <<environ, escrows, registry, envFile>>
    BY DEF OfflineSection, deployVars
  <1>2. Usable(envFile.id, envFile.sender)
           => envFile.exists /\ WellFormed(envFile.id) /\ WellFormed(envFile.sender)
    BY UsableIsWellFormed
  <1>3. CASE Due("services") /\ Report(RegisterServicesChecks(verify.config), {})
    <2>1. verify.todo # <<>> /\ Head(verify.todo) = "services" /\ verify.pc = "check"
      BY <1>3 DEF Due
    <2>2. PICK results : results = RegisterServicesChecks(verify.config)
      OBVIOUS
    <2>3. <<"R7", "PASS">> \notin results /\ <<"S2", ExtensionIdSet(verify.config)>> \in results
      BY <2>2 DEF RegisterServicesChecks
    <2>4. ASSUME Whole(verify), Failures(results) = {} PROVE Shown("services")
      <3>1. ExtensionIdSet(verify.config) # "FAIL"
        BY <2>3, <2>4 DEF Failures
      <3>2. envFile.exists /\ WellFormed(envFile.id)
        BY <2>4, <3>1 DEF ExtensionIdSet, Is, Whole
      <3>3. QED
        BY <3>2 DEF Shown
    <2>5. ASSUME Usable(envFile.id, envFile.sender) PROVE Failures(results) = {}
      <3>1. ASSUME NEW r \in results PROVE r[2] # "FAIL"
        BY <1>2, <2>2, <2>5, <3>1 DEF RegisterServicesChecks, ExtensionIdSet, Reachable, ProxyKeySet, Is
      <3>2. QED
        BY <3>1 DEF Failures
    <2>6. QED
      BY <1>1, <1>3, <2>1, <2>2, <2>3, <2>4, <2>5, SectionDone
  <1>4. CASE Due("tee-version") /\ Report(RegisterTeeVersionChecks(verify.config), {})
    <2>1. verify.todo # <<>> /\ Head(verify.todo) = "tee-version" /\ verify.pc = "check"
      BY <1>4 DEF Due
    <2>2. PICK results : results = RegisterTeeVersionChecks(verify.config)
      OBVIOUS
    <2>3. <<"R7", "PASS">> \notin results
      BY <2>2 DEF RegisterTeeVersionChecks
    <2>4. Shown("tee-version")
      BY DEF Shown
    <2>5. ASSUME Usable(envFile.id, envFile.sender) PROVE Failures(results) = {}
      <3>1. ASSUME NEW r \in results PROVE r[2] # "FAIL"
        BY <1>2, <2>2, <2>5, <3>1 DEF RegisterTeeVersionChecks, OwnerKeySource, ExtensionIdValid, Reachable, Is
      <3>2. QED
        BY <3>1 DEF Failures
    <2>6. QED
      BY <1>1, <1>4, <2>1, <2>2, <2>3, <2>4, <2>5, SectionDone
  <1>5. CASE Due("tee-machine") /\ Report(RegisterTeeMachineChecks, {})
    <2>1. verify.todo # <<>> /\ Head(verify.todo) = "tee-machine" /\ verify.pc = "check"
      BY <1>5 DEF Due
    <2>2. PICK results : results = RegisterTeeMachineChecks
      OBVIOUS
    <2>3. <<"R7", "PASS">> \notin results
      BY <2>2 DEF RegisterTeeMachineChecks
    <2>4. Shown("tee-machine")
      BY DEF Shown
    <2>5. Failures(results) = {}
      <3>1. ASSUME NEW r \in results PROVE r[2] # "FAIL"
        BY <2>2, <3>1 DEF RegisterTeeMachineChecks, Reachable, Is
      <3>2. QED
        BY <3>1 DEF Failures
    <2>6. QED
      BY <1>1, <1>5, <2>1, <2>2, <2>3, <2>4, <2>5, SectionDone
  <1>6. CASE Due("test") /\ Report(RegisterTestChecks(verify.config), {})
    <2>1. verify.todo # <<>> /\ Head(verify.todo) = "test" /\ verify.pc = "check"
      BY <1>6 DEF Due
    <2>2. PICK results : results = RegisterTestChecks(verify.config)
      OBVIOUS
    <2>3. <<"R7", "PASS">> \notin results /\ <<"E1", InstructionSenderValid(verify.config)>> \in results
      BY <2>2 DEF RegisterTestChecks
    <2>4. ASSUME Whole(verify), Failures(results) = {} PROVE Shown("test")
      <3>1. InstructionSenderValid(verify.config) # "FAIL"
        BY <2>3, <2>4 DEF Failures
      <3>2. envFile.exists => WellFormed(envFile.sender)
        BY <2>4, <3>1 DEF InstructionSenderValid, Is, Whole
      <3>3. QED
        BY <3>2 DEF Shown
    <2>5. ASSUME Usable(envFile.id, envFile.sender) PROVE Failures(results) = {}
      <3>1. ASSUME NEW r \in results PROVE r[2] # "FAIL"
        BY <1>2, <2>2, <2>5, <3>1 DEF RegisterTestChecks, InstructionSenderValid, Reachable, Is
      <3>2. QED
        BY <3>1 DEF Failures
    <2>6. QED
      BY <1>1, <1>6, <2>1, <2>2, <2>3, <2>4, <2>5, SectionDone
  <1>7. QED
    BY <1>3, <1>4, <1>5, <1>6 DEF OfflineSection

LEMMA RegistrationBeginKeeps ==
    ASSUME DeployInv, RunOK(verify), RegistrationBegin
    PROVE  VerifyInv'
  <1>1. /\ verify.todo # <<>> /\ Head(verify.todo) = "register" /\ verify.pc = "check"
        /\ UNCHANGED <<environ, escrows, registry, envFile>>
    BY DEF RegistrationBegin, Due
  <1>2. PICK file, v : file = parseExtensionEnv /\ v = verify
    OBVIOUS
  <1>3. PICK down \in SUBSET Unreliable :
          LET r1 == {<<"R1", NextPublicExtensionId(down)>>}
          IN  IF ~v.config \/ (file.id = None /\ file.sender = None)
                THEN Report({<<"R", "SKIP">>}, down)
              ELSE IF ~WellFormed(file.id)
                THEN Report(r1 \cup {<<"R2", "FAIL">>}, down)
              ELSE verify' = [v EXCEPT !.report = @ \cup r1, !.file = file, !.failed = @ \cup down,
                                       !.counter = IF "R1" \in down THEN NoCounter ELSE Len(registry),
                                       !.pc = "lookups"]
    BY <1>2 DEF RegistrationBegin
  <1>4. PICK r1 : r1 = {<<"R1", NextPublicExtensionId(down)>>}
    OBVIOUS
  <1>5. /\ envFile.exists => file = envFile
        /\ WellFormed(file.id) => envFile.exists
        /\ Usable(envFile.id, envFile.sender) => WellFormed(file.id)
    <2>1. Usable(envFile.id, envFile.sender) => WellFormed(envFile.id) /\ envFile.exists
      BY UsableIsWellFormed
    <2>2. QED
      BY <1>2, <2>1 DEF parseExtensionEnv, WellFormed, Absent
  <1>6. CASE ~v.config \/ (file.id = None /\ file.sender = None)
    <2>1. PICK results : results = {<<"R", "SKIP">>}
      OBVIOUS
    <2>2. Report(results, down)
      BY <1>3, <1>6, <2>1
    <2>3. <<"R7", "PASS">> \notin results /\ Failures(results) = {}
      BY <2>1 DEF Failures
    <2>4. Whole(verify) => Shown("register")
      BY <1>2, <1>5, <1>6 DEF Whole, Shown, WellFormed
    <2>5. QED
      BY <1>1, <2>2, <2>3, <2>4, SectionDone
  <1>7. CASE ~(~v.config \/ (file.id = None /\ file.sender = None)) /\ ~WellFormed(file.id)
    <2>1. PICK results : results = r1 \cup {<<"R2", "FAIL">>}
      OBVIOUS
    <2>2. Report(results, down)
      BY <1>3, <1>4, <1>7, <2>1
    <2>3. <<"R7", "PASS">> \notin results /\ <<"R2", "FAIL">> \in Failures(results)
      BY <1>4, <2>1 DEF Failures
    <2>4. ~Usable(envFile.id, envFile.sender)
      BY <1>5, <1>7
    <2>5. QED
      BY <1>1, <2>2, <2>3, <2>4, SectionDone
  <1>8. CASE ~(~v.config \/ (file.id = None /\ file.sender = None)) /\ WellFormed(file.id)
    <2>1. PICK counter : counter = IF "R1" \in down THEN NoCounter ELSE Len(registry)
      OBVIOUS
    <2>2. PICK w : w = [v EXCEPT !.report = @ \cup r1, !.file = file, !.failed = @ \cup down,
                                 !.counter = counter, !.pc = "lookups"]
      OBVIOUS
    <2>3. verify' = w
      BY <1>3, <1>4, <1>8, <2>1, <2>2
    <2>4. IsRun(v)
      BY <1>2 DEF RunOK
    <2>5. /\ IsRun(w) /\ w.pc = "lookups" /\ w.todo = v.todo /\ w.file = file /\ w.counter = counter
          /\ w.report = v.report \cup r1 /\ w.failed = v.failed \cup down
          /\ w.step = v.step /\ w.config = v.config /\ w.filter = v.filter
          /\ w.quiet = v.quiet /\ w.usable = v.usable
      BY <2>2, <2>4 DEF IsRun
    <2>6. StageOK(v) /\ UniqueMeansAdopted(v) /\ ShownSoFar(v) /\ NoFalseAlarm(v)
      BY <1>2 DEF RunOK
    <2>7. StageOK(w)
      BY <1>1, <1>2, <2>5, <2>6 DEF StageOK
    <2>8. \A section : Pending(w, section) <=> Pending(v, section)
      BY <2>5 DEF Pending
    <2>9. Pending(v, "register")
      BY <1>1, <1>2, <2>6, HeadIsPending
    <2>10. file = envFile /\ envFile.exists /\ file.id # None
      BY <1>5, <1>8 DEF WellFormed
    <2>11. UniqueMeansAdopted(w)
      <3>1. SUFFICES ASSUME environ.edits = {}
                     PROVE  UniqueMeansAdopted(w)
        BY DEF UniqueMeansAdopted
      <3>2. <<"R7", "PASS">> \notin v.report
        BY <2>6, <2>9, <3>1 DEF UniqueMeansAdopted
      <3>3. <<"R7", "PASS">> \notin w.report
        BY <1>4, <2>5, <3>2
      <3>4. FileOK(file)
        BY <2>10, <3>1 DEF DeployInv
      <3>5. counter # NoCounter => counter \in Nat /\ file.id <= counter
        <4>1. file.id \in 1..Len(registry) /\ Len(registry) \in Nat
          BY <2>10, <3>4 DEF FileOK, Usable, Registered, DeployInv, DeployTypeOK
        <4>2. QED
          BY <2>1, <4>1
      <3>6. QED
        BY <2>5, <2>10, <3>3, <3>4, <3>5, Zenon DEF UniqueMeansAdopted
    <2>12. Whole(w) <=> Whole(v)
      BY <2>5 DEF Whole
    <2>13. Failures(w.report) = Failures(v.report) \cup Failures(r1)
      BY <2>5 DEF Failures
    <2>14. ShownSoFar(w)
      <3>1. Failures(w.report) = {} => Failures(v.report) = {}
        BY <2>13
      <3>2. QED
        BY <2>5, <2>6, <2>8, <2>10, <2>12, <3>1 DEF ShownSoFar
    <2>15. NoFalseAlarm(w)
      <3>1. SUFFICES ASSUME Whole(w), w.usable, w.failed = {}, PreflightPasses
                     PROVE  Usable(envFile.id, envFile.sender) /\ Failures(w.report) = {}
        <4>1. w.pc # "exit1"
          BY <2>5
        <4>2. QED
          BY <4>1, Zenon DEF NoFalseAlarm
      <3>2. Whole(v) /\ v.usable /\ v.failed = {} /\ down = {}
        BY <2>5, <2>12, <3>1
      <3>3. Usable(envFile.id, envFile.sender) /\ Failures(v.report) = {}
        BY <2>6, <3>1, <3>2 DEF NoFalseAlarm
      <3>4. Failures(r1) = {}
        BY <1>4, <3>2 DEF Failures, NextPublicExtensionId, Is
      <3>5. QED
        BY <2>13, <3>3, <3>4
    <2>16. RunOK(w)
      BY <2>5, <2>7, <2>11, <2>14, <2>15 DEF RunOK
    <2>17. QED
      BY <1>1, <2>3, <2>16, RunStays
  <1>9. QED
    BY <1>6, <1>7, <1>8

LEMMA AtMostOne ==
    ASSUME NEW S, IsFiniteSet(S), Cardinality(S) <= 1, NEW x \in S, NEW y \in S
    PROVE  x = y
  <1>1. Cardinality(S) \in Nat
    BY FS_CardinalityType
  <1>2. Cardinality(S) # 0
    BY FS_EmptySet
  <1>3. Cardinality(S) = 1
    BY <1>1, <1>2
  <1>4. PICK z : S = {z}
    BY <1>3, FS_Singleton
  <1>5. QED
    BY <1>4

(* R7 has seen one extension of the sender up to the counter: it is the    *)
(* one of the file, and the first one, which the escrow has adopted.       *)
LEMMA LookupsShowAdopted ==
    ASSUME DeployInv, NEW file, file.id # None, FileOK(file),
           NEW counter \in Nat, file.id <= counter,
           UniqueSender(file, counter, {}) = "PASS"
    PROVE  AdoptedFile(file)
  <1>1. PICK id, sender : id = file.id /\ sender = file.sender
    OBVIOUS
  <1>2. Usable(id, sender) /\ Adopted(id, sender)
    BY <1>1 DEF FileOK
  <1>3. PICK k : k = escrows[sender]
    OBVIOUS
  <1>4. /\ id \in 1..Len(registry) /\ registry[id].sender = sender
        /\ k \in 1..Len(registry) /\ registry[k].sender = sender /\ k <= id
        /\ sender \in 1..Len(escrows) /\ Len(registry) \in Nat
    BY <1>2, <1>3 DEF Usable, Registered, Adopted, Matches, DeployInv, DeployTypeOK
  <1>5. PICK S : S = Matches(sender) \cap 1..counter
    OBVIOUS
  <1>6. id \in S /\ k \in S
    BY <1>1, <1>4, <1>5 DEF Matches
  <1>7. IsFiniteSet(S)
    <2>1. IsFiniteSet(1..counter)
      BY FS_Interval
    <2>2. QED
      BY <1>5, <2>1, FS_Subset
  <1>8. S \ {} = S
    OBVIOUS
  <1>9. Cardinality(S) <= 1
    BY <1>1, <1>5, <1>8 DEF UniqueSender, Is
  <1>10. id = k
    BY <1>6, <1>7, <1>9, AtMostOne
  <1>11. QED
    BY <1>1, <1>3, <1>4, <1>10 DEF AdoptedFile

LEMMA RegistrationLookupsKeeps ==
    ASSUME DeployInv, RunOK(verify), RegistrationLookups
    PROVE  VerifyInv'
  <1>1. verify.pc = "lookups" /\ UNCHANGED <<environ, escrows, registry, envFile>>
    BY DEF RegistrationLookups
  <1>2. PICK v : v = verify
    OBVIOUS
  <1>3. StageOK(v) /\ UniqueMeansAdopted(v) /\ ShownSoFar(v)
    BY <1>2 DEF RunOK
  <1>4. v.todo # <<>> /\ Head(v.todo) = "register"
    BY <1>1, <1>2, <1>3 DEF StageOK
  <1>5. PICK down \in SUBSET Unreliable, missed \in SUBSET (1..Len(registry)) :
          /\ missed # {} <=> "R7" \in down
          /\ Report(RegisterRegistrationChecks(v.file, v.counter, down, missed), down)
    BY <1>2 DEF RegistrationLookups
  <1>6. PICK file, counter : file = v.file /\ counter = v.counter
    OBVIOUS
  <1>7. PICK results : results = RegisterRegistrationChecks(file, counter, down, missed)
    OBVIOUS
  <1>8. Report(results, down)
    BY <1>5, <1>6, <1>7
  <1>9. ASSUME environ.edits = {}, <<"R7", "PASS">> \in results, "R7" \notin v.failed \cup down
        PROVE  AdoptedFile(file)
    <2>1. missed = {}
      BY <1>5, <1>9
    <2>2. counter # NoCounter /\ UniqueSender(file, counter, {}) = "PASS"
      BY <1>7, <1>9, <2>1 DEF RegisterRegistrationChecks, When, NoCounter
    <2>3. file.id # None /\ FileOK(file) /\ counter \in Nat /\ file.id <= counter
      BY <1>1, <1>2, <1>3, <1>6, <1>9, <2>2 DEF UniqueMeansAdopted
    <2>4. QED
      BY <2>2, <2>3, LookupsShowAdopted
  <1>10. ASSUME Whole(v), Failures(results) = {} PROVE Shown("register")
    <2>1. file = envFile
      BY <1>1, <1>2, <1>3, <1>6, <1>10 DEF ShownSoFar
    <2>2. MachineOwner(file, down) # "FAIL" /\ EvmKeys(file, down) # "FAIL"
      <3>1. <<"R3", MachineOwner(file, down)>> \in results /\ <<"R4", EvmKeys(file, down)>> \in results
        BY <1>7 DEF RegisterRegistrationChecks
      <3>2. QED
        BY <1>10, <3>1 DEF Failures
    <2>3. WellFormed(file.sender) => SenderMatches(file, down) # "FAIL"
      <3>1. WellFormed(file.sender) => <<"R2", SenderMatches(file, down)>> \in results
        BY <1>7 DEF RegisterRegistrationChecks, When
      <3>2. QED
        BY <1>10, <3>1 DEF Failures
    <2>4. registry[file.id].machineOwner /\ registry[file.id].evmKeys
      BY <2>2 DEF MachineOwner, EvmKeys, Is
    <2>5. WellFormed(file.sender) => Registered(file.id, file.sender)
      BY <2>3 DEF SenderMatches, Is
    <2>6. QED
      BY <2>1, <2>4, <2>5 DEF Shown
  <1>11. ASSUME Whole(v), Usable(envFile.id, envFile.sender), down = {}
         PROVE  Failures(results) = {}
    <2>1. file = envFile
      BY <1>1, <1>2, <1>3, <1>6, <1>11 DEF ShownSoFar
    <2>2. MachineOwner(file, down) = "PASS" /\ EvmKeys(file, down) = "PASS" /\ SenderMatches(file, down) = "PASS"
      BY <1>11, <2>1 DEF Usable, Registered, MachineOwner, EvmKeys, SenderMatches, Is
    <2>3. UniqueSender(file, counter, missed) # "FAIL"
      BY DEF UniqueSender, Is
    <2>4. ASSUME NEW r \in results PROVE r[2] # "FAIL"
      BY <1>7, <2>2, <2>3, <2>4 DEF RegisterRegistrationChecks, When
    <2>5. QED
      BY <2>4 DEF Failures
  <1>12. QED
    BY <1>1, <1>2, <1>4, <1>6, <1>8, <1>9, <1>10, <1>11, SectionDone

LEMMA VerifyFinishKeeps ==
    ASSUME DeployInv, RunOK(verify), VerifyFinish
    PROVE  VerifyInv'
  <1>1. /\ verify.pc = "check" /\ verify.todo = <<>>
        /\ UNCHANGED <<environ, escrows, registry, envFile>>
    BY DEF VerifyFinish, deployVars
  <1>2. PICK v : v = verify
    OBVIOUS
  <1>3. PICK shown : shown = Filtered(v.report, v.filter)
    OBVIOUS
  <1>4. PICK pc : pc = IF Failures(shown) # {} THEN "exit1" ELSE "exit0"
    OBVIOUS
  <1>5. PICK w : w = [v EXCEPT !.report = shown, !.pc = pc]
    OBVIOUS
  <1>6. verify' = w
    BY <1>2, <1>3, <1>4, <1>5 DEF VerifyFinish
  <1>7. IsRun(v) /\ StageOK(v) /\ UniqueMeansAdopted(v) /\ ShownSoFar(v) /\ NoFalseAlarm(v)
    BY <1>2 DEF RunOK
  <1>8. /\ IsRun(w) /\ w.pc = pc /\ w.todo = v.todo /\ w.file = v.file /\ w.counter = v.counter
        /\ w.report = shown /\ w.failed = v.failed
        /\ w.step = v.step /\ w.config = v.config /\ w.filter = v.filter
        /\ w.quiet = v.quiet /\ w.usable = v.usable
    BY <1>5, <1>7 DEF IsRun
  <1>9. pc \in {"exit0", "exit1"} /\ (pc = "exit0" <=> Failures(shown) = {})
    BY <1>4
  <1>10. /\ shown \subseteq v.report
         /\ v.filter = {} => shown = v.report
    BY <1>3 DEF Filtered
  <1>11. StageOK(w)
    BY <1>1, <1>2, <1>7, <1>8, <1>9 DEF StageOK
  <1>12. \A section : Pending(w, section) <=> Pending(v, section)
    BY <1>8 DEF Pending
  <1>13. UniqueMeansAdopted(w)
    BY <1>7, <1>8, <1>9, <1>10, <1>12 DEF UniqueMeansAdopted
  <1>14. Whole(w) <=> Whole(v)
    BY <1>8 DEF Whole
  <1>15. Whole(v) => shown = v.report
    BY <1>10 DEF Whole
  <1>16. ShownSoFar(w)
    BY <1>7, <1>8, <1>9, <1>12, <1>14, <1>15 DEF ShownSoFar
  <1>17. NoFalseAlarm(w)
    BY <1>7, <1>8, <1>9, <1>14, <1>15 DEF NoFalseAlarm
  <1>18. RunOK(w)
    BY <1>8, <1>11, <1>13, <1>16, <1>17 DEF RunOK
  <1>19. QED
    BY <1>1, <1>6, <1>18, RunStays

LEMMA SectionsOnce ==
    ASSUME DeployInv, NEW step \in environ.steps
    PROVE  /\ Sections(step) \in Seq(SectionNames)
           /\ \A i, j \in 1..Len(Sections(step)) : Sections(step)[i] = Sections(step)[j] => i = j
           /\ step = "all" => \A section \in {"register", "services", "test"} :
                                 \E i \in 1..Len(Sections(step)) : Sections(step)[i] = section
  <1>1. CASE step = "all"
    <2>1. PICK q : q = <<"deploy", "register", "services", "tee-version", "tee-machine", "test">>
      OBVIOUS
    <2>2. /\ q \in Seq(SectionNames) /\ Len(q) = 6
          /\ q[1] = "deploy" /\ q[2] = "register" /\ q[3] = "services"
          /\ q[4] = "tee-version" /\ q[5] = "tee-machine" /\ q[6] = "test"
      BY <2>1 DEF SectionNames
    <2>3. Sections(step) = q
      BY <1>1, <2>1 DEF Sections
    <2>4. \A i, j \in 1..6 : q[i] = q[j] => i = j
      BY <2>2
    <2>5. \A section \in {"register", "services", "test"} : \E i \in 1..6 : q[i] = section
      BY <2>2
    <2>6. 1..Len(q) = 1..6
      BY <2>2
    <2>7. \A i, j \in 1..Len(q) : q[i] = q[j] => i = j
      BY <2>4, <2>6, Zenon
    <2>8. \A section \in {"register", "services", "test"} : \E i \in 1..Len(q) : q[i] = section
      BY <2>5, <2>6, Zenon
    <2>9. q \in Seq(SectionNames)
      BY <2>2
    <2>10. QED
      BY <2>3, <2>7, <2>8, <2>9, Zenon
  <1>2. CASE step # "all"
    <2>1. step \in SectionNames
      BY DEF SectionNames, DeployInv, DeployTypeOK
    <2>2. Sections(step) = <<step>>
      BY <1>2 DEF Sections
    <2>3. PICK q : q = <<step>>
      OBVIOUS
    <2>4. q \in Seq(SectionNames) /\ Len(q) = 1
      BY <2>1, <2>3
    <2>5. \A i, j \in 1..Len(q) : i = j
      BY <2>4
    <2>6. QED
      BY <1>2, <2>2, <2>3, <2>4, <2>5
  <1>3. QED
    BY <1>1, <1>2

LEMMA VerifyStartKeeps ==
    ASSUME DeployInv, VerifyStart
    PROVE  VerifyInv'
  <1>1. UNCHANGED <<environ, escrows, registry, envFile>>
    BY DEF VerifyStart, deployVars
  <1>2. PICK step \in environ.steps, config \in BOOLEAN, filter \in environ.filters :
          verify' = [pc |-> IF step \in {"deploy", "register", "all"} /\ ~DefaultSupport THEN "exit1" ELSE "check",
                     step |-> step, config |-> config, filter |-> filter, todo |-> Sections(step),
                     report |-> {}, file |-> Absent, counter |-> NoCounter,
                     failed |-> {}, quiet |-> TRUE, usable |-> Usable(envFile.id, envFile.sender)]
    BY DEF VerifyStart
  <1>3. PICK pc : pc = IF step \in {"deploy", "register", "all"} /\ ~DefaultSupport THEN "exit1" ELSE "check"
    OBVIOUS
  <1>4. PICK todo, usable : todo = Sections(step) /\ usable = Usable(envFile.id, envFile.sender)
    OBVIOUS
  <1>5. PICK w : w = [pc |-> pc, step |-> step, config |-> config, filter |-> filter, todo |-> todo,
                      report |-> {}, file |-> Absent, counter |-> NoCounter,
                      failed |-> {}, quiet |-> TRUE, usable |-> usable]
    OBVIOUS
  <1>6. verify' = w
    BY <1>2, <1>3, <1>4, <1>5, Zenon
  <1>7. /\ IsRun(w) /\ w.pc = pc /\ w.step = step /\ w.todo = todo /\ w.report = {} /\ w.usable = usable
    BY <1>5 DEF IsRun
  <1>8. /\ pc \in {"check", "exit1"}
        /\ PreflightPasses => pc = "check"
    BY <1>3 DEF PreflightPasses
  <1>9. StageOK(w)
    <2>1. todo \in Seq(SectionNames) /\ \A i, j \in 1..Len(todo) : todo[i] = todo[j] => i = j
      BY <1>4, SectionsOnce
    <2>2. w.pc \in {"check", "lookups", "exit0", "exit1"} /\ w.pc # "lookups" /\ w.pc # "exit0"
      BY <1>7, <1>8
    <2>3. w.todo = todo
      BY <1>7
    <2>4. QED
      BY <2>1, <2>2, <2>3, Zenon DEF StageOK
  <1>10. UniqueMeansAdopted(w)
    BY <1>7, <1>8 DEF UniqueMeansAdopted
  <1>11. ShownSoFar(w)
    <2>1. SUFFICES ASSUME step = "all", NEW section \in SectionNames, ~Pending(w, section)
                   PROVE  Shown(section)
      BY <1>7, <1>8 DEF ShownSoFar, Whole
    <2>2. section \notin {"register", "services", "test"}
      BY <1>4, <1>7, <2>1, SectionsOnce DEF Pending
    <2>3. QED
      BY <2>2 DEF Shown
  <1>12. NoFalseAlarm(w)
    <2>1. Failures(w.report) = {}
      BY <1>7 DEF Failures
    <2>2. QED
      BY <1>4, <1>7, <1>8, <2>1 DEF NoFalseAlarm
  <1>13. RunOK(w)
    BY <1>7, <1>9, <1>10, <1>11, <1>12 DEF RunOK
  <1>14. QED
    BY <1>1, <1>6, <1>13, RunStays

(* The world goes on while a run is under way. *)
LEMMA DisturbKeeps ==
    ASSUME DeployInv, DeployInv', Grows, VerifyInv, Disturb
    PROVE  VerifyInv'
  <1>1. CASE verify = Checking
    <2>1. verify.pc = "idle"
      BY <1>1 DEF Checking
    <2>2. QED
      BY <1>1, <2>1 DEF Disturb, VerifyInv
  <1>2. CASE RunOK(verify)
    <2>1. PICK v : v = verify
      OBVIOUS
    <2>2. IsRun(v) /\ StageOK(v) /\ UniqueMeansAdopted(v) /\ ShownSoFar(v) /\ NoFalseAlarm(v)
      BY <1>2, <2>1 DEF RunOK
    <2>3. v.pc # "idle"
      BY <2>2 DEF StageOK
    <2>4. PICK w : verify' = w
      OBVIOUS
    <2>5. /\ envFile' # envFile => w = [v EXCEPT !.quiet = FALSE]
          /\ envFile' = envFile => w = v
      BY <2>1, <2>3, <2>4 DEF Disturb
    <2>6. /\ IsRun(w) /\ w.pc = v.pc /\ w.todo = v.todo /\ w.file = v.file /\ w.counter = v.counter
          /\ w.report = v.report /\ w.failed = v.failed
          /\ w.step = v.step /\ w.config = v.config /\ w.filter = v.filter
          /\ w.usable = v.usable
          /\ w.quiet => w = v /\ envFile' = envFile
      BY <2>2, <2>5 DEF IsRun
    <2>7. StageOK(w)
      BY <2>2, <2>6 DEF StageOK
    <2>8. \A section : Pending(w, section) <=> Pending(v, section)
      BY <2>6 DEF Pending
    <2>9. environ' = environ /\ DeployTypeOK /\ DeployTypeOK'
      BY DEF Grows, DeployInv
    <2>10. PICK file : file = v.file
      OBVIOUS
    <2>11. /\ FileOK(file) => FileOK(file)'
           /\ AdoptedFile(file) => AdoptedFile(file)'
      <3>1. FileOK(file) => FileOK(file)'
        BY <2>9, GrowsKeepsFile
      <3>2. Len(escrows) \in Nat /\ Len(escrows') \in Nat
        BY <2>9 DEF DeployTypeOK
      <3>3. AdoptedFile(file) => AdoptedFile(file)'
        BY <3>2 DEF AdoptedFile, Grows
      <3>4. QED
        BY <3>1, <3>3
    <2>12. UniqueMeansAdopted(w)'
      BY <2>2, <2>6, <2>8, <2>9, <2>10, <2>11 DEF UniqueMeansAdopted
    <2>13. ASSUME envFile' = envFile, NEW section, Shown(section)
           PROVE  Shown(section)'
      <3>1. Registered(envFile.id, envFile.sender) =>
              /\ envFile.id \in 1..Len(registry') /\ registry'[envFile.id].sender = envFile.sender
              /\ registry[envFile.id].machineOwner => registry'[envFile.id].machineOwner
              /\ registry[envFile.id].evmKeys => registry'[envFile.id].evmKeys
        <4>1. Len(registry) \in Nat /\ Len(registry') \in Nat
          BY <2>9 DEF DeployTypeOK
        <4>2. QED
          BY <4>1 DEF Grows, Registered
      <3>2. QED
        BY <2>13, <3>1 DEF Shown, Registered
    <2>14. ShownSoFar(w)'
      <3>1. SUFFICES ASSUME Whole(w) PROVE ShownSoFar(w)'
        BY DEF ShownSoFar
      <3>2. w = v /\ envFile' = envFile
        BY <2>6, <3>1 DEF Whole
      <3>3. QED
        BY <2>2, <2>13, <3>2, Zenon DEF ShownSoFar
    <2>15. NoFalseAlarm(w)'
      <3>1. SUFFICES ASSUME Whole(w) PROVE NoFalseAlarm(w)'
        BY DEF NoFalseAlarm
      <3>2. w = v /\ envFile' = envFile
        BY <2>6, <3>1 DEF Whole
      <3>3. PreflightPasses' => PreflightPasses
        BY <2>9 DEF PreflightPasses, DefaultSupport, resolveTreasury, resolveProtocolFeeBps,
           AddressNotZero, AddressHasCode, KeyHasFunds
      <3>4. Usable(envFile.id, envFile.sender) => Usable(envFile.id, envFile.sender)'
        <4>1. PICK id, sender : id = envFile.id /\ sender = envFile.sender
          OBVIOUS
        <4>2. Usable(id, sender) => Usable(id, sender)'
          BY <2>9, GrowsKeepsUsable
        <4>3. QED
          BY <3>2, <4>1, <4>2 DEF Usable, Registered
      <3>5. QED
        BY <2>2, <3>2, <3>3, <3>4 DEF NoFalseAlarm
    <2>16. RunOK(w)'
      BY <2>6, <2>7, <2>12, <2>14, <2>15, Zenon DEF RunOK
    <2>17. QED
      BY <2>4, <2>16, Zenon DEF VerifyInv
  <1>3. QED
    BY <1>1, <1>2 DEF VerifyInv

LEMMA VerifyInvHolds ==
    ASSUME DeployInv, VerifyInv, [Next]_vars
    PROVE  DeployInv' /\ VerifyInv'
  <1>1. DeployInv' /\ Grows
    BY DeployInvHolds
  <1>2. CASE VerifyStart
    BY <1>1, <1>2, VerifyStartKeeps
  <1>3. CASE DeployStep \/ EditEnv
    BY <1>1, <1>3, DisturbKeeps DEF DeployStep, EditEnv
  <1>4. CASE UNCHANGED vars
    <2>1. PICK w : w = verify
      OBVIOUS
    <2>2. verify' = w /\ UNCHANGED <<environ, escrows, registry, envFile>>
      BY <1>4, <2>1 DEF vars, deployVars
    <2>3. CASE RunOK(verify)
      BY <1>1, <2>1, <2>2, <2>3, RunStays
    <2>4. CASE verify = Checking
      BY <1>1, <2>1, <2>2, <2>4 DEF VerifyInv
    <2>5. QED
      BY <2>3, <2>4 DEF VerifyInv
  <1>5. CASE ChainSection \/ OfflineSection \/ RegistrationBegin \/ RegistrationLookups \/ VerifyFinish
    <2>1. verify.pc # "idle"
      BY <1>5 DEF ChainSection, OfflineSection, RegistrationBegin, RegistrationLookups, VerifyFinish, Due
    <2>2. RunOK(verify)
      BY <2>1 DEF VerifyInv, Checking
    <2>3. QED
      BY <1>1, <1>5, <2>2, ChainSectionKeeps, OfflineSectionKeeps, RegistrationBeginKeeps,
         RegistrationLookupsKeeps, VerifyFinishKeeps
  <1>6. QED
    BY <1>2, <1>3, <1>4, <1>5 DEF Next

LEMMA ChecksInvariant == Spec => [](DeployInv /\ VerifyInv)
  <1>1. Init => DeployInv /\ VerifyInv
    BY DeployInvInit DEF Init, VerifyInv
  <1>2. DeployInv /\ VerifyInv /\ [Next]_vars => (DeployInv /\ VerifyInv)'
    BY VerifyInvHolds
  <1>3. QED
    BY <1>1, <1>2, PTL DEF Spec

(* verify-deploy, for every setting, file and sequence of sections: when   *)
(* all steps pass over a file that stayed as it was, even one written by   *)
(* hand while builds and strangers went on, the escrow it names is         *)
(* registered under its id and the extension is completely set up.         *)
THEOREM PassedDeploymentIsUsable == Spec => []VerifiedDeploymentIsUsable
  <1>1. DeployInv /\ VerifyInv => VerifiedDeploymentIsUsable
    <2>1. SUFFICES ASSUME DeployInv, VerifyInv, Finished("all"), verify.pc = "exit0", verify.quiet
                   PROVE  WellFormed(envFile.id) /\ Usable(envFile.id, envFile.sender)
      BY DEF VerifiedDeploymentIsUsable
    <2>2. RunOK(verify) /\ Whole(verify)
      <3>1. verify # Checking
        BY <2>1 DEF Checking
      <3>2. QED
        BY <2>1, <3>1 DEF VerifyInv, Finished, Whole
    <2>3. verify.todo = <<>> /\ Failures(verify.report) = {}
      BY <2>1, <2>2 DEF RunOK, StageOK, Whole
    <2>4. \A section : ~Pending(verify, section)
      BY <2>3 DEF Pending
    <2>5. Shown("services") /\ Shown("test") /\ Shown("register")
      BY <2>2, <2>3, <2>4 DEF RunOK, ShownSoFar, SectionNames
    <2>6. PICK id, sender : id = envFile.id /\ sender = envFile.sender
      OBVIOUS
    <2>7. WellFormed(id) /\ Registered(id, sender) /\ registry[id].machineOwner /\ registry[id].evmKeys
      BY <2>5, <2>6 DEF Shown
    <2>8. registry[id].projectOwner
      <3>1. EntryOK(registry[id])
        BY <2>1, <2>7 DEF Registered, DeployInv
      <3>2. QED
        BY <2>7, <3>1 DEF EntryOK
    <2>9. QED
      BY <2>6, <2>7, <2>8 DEF Usable
  <1>2. QED
    BY <1>1, ChecksInvariant, PTL

(* verify-deploy never turns down a deployment that is good, on good       *)
(* settings, unless a call fails or the file is changed under it.          *)
THEOREM UsableDeploymentsPass == Spec => []UsableDeploymentPasses
  <1>1. VerifyInv => UsableDeploymentPasses
    <2>1. SUFFICES ASSUME VerifyInv, Finished("all"), verify.usable, verify.quiet, verify.failed = {},
                          PreflightPasses
                   PROVE  verify.pc = "exit0"
      BY DEF UsableDeploymentPasses
    <2>2. verify.pc \in {"exit0", "exit1"} /\ Whole(verify)
      BY <2>1 DEF Finished, Whole
    <2>3. RunOK(verify)
      <3>1. verify # Checking
        BY <2>2 DEF Checking
      <3>2. QED
        BY <2>1, <3>1 DEF VerifyInv
    <2>4. verify.pc # "exit1"
      BY <2>1, <2>2, <2>3 DEF RunOK, NoFalseAlarm
    <2>5. QED
      BY <2>2, <2>4
  <1>2. QED
    BY <1>1, ChecksInvariant, PTL

(* Check R7 for every registry, also one that takes a sender twice: when   *)
(* it passes on a file only pre-build.sh wrote, and no lookup was lost,    *)
(* the escrow has adopted the id the file had when it was read, however    *)
(* many extensions have been registered since.                             *)
THEOREM PassedEscrowAdoptedItsId == Spec => []VerifiedEscrowAdoptedItsId
  <1>1. VerifyInv => VerifiedEscrowAdoptedItsId
    <2>1. SUFFICES ASSUME VerifyInv, verify.pc = "exit0", environ.edits = {},
                          <<"R7", "PASS">> \in verify.report, "R7" \notin verify.failed
                   PROVE  escrows[verify.file.sender] = verify.file.id
      BY DEF VerifiedEscrowAdoptedItsId
    <2>2. RunOK(verify)
      <3>1. verify # Checking
        BY <2>1 DEF Checking
      <3>2. QED
        BY <2>1, <3>1 DEF VerifyInv
    <2>3. QED
      BY <2>1, <2>2 DEF RunOK, UniqueMeansAdopted, AdoptedFile
  <1>2. QED
    BY <1>1, ChecksInvariant, PTL
=============================================================================
