------------------------- MODULE RegistrationProofs -------------------------
(***************************************************************************)
(* Theorems about allow-tee-version and register-tee, for any number of    *)
(* machines and of runs at the same time, any commands, any failures and   *)
(* any number of transactions under way.                                   *)
(***************************************************************************)
EXTENDS Registration, TLAPS, FiniteSetTheorems

(* What allow-tee-version leaves behind for a machine.                     *)
Allowed(t) == Supported(TeeInfo(t).codeHash) \/ NameTaken(t)

Ids    == 0..MaxId
Steps  == {"r", "R", "a", "p"}
Hashes == UNION {p.governances : p \in Plans}

States == [done : SUBSET Steps, attest : Ids, avail : Ids]

Pcs == {"version", "governance", "begin", "load", "r", "R", "a", "p", "end", "wait", "save"}

ActiveRuns ==
    [pc : Pcs,
     tee : Tees, command : SUBSET Steps, resume : BOOLEAN, governance : Hashes, state : States,
     attest : Ids, avail : Ids, flag : Ids, step : {"version", "governance", "begin"} \cup Steps]

DoneRuns == [pc : {"registered"}, tee : Tees, command : SUBSET Steps]

Ops == {"addTeeVersion", "setNewTeeGovernance", "register", "requestTeeAttestation",
        "requestAvailabilityCheckAttestation", "toProduction"}

Transactions ==
    [by : Runs \cup {"nobody"}, op : Ops, tee : Tees, id : Ids, governance : Hashes]

Instructions ==
    [kind : {"attest"}, tee : Tees, status : {"open", "used"}]
    \cup [kind : {"avail"}, tee : Tees, status : {"asked", "proved", "rejected"}]

NoInstruction == [kind |-> "none"]

TypeOK ==
    /\ plan \in Plans
    /\ machine \in [Tees -> {"none", "registered", "production"}]
    /\ instruction \in [1..MaxId -> Instructions \cup {NoInstruction}]
    /\ lead \in Int
    /\ mempool \in Seq(Transactions)
    /\ stateFile \in {Absent, Torn} \cup {Saved(s) : s \in States}
    /\ run \in [Runs -> ActiveRuns \cup DoneRuns \cup {Idle}]
    /\ faults \in Nat

Is(id, kind) == id # NoId /\ instruction[id].kind = kind

(* What a state, in memory or on disk, claims has happened. *)
StateTrue(s) ==
    /\ s.done \cap {"r", "R"} # {} => Is(s.attest, "attest") /\ machine[instruction[s.attest].tee] # "none"
    /\ "a" \in s.done => Is(s.avail, "avail")

(* A run that is under way refers to instructions of the right kind.       *)
RunOK(c) ==
    /\ c.tee \in plan.tees
    /\ StateTrue(c.state)
    /\ c.avail # NoId => Is(c.avail, "avail")
    /\ c.flag # NoId => Is(c.flag, "avail")
    /\ c.pc = "save" => c.step \in {"r", "R", "a"} /\ (c.step = "a" => c.avail # NoId)
    /\ c.pc = "governance" => Allowed(c.tee)

RunsOK == \A r \in Runs : Active(r) => r \in plan.runs /\ RunOK(run[r])

FileOK == stateFile.kind = "saved" => StateTrue(stateFile.state)

(* The step of a run that sends a transaction. *)
SentBy(op, step) ==
    \/ op = "addTeeVersion" /\ step = "version"
    \/ op = "setNewTeeGovernance" /\ step = "governance"
    \/ op = "register" /\ step = "r"
    \/ op = "requestTeeAttestation" /\ step \in {"r", "R"}
    \/ op = "requestAvailabilityCheckAttestation" /\ step = "a"
    \/ op = "toProduction" /\ step = "p"

(* The run whose transaction is under way waits for it. *)
TransactionOK(tx) ==
    /\ tx.tee \in plan.tees
    /\ tx.op = "toProduction" => Is(tx.id, "avail") /\ instruction[tx.id].status = "proved"
    /\ tx.by # "nobody" =>
          /\ run[tx.by].pc = "wait" /\ run[tx.by].tee = tx.tee
          /\ SentBy(tx.op, run[tx.by].step)
          /\ tx.op = "toProduction" => tx.id = run[tx.by].avail

MempoolOK ==
    /\ \A i \in 1..Len(mempool) : TransactionOK(mempool[i])
    /\ \A i, j \in 1..Len(mempool) :
          mempool[i].by = mempool[j].by /\ mempool[i].by # "nobody" => i = j

InstructionsOK == \A id \in 1..MaxId : instruction[id].kind # "none" => instruction[id].tee \in plan.tees

VersionsOK == \A v \in versions : \E t \in Tees : v = <<Versions[t], CodeOf[t]>>

(* A run that has passed the promotion has made it.                        *)
Promoted(c) == c.pc \in {"end", "registered"} /\ "p" \in c.command => machine[c.tee] = "production"

PromotedOK == OneMachineAtATime => \A r \in Runs : Promoted(run[r])
-----------------------------------------------------------------------------
(* One operator who takes the machines one after the other.                *)
Alone == Cardinality(plan.runs) = 1 /\ plan.resumes = {FALSE} /\ plan.maxFaults <= 1

(* The file names an availability check. *)
Claims == stateFile.kind = "saved" /\ "a" \in stateFile.state.done

(* The run has its availability check and has not come to its end yet.     *)
Checked(c) == c.pc \in {"p", "end"} \/ (c.pc = "wait" /\ c.step = "p")

OwnCheck(c) ==
    /\ c.resume = FALSE
    /\ "a" \in c.state.done => /\ Checked(c) \/ (c.pc = "save" /\ c.step = "a")
                               /\ instruction[c.state.avail].tee = c.tee
    /\ c.avail # NoId => instruction[c.avail].tee = c.tee
    /\ c.flag # NoId => instruction[c.flag].tee = c.tee

OwnChecks == Alone => \A r \in Runs : Active(r) => OwnCheck(run[r])

(* A file that is about to be loaded names no availability check, and      *)
(* while nothing has gone wrong, a file that does is the one of the run    *)
(* that is about to use it.                                                *)
OwnFile(c) ==
    /\ c.pc = "load" => ~Claims
    /\ faults = 0 /\ Claims => c \in ActiveRuns /\ Checked(c) /\ c.avail # NoId

OwnFiles == Alone => \A r \in plan.runs : OwnFile(run[r])

NothingWrong ==
    Alone /\ faults = 0 =>
        /\ lead = 0
        /\ \A id \in 1..MaxId : instruction[id].kind = "avail" => instruction[id].status # "rejected"

RegistrationInv ==
    /\ TypeOK /\ RunsOK /\ FileOK /\ MempoolOK /\ InstructionsOK /\ VersionsOK
    /\ PromotedOK /\ OwnChecks /\ OwnFiles /\ NothingWrong
-----------------------------------------------------------------------------
(* What no step takes back, and what may still become of an instruction.   *)
Stable ==
    /\ plan' = plan
    /\ \A t \in Tees : /\ machine[t] # "none" => machine'[t] # "none"
                       /\ machine[t] = "production" => machine'[t] = "production"
    /\ versions \subseteq versions'

Kept(id) ==
    /\ instruction'[id].kind = instruction[id].kind
    /\ instruction'[id].tee = instruction[id].tee
    /\ instruction[id].status = "proved" => instruction'[id].status = "proved"

(* An id somebody refers to is not given to another instruction.           *)
KeptIds == \A id \in Referenced : id # NoId => Kept(id)

LEMMA ActiveType ==
    ASSUME TypeOK, NEW r \in Runs
    PROVE  Active(r) <=> run[r] \in ActiveRuns
  <1>1. run[r] \in ActiveRuns \cup DoneRuns \cup {Idle}
    BY DEF TypeOK
  <1>2. QED
    BY <1>1 DEF Active, ActiveRuns, Pcs, DoneRuns, Idle

LEMMA FileType ==
    ASSUME TypeOK
    PROVE  /\ stateFile.kind \in {"absent", "torn", "saved"}
           /\ stateFile.kind = "saved" => stateFile.state \in States /\ stateFile = Saved(stateFile.state)
           /\ stateFile.kind = "absent" => stateFile = Absent
           /\ stateFile.kind = "torn" => stateFile = Torn
  BY DEF TypeOK, Absent, Torn, Saved

LEMMA InstructionType ==
    ASSUME TypeOK, NEW id \in 1..MaxId, instruction[id].kind # "none"
    PROVE  instruction[id] \in Instructions
  BY DEF TypeOK, NoInstruction

LEMMA TransactionType ==
    ASSUME TypeOK, NEW i \in 1..Len(mempool)
    PROVE  /\ mempool[i] \in Transactions
           /\ mempool[i].by # "nobody" => mempool[i].by \in Runs
  <1>1. mempool \in Seq(Transactions)
    BY DEF TypeOK
  <1>2. mempool[i] \in Transactions
    BY <1>1
  <1>3. QED
    BY <1>2 DEF Transactions

LEMMA RefsReferenced ==
    ASSUME TypeOK
    PROVE  /\ \A r \in Runs : Active(r) => Refs(run[r]) \subseteq Referenced
           /\ stateFile.kind = "saved" => {stateFile.state.attest, stateFile.state.avail} \subseteq Referenced
           /\ \A i \in 1..Len(mempool) : mempool[i].id \in Referenced
  <1>1. DOMAIN mempool = 1..Len(mempool)
    BY DEF TypeOK
  <1>2. ASSUME NEW r \in Runs, Active(r) PROVE Refs(run[r]) \subseteq Referenced
    <2>1. r \in {q \in Runs : Active(q)}
      BY <1>2
    <2>2. QED
      BY <2>1 DEF Referenced
  <1> DEFINE A == UNION {Refs(run[r]) : r \in {q \in Runs : Active(q)}}
             B == {mempool[i].id : i \in DOMAIN mempool}
  <1>3. Referenced = A \cup FileRefs \cup B
    BY DEF Referenced
  <1>4. \A i \in 1..Len(mempool) : mempool[i].id \in B
    BY <1>1
  <1>5. stateFile.kind = "saved" => {stateFile.state.attest, stateFile.state.avail} = FileRefs
    BY DEF FileRefs
  <1> HIDE DEF A, B
  <1>6. FileRefs \subseteq Referenced /\ B \subseteq Referenced
    BY <1>3
  <1>7. QED
    BY <1>2, <1>4, <1>5, <1>6

LEMMA ReferencedType ==
    ASSUME TypeOK
    PROVE  Referenced \subseteq Ids
  <1> DEFINE A == UNION {Refs(run[r]) : r \in {q \in Runs : Active(q)}}
             B == {mempool[i].id : i \in DOMAIN mempool}
  <1>1. A \subseteq Ids
    <2>1. ASSUME NEW r \in Runs, Active(r) PROVE Refs(run[r]) \subseteq Ids
      <3>1. run[r] \in ActiveRuns
        BY <2>1, ActiveType
      <3>2. QED
        BY <3>1 DEF Refs, ActiveRuns, States
    <2>2. QED
      BY <2>1
  <1>2. B \subseteq Ids
    <2>1. \A i \in DOMAIN mempool : mempool[i] \in Transactions
      BY DEF TypeOK
    <2>2. QED
      BY <2>1 DEF Transactions
  <1>3. FileRefs \subseteq Ids
    BY FileType DEF FileRefs, States
  <1>4. Referenced = A \cup FileRefs \cup B
    BY DEF Referenced
  <1> HIDE DEF A, B
  <1>5. QED
    BY <1>1, <1>2, <1>3, <1>4

LEMMA StateStays ==
    ASSUME TypeOK, Stable, NEW s \in States, StateTrue(s),
           s.attest # NoId => Kept(s.attest), s.avail # NoId => Kept(s.avail)
    PROVE  StateTrue(s)'
  <1>1. ASSUME s.done \cap {"r", "R"} # {}
        PROVE  Is(s.attest, "attest")' /\ (machine[instruction[s.attest].tee] # "none")'
    <2>1. s.attest # NoId /\ instruction[s.attest].kind = "attest" /\ machine[instruction[s.attest].tee] # "none"
      BY <1>1 DEF StateTrue, Is
    <2>2. s.attest \in 1..MaxId
      BY <2>1, RegistrationAssumption DEF States, Ids, NoId
    <2>3. instruction[s.attest].tee \in Tees
      BY <2>1, <2>2, InstructionType DEF Instructions
    <2>4. QED
      BY <2>1, <2>3 DEF Is, Kept, Stable
  <1>2. ASSUME "a" \in s.done PROVE Is(s.avail, "avail")'
    BY <1>2 DEF StateTrue, Is, Kept
  <1>3. QED
    BY <1>1, <1>2 DEF StateTrue

LEMMA RunStays ==
    ASSUME TypeOK, Stable, NEW c \in ActiveRuns, RunOK(c),
           \A id \in Refs(c) : id # NoId => Kept(id)
    PROVE  RunOK(c)'
  <1>1. StateTrue(c.state)'
    BY StateStays DEF RunOK, Refs, ActiveRuns
  <1>2. /\ c.avail # NoId => Is(c.avail, "avail")'
        /\ c.flag # NoId => Is(c.flag, "avail")'
    BY DEF RunOK, Refs, Is, Kept
  <1>3. Allowed(c.tee) => Allowed(c.tee)'
    BY DEF Allowed, Supported, NameTaken, Stable, TeeInfo
  <1>4. c.tee \in plan'.tees
    BY DEF RunOK, Stable
  <1>5. QED
    BY <1>1, <1>2, <1>3, <1>4 DEF RunOK

LEMMA OwnCheckStays ==
    ASSUME NEW c \in ActiveRuns, OwnCheck(c), StateTrue(c.state),
           \A id \in Refs(c) : id # NoId => Kept(id)
    PROVE  OwnCheck(c)'
  <1>1. "a" \in c.state.done => c.state.avail # NoId
    BY DEF StateTrue, Is
  <1>2. QED
    BY <1>1 DEF OwnCheck, Refs, Kept

LEMMA FileStays ==
    ASSUME TypeOK, FileOK, Stable, KeptIds, stateFile' = stateFile
    PROVE  FileOK'
  <1>1. SUFFICES ASSUME stateFile.kind = "saved" PROVE StateTrue(stateFile.state)'
    BY DEF FileOK
  <1>2. PICK s \in States : s = stateFile.state
    BY <1>1, FileType
  <1>3. s.attest \in Referenced /\ s.avail \in Referenced
    BY <1>1, <1>2, RefsReferenced
  <1>4. StateTrue(s)'
    BY <1>1, <1>2, <1>3, StateStays DEF KeptIds, FileOK
  <1>5. QED
    BY <1>2, <1>4 DEF StateTrue, Is
-----------------------------------------------------------------------------
(* What the invariant says of one run. *)
Good(r) ==
    /\ Active(r) => r \in plan.runs /\ RunOK(run[r])
    /\ OneMachineAtATime => Promoted(run[r])
    /\ Alone /\ Active(r) => OwnCheck(run[r])

LEMMA PlanStays ==
    ASSUME Stable
    PROVE  /\ plan' = plan
           /\ OneMachineAtATime' <=> OneMachineAtATime
           /\ Alone' <=> Alone
  BY DEF Stable, OneMachineAtATime, Alone

LEMMA InvIsGood ==
    ASSUME RegistrationInv, NEW r \in Runs
    PROVE  Good(r)
  BY DEF RegistrationInv, RunsOK, PromotedOK, OwnChecks, Good

LEMMA PromotedStays ==
    ASSUME TypeOK, Stable, NEW c \in ActiveRuns \cup DoneRuns \cup {Idle}, Promoted(c)
    PROVE  Promoted(c)'
  <1>1. c.pc \in {"end", "registered"} => c.tee \in Tees
    BY DEF ActiveRuns, DoneRuns, Idle
  <1>2. QED
    BY <1>1 DEF Promoted, Stable

(* A run that does not move stays as good as it was. *)
LEMMA OthersStay ==
    ASSUME RegistrationInv, Stable, KeptIds, NEW q \in Runs, run'[q] = run[q]
    PROVE  Good(q)'
  <1>1. TypeOK /\ Good(q)
    BY InvIsGood DEF RegistrationInv
  <1>2. PICK c \in ActiveRuns \cup DoneRuns \cup {Idle} : c = run[q]
    BY <1>1 DEF TypeOK
  <1>3. Active(q)' <=> Active(q)
    BY DEF Active
  <1>4. /\ plan' = plan
        /\ OneMachineAtATime' <=> OneMachineAtATime
        /\ Alone' <=> Alone
    BY PlanStays
  <1>5. OneMachineAtATime => Promoted(c)'
    BY <1>1, <1>2, PromotedStays DEF Good
  <1>6. ASSUME Active(q)
        PROVE  q \in plan.runs /\ RunOK(c)' /\ (Alone => OwnCheck(c)')
    <2>1. c \in ActiveRuns
      BY <1>1, <1>2, <1>6, ActiveType
    <2>2. \A id \in Refs(c) : id # NoId => Kept(id)
      BY <1>1, <1>2, <1>6, RefsReferenced DEF KeptIds
    <2>3. q \in plan.runs /\ RunOK(c) /\ (Alone => OwnCheck(c))
      BY <1>1, <1>2, <1>6 DEF Good
    <2>4. RunOK(c)'
      BY <1>1, <2>1, <2>2, <2>3, RunStays
    <2>5. StateTrue(c.state)
      BY <2>3 DEF RunOK
    <2>6. Alone => OwnCheck(c)'
      BY <2>1, <2>2, <2>3, <2>5, OwnCheckStays
    <2>7. QED
      BY <2>3, <2>4, <2>6
  <1>7. c = run'[q]
    BY <1>2
  <1>8. QED
    BY <1>3, <1>4, <1>5, <1>6, <1>7 DEF Good, RunOK, StateTrue, Is, OwnCheck, Checked, Promoted, Supported

LEMMA AllGood ==
    ASSUME TypeOK', FileOK', MempoolOK', InstructionsOK', VersionsOK', OwnFiles', NothingWrong',
           \A q \in Runs : Good(q)'
    PROVE  RegistrationInv'
  <1>1. (\A q \in Runs : Good(q))'
    BY Zenon
  <1>2. (RunsOK /\ PromotedOK /\ OwnChecks)' <=> (\A q \in Runs : Good(q))'
    BY DEF Good, RunsOK, PromotedOK, OwnChecks
  <1>3. RunsOK' /\ PromotedOK' /\ OwnChecks'
    BY <1>1, <1>2
  <1>4. QED
    BY <1>3, Zenon DEF RegistrationInv

(* At most one run moves in a step. *)
LEMMA Frame ==
    ASSUME RegistrationInv, TypeOK', Stable, KeptIds, FileOK', MempoolOK', InstructionsOK', VersionsOK',
           OwnFiles', NothingWrong',
           NEW r \in Runs, \A q \in Runs : q # r => run'[q] = run[q], Good(r)'
    PROVE  RegistrationInv'
  <1>1. \A q \in Runs : Good(q)'
    BY OthersStay
  <1>2. QED
    BY <1>1, AllGood

LEMMA ChainStays ==
    ASSUME RegistrationInv, UNCHANGED <<plan, machine, versions, instruction>>
    PROVE  /\ Stable /\ KeptIds /\ \A id : Kept(id)
           /\ InstructionsOK' /\ VersionsOK'
  <1>1. \A id : Kept(id)
    BY DEF Kept
  <1>2. Stable
    BY DEF Stable
  <1>3. QED
    BY <1>1, <1>2 DEF RegistrationInv, KeptIds, InstructionsOK, VersionsOK

LEMMA OnlyRun ==
    ASSUME RegistrationInv, Alone, NEW r \in plan.runs, NEW q \in plan.runs
    PROVE  q = r
  <1>1. plan.runs \subseteq Runs /\ IsFiniteSet(Runs)
    BY RegistrationAssumption DEF RegistrationInv, TypeOK
  <1>2. IsFiniteSet(plan.runs)
    BY <1>1, FS_Subset
  <1>3. Cardinality(plan.runs) = 1
    BY DEF Alone
  <1>4. PICK x : plan.runs = {x}
    BY <1>2, <1>3, FS_Singleton
  <1>5. QED
    BY <1>4

LEMMA OwnFilesFrame ==
    ASSUME RegistrationInv, Stable, NEW r \in plan.runs, Alone => OwnFile(run[r])'
    PROVE  OwnFiles'
  <1>1. SUFFICES ASSUME Alone, NEW q \in plan.runs PROVE OwnFile(run[q])'
    BY PlanStays DEF OwnFiles
  <1>2. q = r
    BY <1>1, OnlyRun
  <1>3. QED
    BY <1>1, <1>2

(* A tool goes on by itself; it may change the file.                       *)
LEMMA LocalStep ==
    ASSUME RegistrationInv, NEW r \in plan.runs, run[r].pc # "wait",
           NEW c \in ActiveRuns \cup DoneRuns \cup {Idle}, run' = [run EXCEPT ![r] = c],
           UNCHANGED chainVars, faults' \in Nat, faults' = 0 => faults = 0,
           stateFile' \in {Absent, Torn} \cup {Saved(s) : s \in States}, FileOK',
           c \in ActiveRuns => RunOK(c),
           OneMachineAtATime => Promoted(c),
           Alone /\ c \in ActiveRuns => OwnCheck(c),
           Alone => OwnFile(c)'
    PROVE  RegistrationInv'
  <1>1. UNCHANGED <<plan, machine, versions, instruction, lead, mempool>> /\ r \in Runs
    BY RegistrationAssumption DEF chainVars, RegistrationInv, TypeOK
  <1>2. /\ Stable /\ KeptIds /\ \A id : Kept(id)
        /\ InstructionsOK' /\ VersionsOK'
    BY <1>1, ChainStays
  <1>3. TypeOK /\ run \in [Runs -> ActiveRuns \cup DoneRuns \cup {Idle}]
    BY DEF RegistrationInv, TypeOK
  <1>4. /\ run' \in [Runs -> ActiveRuns \cup DoneRuns \cup {Idle}]
        /\ run'[r] = c /\ \A q \in Runs : q # r => run'[q] = run[q]
    BY <1>1, <1>3
  <1>5. TypeOK'
    BY <1>1, <1>3, <1>4 DEF TypeOK
  <1>6. MempoolOK'
    <2>1. ASSUME NEW i \in 1..Len(mempool) PROVE TransactionOK(mempool[i])'
      <3>1. TransactionOK(mempool[i])
        BY <2>1 DEF RegistrationInv, MempoolOK
      <3>2. mempool[i].by # "nobody" => mempool[i].by \in Runs
        BY <1>3, <2>1, TransactionType
      <3>3. mempool[i].by # "nobody" => run'[mempool[i].by] = run[mempool[i].by]
        BY <1>4, <3>1, <3>2 DEF TransactionOK
      <3>4. QED
        <4>1. PICK tx : tx = mempool[i]
          OBVIOUS
        <4>2. mempool'[i] = tx /\ (Is(tx.id, "avail")' <=> Is(tx.id, "avail"))
          BY <1>1, <4>1 DEF Is
        <4>3. TransactionOK(tx)'
          BY <1>1, <3>1, <3>3, <4>1, <4>2 DEF TransactionOK
        <4>4. QED
          BY <4>2, <4>3 DEF TransactionOK, Is
    <2>2. QED
      BY <1>1, <2>1 DEF RegistrationInv, MempoolOK
  <1>7. Good(r)'
    <2>1. Active(r)' <=> c \in ActiveRuns
      BY <1>1, <1>4, <1>5 DEF Active, ActiveRuns, Pcs, DoneRuns, Idle
    <2>2. c \in ActiveRuns => RunOK(c)'
      BY <1>2, <1>3, RunStays
    <2>3. OneMachineAtATime => Promoted(c)'
      BY <1>2, <1>3, PromotedStays
    <2>4. Alone /\ c \in ActiveRuns => OwnCheck(c)'
      <3>1. c \in ActiveRuns => StateTrue(c.state)
        BY DEF RunOK
      <3>2. QED
        BY <1>2, <3>1, OwnCheckStays
    <2>5. /\ plan' = plan
          /\ OneMachineAtATime' <=> OneMachineAtATime
          /\ Alone' <=> Alone
      BY <1>2, PlanStays
    <2>6. QED
      BY <1>4, <2>1, <2>2, <2>3, <2>4, <2>5
      DEF Good, RunOK, StateTrue, Is, OwnCheck, Checked, Promoted, Supported
  <1>8. OwnFiles'
    <2>1. Alone => OwnFile(run[r])'
      BY <1>4 DEF OwnFile, Claims, Checked
    <2>2. QED
      BY <1>2, <2>1, OwnFilesFrame
  <1>9. NothingWrong'
    BY <1>1, <1>2, PlanStays DEF NothingWrong, RegistrationInv
  <1>10. QED
    BY <1>1, <1>2, <1>4, <1>5, <1>6, <1>7, <1>8, <1>9, Frame

LEMMA ActiveRun ==
    ASSUME RegistrationInv, NEW r \in Runs, Active(r)
    PROVE  /\ r \in plan.runs /\ run[r] \in ActiveRuns /\ RunOK(run[r])
           /\ Alone => OwnCheck(run[r]) /\ OwnFile(run[r])
  BY ActiveType DEF RegistrationInv, RunsOK, OwnChecks, OwnFiles

(* A tool goes on to pc, with or without a change of the file.             *)
LEMMA GotoStep ==
    ASSUME RegistrationInv, NEW r \in Runs, Active(r), run[r].pc # "wait",
           NEW pc \in Pcs \ {"save", "wait"}, Goto(r, pc),
           UNCHANGED chainVars, faults' \in Nat, faults' = 0 => faults = 0,
           stateFile' \in {Absent, Torn} \cup {Saved(s) : s \in States}, FileOK',
           pc = "governance" => Allowed(run[r].tee),
           pc = "end" => "p" \notin run[r].command,
           Alone => /\ "a" \in run[r].state.done => pc \in {"p", "end"}
                    /\ pc = "load" => ~Claims'
                    /\ faults' = 0 /\ Claims' => pc \in {"p", "end"} /\ run[r].avail # NoId
    PROVE  RegistrationInv'
  <1>1. /\ r \in plan.runs /\ run[r] \in ActiveRuns /\ RunOK(run[r])
        /\ Alone => OwnCheck(run[r])
    BY ActiveRun
  <1>2. PICK c : c = [run[r] EXCEPT !.pc = pc]
    OBVIOUS
  <1>3. /\ c \in ActiveRuns /\ c.pc = pc /\ c.tee = run[r].tee /\ c.command = run[r].command
        /\ c.resume = run[r].resume /\ c.state = run[r].state /\ c.avail = run[r].avail /\ c.flag = run[r].flag
        /\ c.step = run[r].step
    BY <1>1, <1>2 DEF ActiveRuns
  <1>4. run' = [run EXCEPT ![r] = c]
    BY <1>2 DEF Goto
  <1>5. RunOK(c)
    BY <1>1, <1>3 DEF RunOK
  <1>6. Promoted(c)
    BY <1>3 DEF Promoted, Pcs
  <1>7. Alone => OwnCheck(c)
    BY <1>1, <1>3 DEF OwnCheck, Checked
  <1>8. Alone => OwnFile(c)'
    BY <1>3 DEF OwnFile, Checked
  <1>9. QED
    BY <1>1, <1>3, <1>4, <1>5, <1>6, <1>7, <1>8, LocalStep

(* A tool ends. *)
LEMMA GiveUpStep ==
    ASSUME RegistrationInv, NEW r \in Runs, Active(r), run[r].pc # "wait", GiveUp(r),
           UNCHANGED chainVars, faults' \in Nat, faults' = 0 => faults = 0,
           stateFile' \in {Absent, Torn} \cup {Saved(s) : s \in States}, FileOK',
           Alone /\ faults' = 0 => ~Claims'
    PROVE  RegistrationInv'
  <1>1. r \in plan.runs
    BY ActiveRun
  <1>2. Idle \notin ActiveRuns
    BY DEF Idle, ActiveRuns, Pcs
  <1>3. Promoted(Idle)
    BY DEF Promoted, Idle
  <1>4. Alone => OwnFile(Idle)'
    BY DEF OwnFile, Idle
  <1>5. QED
    BY <1>1, <1>2, <1>3, <1>4, LocalStep DEF GiveUp

LEMMA FileUnchanged ==
    ASSUME RegistrationInv, UNCHANGED chainVars, stateFile' = stateFile
    PROVE  /\ stateFile' \in {Absent, Torn} \cup {Saved(s) : s \in States} /\ FileOK'
           /\ Claims' <=> Claims
  <1>1. Stable /\ KeptIds
    BY ChainStays DEF chainVars
  <1>2. FileOK'
    BY <1>1, FileStays DEF RegistrationInv
  <1>3. QED
    BY <1>2 DEF RegistrationInv, TypeOK, Claims

LEMMA FileGone ==
    ASSUME stateFile' \in {Absent, Torn}
    PROVE  /\ stateFile' \in {Absent, Torn} \cup {Saved(s) : s \in States} /\ FileOK'
           /\ ~Claims'
  BY DEF FileOK, Claims, Absent, Torn

LEMMA FaultTaken ==
    ASSUME RegistrationInv, Fault
    PROVE  /\ faults' \in Nat /\ faults' # 0
           /\ Alone => faults = 0
  <1>1. faults \in Nat /\ plan.maxFaults \in Nat
    BY RegistrationAssumption DEF RegistrationInv, TypeOK
  <1>2. PICK m \in Nat : m = plan.maxFaults
    BY <1>1
  <1>3. faults < m /\ faults' = faults + 1 /\ (Alone => m <= 1)
    BY <1>2 DEF Fault, Alone
  <1>4. faults' \in Nat /\ faults' # 0
    BY <1>1, <1>3
  <1>5. m <= 1 => faults = 0
    BY <1>1, <1>3
  <1>6. QED
    BY <1>3, <1>4, <1>5

LEMMA StartKeeps ==
    ASSUME RegistrationInv, NEW r \in Runs, Start(r)
    PROVE  RegistrationInv'
  <1>1. UNCHANGED <<chainVars, stateFile, faults>> /\ r \in plan.runs /\ ~Active(r) /\ plan \in Plans /\ faults \in Nat
    BY DEF Start, RegistrationInv, TypeOK
  <1>2. PICK t \in plan.tees, pc \in plan.entries, command \in plan.commands, resume \in plan.resumes,
             g \in plan.governances :
          \E flag \in {NoId} \cup {id \in 1..MaxId : "a" \notin command /\ instruction[id].kind = "avail"
                                                      /\ instruction[id].tee = t} :
             run' = [run EXCEPT ![r] =
                       [pc |-> pc, tee |-> t, command |-> command, resume |-> resume, governance |-> g,
                        state |-> registrationState, attest |-> NoId, avail |-> NoId, flag |-> flag, step |-> pc]]
    BY Zenon DEF Start
  <1>3. PICK flag \in {NoId} \cup {id \in 1..MaxId : "a" \notin command /\ instruction[id].kind = "avail"
                                                      /\ instruction[id].tee = t} :
             run' = [run EXCEPT ![r] =
                       [pc |-> pc, tee |-> t, command |-> command, resume |-> resume, governance |-> g,
                        state |-> registrationState, attest |-> NoId, avail |-> NoId, flag |-> flag, step |-> pc]]
    BY <1>2, Zenon
  <1>4. PICK c : c = [pc |-> pc, tee |-> t, command |-> command, resume |-> resume, governance |-> g,
                      state |-> registrationState, attest |-> NoId, avail |-> NoId, flag |-> flag, step |-> pc]
    OBVIOUS
  <1>5. /\ t \in Tees /\ pc \in {"version", "begin"} /\ command \in SUBSET Steps /\ resume \in BOOLEAN
        /\ g \in Hashes /\ flag \in Ids /\ NoId \in Ids
    BY <1>1, RegistrationAssumption DEF Steps, Hashes, Ids, NoId
  <1>6. registrationState \in States
    BY <1>5 DEF registrationState, States
  <1>7. /\ c \in ActiveRuns /\ c.pc = pc /\ c.tee = t /\ c.avail = NoId /\ c.flag = flag /\ c.resume = resume
        /\ c.state.done = {}
    BY <1>4, <1>5, <1>6 DEF ActiveRuns, Pcs, registrationState
  <1>8. RunOK(c)
    BY <1>5, <1>7 DEF RunOK, StateTrue, Is
  <1>9. Promoted(c)
    BY <1>5, <1>7 DEF Promoted
  <1>10. Alone => OwnCheck(c)
    BY <1>7 DEF OwnCheck, Alone
  <1>11. /\ stateFile' \in {Absent, Torn} \cup {Saved(s) : s \in States} /\ FileOK'
         /\ Claims' <=> Claims
    BY <1>1, FileUnchanged
  <1>12. Alone => OwnFile(c)'
    <2>1. Alone => OwnFile(run[r])
      BY <1>1 DEF RegistrationInv, OwnFiles
    <2>2. run[r] \notin ActiveRuns
      BY <1>1, ActiveType DEF RegistrationInv
    <2>3. QED
      BY <1>1, <1>5, <1>7, <1>11, <2>1, <2>2 DEF OwnFile
  <1>13. run[r].pc # "wait" /\ run' = [run EXCEPT ![r] = c]
    BY <1>1, <1>3, <1>4 DEF Active
  <1>14. QED
    BY <1>1, <1>7, <1>8, <1>9, <1>10, <1>11, <1>12, <1>13, LocalStep

(* allow-tee-version and set-governance find that there is nothing to do.  *)
LEMMA NothingToDoKeeps ==
    ASSUME RegistrationInv, NEW r \in Runs,
           \/ /\ run[r].pc = "version" /\ Goto(r, "governance")
              /\ Supported(TeeInfo(run[r].tee).codeHash)
           \/ run[r].pc = "governance" /\ Goto(r, "begin"),
           UNCHANGED <<chainVars, stateFile, faults>>
    PROVE  RegistrationInv'
  <1>1. Active(r)
    BY DEF Active
  <1>2. Alone => OwnCheck(run[r]) /\ OwnFile(run[r])
    BY <1>1, ActiveRun
  <1>3. /\ stateFile' \in {Absent, Torn} \cup {Saved(s) : s \in States} /\ FileOK'
        /\ Claims' <=> Claims
    BY FileUnchanged
  <1>4. Alone => "a" \notin run[r].state.done /\ ~(faults' = 0 /\ Claims')
    BY <1>2, <1>3 DEF OwnCheck, OwnFile, Checked
  <1>5. faults' \in Nat /\ faults' = faults
    BY DEF RegistrationInv, TypeOK
  <1>6. QED
    BY <1>1, <1>3, <1>4, <1>5, GotoStep DEF Pcs, Allowed

LEMMA BeginKeeps ==
    ASSUME RegistrationInv, NEW r \in Runs, Begin(r)
    PROVE  RegistrationInv'
  <1>1. run[r].pc = "begin" /\ Active(r) /\ Goto(r, "load") /\ UNCHANGED chainVars
    BY DEF Begin, Active
  <1>2. Alone => OwnCheck(run[r]) /\ OwnFile(run[r])
    BY <1>1, ActiveRun
  <1>3. Alone => /\ "a" \notin run[r].state.done /\ run[r].resume = FALSE
                 /\ faults = 0 => ~Claims
    BY <1>1, <1>2 DEF OwnCheck, OwnFile, Checked
  <1>4. CASE UNCHANGED <<stateFile, faults>> /\ run[r].resume
    <2>1. ~Alone /\ faults' \in Nat /\ faults' = faults
      BY <1>3, <1>4 DEF RegistrationInv, TypeOK
    <2>2. /\ stateFile' \in {Absent, Torn} \cup {Saved(s) : s \in States} /\ FileOK'
      BY <1>1, <1>4, FileUnchanged
    <2>3. QED
      BY <1>1, <2>1, <2>2, GotoStep DEF Pcs
  <1>5. CASE stateFile' = Absent /\ UNCHANGED faults
    <2>1. faults' \in Nat /\ faults' = faults
      BY <1>5 DEF RegistrationInv, TypeOK
    <2>2. /\ stateFile' \in {Absent, Torn} \cup {Saved(s) : s \in States} /\ FileOK'
          /\ ~Claims'
      BY <1>5, FileGone
    <2>3. QED
      BY <1>1, <1>3, <2>1, <2>2, GotoStep DEF Pcs
  <1>6. CASE Fault /\ UNCHANGED stateFile
    <2>1. /\ faults' \in Nat /\ faults' # 0
          /\ Alone => faults = 0
      BY <1>6, FaultTaken
    <2>2. /\ stateFile' \in {Absent, Torn} \cup {Saved(s) : s \in States} /\ FileOK'
          /\ Claims' <=> Claims
      BY <1>1, <1>6, FileUnchanged
    <2>3. Alone => ~Claims'
      BY <1>3, <2>1, <2>2
    <2>4. QED
      BY <1>1, <1>3, <2>1, <2>2, <2>3, GotoStep DEF Pcs
  <1>7. QED
    BY <1>4, <1>5, <1>6 DEF Begin

LEMMA LoadKeeps ==
    ASSUME RegistrationInv, NEW r \in Runs, loadState(r)
    PROVE  RegistrationInv'
  <1>1. run[r].pc = "load" /\ Active(r) /\ UNCHANGED <<chainVars, stateFile, faults>>
    BY DEF loadState, Active
  <1>2. /\ r \in plan.runs /\ run[r] \in ActiveRuns /\ RunOK(run[r])
        /\ Alone => OwnCheck(run[r]) /\ OwnFile(run[r])
    BY <1>1, ActiveRun
  <1>3. Alone => "a" \notin run[r].state.done /\ ~Claims
    BY <1>1, <1>2 DEF OwnCheck, OwnFile, Checked
  <1>4. /\ stateFile' \in {Absent, Torn} \cup {Saved(s) : s \in States} /\ FileOK'
        /\ Claims' <=> Claims
    BY <1>1, FileUnchanged
  <1>5. faults' \in Nat /\ faults' = faults
    BY <1>1 DEF RegistrationInv, TypeOK
  <1>6. CASE Goto(r, "r")
    BY <1>1, <1>3, <1>4, <1>5, <1>6, GotoStep DEF Pcs
  <1>7. CASE GiveUp(r)
    BY <1>1, <1>3, <1>4, <1>5, <1>7, GiveUpStep
  <1>8. CASE /\ stateFile.kind = "saved"
             /\ run' = [run EXCEPT ![r].pc = "r", ![r].state = stateFile.state]
    <2>1. PICK s \in States : s = stateFile.state
      BY <1>8, FileType DEF RegistrationInv
    <2>2. PICK c : c = [run[r] EXCEPT !.pc = "r", !.state = s]
      OBVIOUS
    <2>3. /\ c \in ActiveRuns /\ c.pc = "r" /\ c.tee = run[r].tee /\ c.state = s
          /\ c.resume = run[r].resume /\ c.avail = run[r].avail /\ c.flag = run[r].flag
      BY <1>2, <2>2 DEF ActiveRuns, Pcs
    <2>4. run' = [run EXCEPT ![r] = c]
      BY <1>8, <2>1, <2>2
    <2>5. StateTrue(s)
      BY <1>8, <2>1 DEF RegistrationInv, FileOK
    <2>6. RunOK(c)
      BY <1>2, <2>3, <2>5 DEF RunOK
    <2>7. Promoted(c)
      BY <2>3 DEF Promoted
    <2>8. Alone => "a" \notin s.done
      BY <1>3, <1>8, <2>1 DEF Claims
    <2>9. Alone => OwnCheck(c)
      BY <1>2, <2>3, <2>8 DEF OwnCheck
    <2>10. Alone => OwnFile(c)'
      BY <1>3, <1>4, <2>3 DEF OwnFile
    <2>11. QED
      BY <1>1, <1>2, <1>4, <1>5, <2>3, <2>4, <2>6, <2>7, <2>9, <2>10, LocalStep
  <1>9. QED
    <2>1. stateFile.kind \in {"absent", "torn", "saved"}
      BY FileType DEF RegistrationInv
    <2>2. QED
      BY <1>6, <1>7, <1>8, <2>1 DEF loadState

LEMMA SkipStepKeeps ==
    ASSUME RegistrationInv, NEW r \in Runs, SkipStep(r)
    PROVE  RegistrationInv'
  <1>1. PICK c : c = run[r]
    OBVIOUS
  <1>2. PICK pc, attest, avail :
           /\ pc = After[c.pc]
           /\ attest = IF c.pc \in {"r", "R"} \cap c.command THEN c.state.attest ELSE c.attest
           /\ avail = IF c.pc # "a" THEN c.avail
                      ELSE IF "a" \in c.command THEN c.state.avail
                      ELSE savedAvailabilityInstructionID(c)
    OBVIOUS
  <1>3. PICK d : d = [c EXCEPT !.pc = pc, !.attest = attest, !.avail = avail]
    OBVIOUS
  <1>4. /\ c.pc \in Steps /\ Active(r) /\ UNCHANGED <<chainVars, stateFile, faults>>
        /\ c.pc \notin c.command \/ (c.pc \in c.state.done /\ c.pc # "p")
        /\ run' = [run EXCEPT ![r] = d]
    BY <1>1, <1>2, <1>3 DEF SkipStep, Active, Steps
  <1>5. /\ r \in plan.runs /\ c \in ActiveRuns /\ RunOK(c)
        /\ Alone => OwnCheck(c) /\ OwnFile(c)
    BY <1>1, <1>4, ActiveRun
  <1>6. /\ c.pc = "r" => pc = "R"
        /\ c.pc = "R" => pc = "a"
        /\ c.pc = "a" => pc = "p"
        /\ c.pc = "p" => pc = "end"
    BY <1>2 DEF After
  <1>7. attest \in Ids /\ avail \in Ids /\ pc \in Pcs
    <2>1. NoId \in Ids
      BY RegistrationAssumption DEF Ids, NoId
    <2>2. c.state \in States /\ c.attest \in Ids /\ c.avail \in Ids /\ c.flag \in Ids
      BY <1>5 DEF ActiveRuns
    <2>3. QED
      BY <1>2, <1>4, <1>6, <2>1, <2>2 DEF States, savedAvailabilityInstructionID, Steps, Pcs
  <1>8. /\ d \in ActiveRuns /\ d.pc = pc /\ d.tee = c.tee /\ d.command = c.command
        /\ d.resume = c.resume /\ d.state = c.state /\ d.avail = avail /\ d.flag = c.flag
    BY <1>3, <1>5, <1>7 DEF ActiveRuns
  <1>9. avail # NoId => Is(avail, "avail")
    BY <1>2, <1>4, <1>5 DEF savedAvailabilityInstructionID, RunOK, StateTrue
  <1>10. RunOK(d)
    BY <1>4, <1>5, <1>6, <1>8, <1>9 DEF RunOK, Steps
  <1>11. Promoted(d)
    BY <1>4, <1>6, <1>8 DEF Promoted, Steps
  <1>12. Alone => /\ c.pc # "p" => "a" \notin c.state.done
                  /\ faults = 0 /\ Claims => c.pc = "p" /\ c.avail # NoId
    BY <1>4, <1>5 DEF OwnCheck, OwnFile, Checked, Steps
  <1>13. Alone => OwnCheck(d)
    <2>1. SUFFICES ASSUME Alone PROVE OwnCheck(d)
      OBVIOUS
    <2>2. avail # NoId => instruction[avail].tee = c.tee
      BY <1>2, <1>5, <1>12, <2>1, <1>4 DEF savedAvailabilityInstructionID, OwnCheck
    <2>3. "a" \in d.state.done => Checked(d)
      BY <1>6, <1>8, <1>12, <2>1 DEF Checked
    <2>4. QED
      BY <1>5, <1>8, <2>1, <2>2, <2>3 DEF OwnCheck
  <1>14. /\ stateFile' \in {Absent, Torn} \cup {Saved(s) : s \in States} /\ FileOK'
         /\ Claims' <=> Claims
    BY <1>4, FileUnchanged
  <1>15. faults' \in Nat /\ faults' = faults
    BY <1>4 DEF RegistrationInv, TypeOK
  <1>16. Alone => OwnFile(d)'
    BY <1>2, <1>4, <1>6, <1>8, <1>12, <1>14, <1>15 DEF OwnFile, Checked, Steps
  <1>17. run[r].pc # "wait"
    BY <1>1, <1>4 DEF Steps
  <1>18. QED
    BY <1>4, <1>5, <1>8, <1>10, <1>11, <1>13, <1>14, <1>15, <1>16, <1>17, LocalStep

LEMMA PolicyKeeps ==
    ASSUME RegistrationInv, NEW r \in Runs, CheckFTDCProxyPolicyConsistency(r)
    PROVE  RegistrationInv'
  <1>1. run[r].pc = "a" /\ Active(r) /\ GiveUp(r) /\ ~policyInSync(lead) /\ UNCHANGED <<chainVars, stateFile, faults>>
    BY DEF CheckFTDCProxyPolicyConsistency, Due, Active
  <1>2. faults' \in Nat /\ faults' = faults
    BY <1>1 DEF RegistrationInv, TypeOK
  <1>3. Alone => faults # 0
    BY <1>1 DEF RegistrationInv, NothingWrong, policyInSync
  <1>4. /\ stateFile' \in {Absent, Torn} \cup {Saved(s) : s \in States} /\ FileOK'
    BY <1>1, FileUnchanged
  <1>5. QED
    BY <1>1, <1>2, <1>3, <1>4, GiveUpStep

LEMMA TimeoutKeeps ==
    ASSUME RegistrationInv, NEW r \in Runs, ActionResultTimeout(r)
    PROVE  RegistrationInv'
  <1>1. run[r].pc = "p" /\ Active(r) /\ GiveUp(r) /\ UNCHANGED <<chainVars, stateFile>>
    BY DEF ActionResultTimeout, Active
  <1>2. /\ run[r] \in ActiveRuns /\ RunOK(run[r])
        /\ Alone => OwnFile(run[r])
    BY <1>1, ActiveRun
  <1>3. /\ stateFile' \in {Absent, Torn} \cup {Saved(s) : s \in States} /\ FileOK'
        /\ Claims' <=> Claims
    BY <1>1, FileUnchanged
  <1>4. CASE Fault
    BY <1>1, <1>3, <1>4, FaultTaken, GiveUpStep
  <1>5. CASE UNCHANGED faults /\ run[r].avail = NoId
    <2>1. faults' \in Nat /\ faults' = faults
      BY <1>5 DEF RegistrationInv, TypeOK
    <2>2. Alone /\ faults' = 0 => ~Claims'
      BY <1>2, <1>3, <1>5, <2>1 DEF OwnFile
    <2>3. QED
      BY <1>1, <1>3, <2>1, <2>2, GiveUpStep
  <1>6. CASE UNCHANGED faults /\ run[r].avail # NoId /\ instruction[run[r].avail].status = "rejected"
    <2>1. faults' \in Nat /\ faults' = faults
      BY <1>6 DEF RegistrationInv, TypeOK
    <2>2. run[r].avail \in 1..MaxId /\ instruction[run[r].avail].kind = "avail"
      BY <1>2, <1>6, RegistrationAssumption DEF RunOK, Is, ActiveRuns, Ids, NoId
    <2>3. Alone => faults' # 0
      BY <1>6, <2>1, <2>2 DEF RegistrationInv, NothingWrong
    <2>4. QED
      BY <1>1, <1>3, <2>1, <2>3, GiveUpStep
  <1>7. QED
    BY <1>4, <1>5, <1>6 DEF ActionResultTimeout

LEMMA FinishKeeps ==
    ASSUME RegistrationInv, NEW r \in Runs, Finish(r)
    PROVE  RegistrationInv'
  <1>1. /\ run[r].pc = "end" /\ Active(r) /\ stateFile' = Absent /\ UNCHANGED <<chainVars, faults>>
    BY DEF Finish, Active
  <1>2. r \in plan.runs /\ run[r] \in ActiveRuns
    BY <1>1, ActiveRun
  <1>3. PICK c : c = [pc |-> "registered", tee |-> run[r].tee, command |-> run[r].command]
    OBVIOUS
  <1>4. c \in DoneRuns /\ c.pc = "registered" /\ c.tee = run[r].tee /\ c.command = run[r].command
    BY <1>2, <1>3 DEF DoneRuns, ActiveRuns
  <1>5. run' = [run EXCEPT ![r] = c]
    BY <1>3 DEF Finish
  <1>6. c \notin ActiveRuns
    BY <1>4 DEF ActiveRuns, Pcs
  <1>7. OneMachineAtATime => Promoted(c)
    BY <1>1, <1>4 DEF RegistrationInv, PromotedOK, Promoted
  <1>8. /\ stateFile' \in {Absent, Torn} \cup {Saved(s) : s \in States} /\ FileOK'
        /\ ~Claims'
    BY <1>1, FileGone
  <1>9. Alone => OwnFile(c)'
    BY <1>8 DEF OwnFile
  <1>10. faults' \in Nat /\ faults' = faults
    BY <1>1 DEF RegistrationInv, TypeOK
  <1>11. QED
    BY <1>1, <1>2, <1>4, <1>5, <1>6, <1>7, <1>8, <1>9, <1>10, LocalStep

LEMMA SaveKeeps ==
    ASSUME RegistrationInv, NEW r \in Runs, saveState(r) \/ SaveFails(r)
    PROVE  RegistrationInv'
  <1>1. run[r].pc = "save" /\ Active(r) /\ UNCHANGED chainVars
    BY DEF saveState, SaveFails, Active
  <1>2. /\ run[r] \in ActiveRuns /\ RunOK(run[r])
        /\ Alone => OwnCheck(run[r]) /\ OwnFile(run[r])
    BY <1>1, ActiveRun
  <1>3. PICK pc : pc = After[run[r].step]
    OBVIOUS
  <1>4. /\ pc \in Pcs \ {"save", "wait"} /\ pc # "governance" /\ pc # "end" /\ pc # "load"
        /\ run[r].step = "a" => pc = "p" /\ run[r].avail # NoId
    BY <1>1, <1>2, <1>3 DEF RunOK, After, Pcs
  <1>5. Alone => /\ "a" \in run[r].state.done => pc = "p" /\ run[r].avail # NoId
                 /\ ~(faults = 0 /\ Claims)
    BY <1>1, <1>2, <1>4 DEF OwnCheck, OwnFile, Checked
  <1>6. CASE saveState(r)
    <2>1. PICK s \in States : s = run[r].state
      BY <1>2 DEF ActiveRuns
    <2>2. stateFile' = Saved(s) /\ Goto(r, pc) /\ UNCHANGED faults
      BY <1>3, <1>6, <2>1 DEF saveState
    <2>3. faults' \in Nat /\ faults' = faults
      BY <2>2 DEF RegistrationInv, TypeOK
    <2>4. StateTrue(s)'
      <3>1. Stable /\ \A id : Kept(id)
        BY <1>1, ChainStays DEF chainVars
      <3>2. StateTrue(s)
        BY <1>2, <2>1 DEF RunOK
      <3>3. QED
        BY <3>1, <3>2, StateStays DEF RegistrationInv
    <2>5. FileOK'
      BY <2>2, <2>4 DEF FileOK, Saved, StateTrue, Is
    <2>6. Claims' => "a" \in run[r].state.done
      BY <2>1, <2>2 DEF Claims, Saved
    <2>7. stateFile' \in {Absent, Torn} \cup {Saved(x) : x \in States}
      BY <2>2
    <2>8. QED
      BY <1>1, <1>4, <1>5, <2>2, <2>3, <2>5, <2>6, <2>7, GotoStep
  <1>7. CASE SaveFails(r)
    <2>1. faults' \in Nat /\ faults' # 0
      BY <1>7, FaultTaken DEF SaveFails
    <2>2. CASE Goto(r, pc) /\ UNCHANGED stateFile
      <3>1. /\ stateFile' \in {Absent, Torn} \cup {Saved(s) : s \in States} /\ FileOK'
        BY <1>1, <2>2, FileUnchanged
      <3>2. QED
        BY <1>1, <1>4, <1>5, <2>1, <2>2, <3>1, GotoStep
    <2>3. CASE GiveUp(r) /\ stateFile' = Torn
      <3>1. /\ stateFile' \in {Absent, Torn} \cup {Saved(s) : s \in States} /\ FileOK'
        BY <2>3, FileGone
      <3>2. QED
        BY <1>1, <2>1, <2>3, <3>1, GiveUpStep
    <2>4. QED
      BY <1>3, <1>7, <2>2, <2>3 DEF SaveFails
  <1>8. QED
    BY <1>6, <1>7
-----------------------------------------------------------------------------
(* A transaction whose run does not move stays as good as it was.          *)
LEMMA TransactionStays ==
    ASSUME plan' = plan, NEW tx, TransactionOK(tx),
           tx.by # "nobody" => run'[tx.by] = run[tx.by],
           tx.id # NoId => Kept(tx.id)
    PROVE  TransactionOK(tx)'
  <1>1. ASSUME tx.op = "toProduction"
        PROVE  Is(tx.id, "avail")' /\ instruction'[tx.id].status = "proved"
    <2>1. Is(tx.id, "avail") /\ instruction[tx.id].status = "proved"
      BY <1>1 DEF TransactionOK
    <2>2. QED
      BY <2>1 DEF Is, Kept
  <1>2. QED
    BY <1>1 DEF TransactionOK

(* A tool sends the transaction of its step. *)
LEMMA SendKeeps ==
    ASSUME RegistrationInv, NEW r \in Runs, Active(r), NEW op \in Ops, SentBy(op, run[r].pc),
           NEW id \in Ids, Send(r, op, id),
           op = "toProduction" => id = run[r].avail /\ id # NoId /\ instruction[id].status = "proved",
           faults' \in Nat, faults' = 0 => faults = 0
    PROVE  RegistrationInv'
  <1>1. TypeOK /\ UNCHANGED <<plan, machine, versions, instruction, lead, stateFile>>
    BY DEF RegistrationInv, Send
  <1>2. PICK c : c = run[r]
    OBVIOUS
  <1>3. /\ r \in plan.runs /\ c \in ActiveRuns /\ RunOK(c)
        /\ Alone => OwnCheck(c) /\ OwnFile(c)
    BY <1>2, ActiveRun
  <1>4. PICK pc : pc = c.pc
    OBVIOUS
  <1>5. pc \in {"version", "governance", "r", "R", "a", "p"} /\ pc # "wait"
    BY <1>2, <1>4 DEF SentBy
  <1>6. PICK d : d = [c EXCEPT !.pc = "wait", !.step = pc]
    OBVIOUS
  <1>7. /\ d \in ActiveRuns /\ d.pc = "wait" /\ d.step = pc /\ d.tee = c.tee /\ d.command = c.command
        /\ d.resume = c.resume /\ d.state = c.state /\ d.avail = c.avail /\ d.flag = c.flag
    BY <1>3, <1>5, <1>6 DEF ActiveRuns, Pcs, Steps
  <1>8. run' = [run EXCEPT ![r] = d]
    BY <1>2, <1>4, <1>6 DEF Send
  <1>9. /\ run' \in [Runs -> ActiveRuns \cup DoneRuns \cup {Idle}]
        /\ run'[r] = d /\ \A q \in Runs : q # r => run'[q] = run[q]
    BY <1>1, <1>7, <1>8 DEF TypeOK
  <1>10. PICK tx : tx = [by |-> r, op |-> op, tee |-> c.tee, id |-> id, governance |-> c.governance]
    OBVIOUS
  <1>11. /\ tx \in Transactions /\ tx.by = r /\ tx.op = op /\ tx.tee = c.tee /\ tx.id = id
    BY <1>3, <1>10 DEF Transactions, ActiveRuns
  <1>12. mempool' = Append(mempool, tx) /\ mempool \in Seq(Transactions)
    BY <1>1, <1>2, <1>10 DEF Send, TypeOK
  <1>13. PICK n \in Nat : n = Len(mempool)
    BY <1>12
  <1>14. /\ mempool' \in Seq(Transactions) /\ Len(mempool') = n + 1 /\ mempool'[n + 1] = tx
         /\ \A i \in 1..n : mempool'[i] = mempool[i]
    BY <1>11, <1>12, <1>13
  <1>15. TypeOK'
    BY <1>1, <1>9, <1>14 DEF TypeOK
  <1>16. /\ Stable /\ KeptIds /\ \A x : Kept(x)
         /\ InstructionsOK' /\ VersionsOK'
    BY <1>1, ChainStays
  <1>17. \A i \in 1..n : mempool[i].by # r
    BY <1>2, <1>4, <1>5, <1>13, RegistrationAssumption DEF RegistrationInv, MempoolOK, TransactionOK
  <1>18. ASSUME NEW i \in 1..Len(mempool') PROVE TransactionOK(mempool[i])'
    <2>1. PICK y : y = mempool'[i]
      OBVIOUS
    <2>2. CASE i = n + 1
      <3>1. y = tx
        BY <1>14, <2>1, <2>2
      <3>2. tx.op = "toProduction" => Is(id, "avail")' /\ instruction'[id].status = "proved" /\ id = d.avail
        BY <1>1, <1>2, <1>3, <1>7, <1>11 DEF RunOK, Is
      <3>3. tx.tee \in plan'.tees
        BY <1>1, <1>3, <1>11 DEF RunOK
      <3>4. TransactionOK(tx)'
        BY <1>2, <1>4, <1>7, <1>9, <1>11, <3>2, <3>3 DEF TransactionOK
      <3>5. QED
        BY <2>1, <3>1, <3>4 DEF TransactionOK, Is
    <2>3. CASE i \in 1..n
      <3>1. y = mempool[i] /\ TransactionOK(y)
        BY <1>13, <1>14, <2>1, <2>3 DEF RegistrationInv, MempoolOK
      <3>2. y.by # "nobody" => y.by \in Runs /\ y.by # r
        BY <1>1, <1>13, <1>17, <2>3, <3>1, TransactionType
      <3>3. TransactionOK(y)'
        BY <1>1, <1>9, <1>16, <3>1, <3>2, TransactionStays
      <3>4. QED
        BY <2>1, <3>3 DEF TransactionOK, Is
    <2>4. QED
      BY <1>14, <2>2, <2>3
  <1>19. MempoolOK'
    <2>1. SUFFICES ASSUME NEW i \in 1..(n + 1), NEW j \in 1..(n + 1),
                          mempool'[i].by = mempool'[j].by, mempool'[i].by # "nobody"
                   PROVE  i = j
      BY <1>14, <1>18 DEF MempoolOK
    <2>2. CASE i \in 1..n /\ j \in 1..n
      BY <1>13, <1>14, <2>1, <2>2 DEF RegistrationInv, MempoolOK
    <2>3. CASE i = n + 1 /\ j \in 1..n
      BY <1>11, <1>14, <1>17, <2>1, <2>3
    <2>4. CASE j = n + 1 /\ i \in 1..n
      BY <1>11, <1>14, <1>17, <2>1, <2>4
    <2>5. QED
      BY <2>2, <2>3, <2>4
  <1>20. FileOK'
    BY <1>1, <1>16, FileStays DEF RegistrationInv
  <1>21. Good(r)'
    <2>1. RunOK(d)'
      <3>1. RunOK(d)
        BY <1>3, <1>7 DEF RunOK
      <3>2. QED
        BY <1>1, <1>7, <1>16, <3>1, RunStays
    <2>2. Alone => OwnCheck(d)'
      <3>1. Alone => OwnCheck(d)
        BY <1>3, <1>4, <1>5, <1>7 DEF OwnCheck, Checked
      <3>2. StateTrue(d.state)
        BY <1>3, <1>7 DEF RunOK
      <3>3. QED
        BY <1>7, <1>16, <3>1, <3>2, OwnCheckStays
    <2>3. Alone' <=> Alone
      BY <1>16, PlanStays
    <2>4. Promoted(run[r])'
      BY <1>7, <1>9 DEF Promoted
    <2>5. (Alone /\ Active(r) => OwnCheck(run[r]))'
      BY <1>9, <2>2, <2>3 DEF OwnCheck, Checked
    <2>6. (Active(r) => r \in plan.runs /\ RunOK(run[r]))'
      BY <1>1, <1>3, <1>9, <2>1 DEF RunOK, StateTrue, Is, Supported
    <2>7. QED
      BY <2>4, <2>5, <2>6, Zenon DEF Good
  <1>22. OwnFiles'
    <2>1. Alone => OwnFile(run[r])'
      <3>1. Claims' <=> Claims
        BY <1>1 DEF Claims
      <3>2. Alone /\ faults' = 0 /\ Claims => pc = "p" /\ c.avail # NoId
        BY <1>3, <1>4, <1>5 DEF OwnFile, Checked
      <3>3. Alone /\ faults' = 0 /\ Claims' => d \in ActiveRuns /\ Checked(d) /\ d.avail # NoId
        BY <1>7, <3>1, <3>2 DEF Checked
      <3>4. QED
        BY <1>7, <1>9, <3>3 DEF OwnFile, Checked
    <2>2. QED
      BY <1>3, <1>16, <2>1, OwnFilesFrame
  <1>23. NothingWrong'
    BY <1>1, <1>16, PlanStays DEF NothingWrong, RegistrationInv
  <1>24. QED
    BY <1>9, <1>15, <1>16, <1>19, <1>20, <1>21, <1>22, <1>23, Frame

LEMMA ToolSendKeeps ==
    ASSUME RegistrationInv, NEW r \in Runs,
           \/ allowTeeVersion(r) \/ SetTeeGovernance(r) \/ PreRegistration(r) \/ RequestTeeAttestation(r)
           \/ RequestFTDCAvailabilityCheck(r) \/ ToProduction(r)
    PROVE  RegistrationInv'
  <1>1. faults \in Nat /\ NoId \in Ids
    BY RegistrationAssumption DEF RegistrationInv, TypeOK, Ids, NoId
  <1>2. CASE allowTeeVersion(r)
    <2>1. CASE Supported(TeeInfo(run[r].tee).codeHash)
      BY <1>2, <2>1, NothingToDoKeeps DEF allowTeeVersion
    <2>2. CASE ~Supported(TeeInfo(run[r].tee).codeHash)
      <3>1. run[r].pc = "version" /\ Send(r, "addTeeVersion", NoId) /\ faults' = faults
        BY <1>2, <2>2 DEF allowTeeVersion
      <3>2. Active(r) /\ SentBy("addTeeVersion", run[r].pc) /\ "addTeeVersion" \in Ops
        BY <3>1 DEF Active, SentBy, Ops
      <3>3. QED
        BY <1>1, <3>1, <3>2, SendKeeps
    <2>3. QED
      BY <2>1, <2>2
  <1>3. CASE SetTeeGovernance(r)
    <2>1. CASE governance = run[r].governance
      BY <1>3, <2>1, NothingToDoKeeps DEF SetTeeGovernance
    <2>2. CASE governance # run[r].governance
      <3>1. run[r].pc = "governance" /\ Send(r, "setNewTeeGovernance", NoId) /\ faults' = faults
        BY <1>3, <2>2 DEF SetTeeGovernance
      <3>2. Active(r) /\ SentBy("setNewTeeGovernance", run[r].pc) /\ "setNewTeeGovernance" \in Ops
        BY <3>1 DEF Active, SentBy, Ops
      <3>3. QED
        BY <1>1, <3>1, <3>2, SendKeeps
    <2>3. QED
      BY <2>1, <2>2
  <1>4. CASE PreRegistration(r)
    <2>1. run[r].pc = "r" /\ Send(r, "register", NoId) /\ faults' = faults
      BY <1>4 DEF PreRegistration, Due
    <2>2. Active(r) /\ SentBy("register", run[r].pc) /\ "register" \in Ops
      BY <2>1 DEF Active, SentBy, Ops
    <2>3. QED
      BY <1>1, <2>1, <2>2, SendKeeps
  <1>5. CASE RequestTeeAttestation(r)
    <2>1. run[r].pc \in {"r", "R"} /\ Send(r, "requestTeeAttestation", NoId) /\ faults' = faults
      BY <1>5 DEF RequestTeeAttestation, Due
    <2>2. Active(r) /\ SentBy("requestTeeAttestation", run[r].pc) /\ "requestTeeAttestation" \in Ops
      BY <2>1 DEF Active, SentBy, Ops
    <2>3. QED
      BY <1>1, <2>1, <2>2, SendKeeps
  <1>6. CASE RequestFTDCAvailabilityCheck(r)
    <2>1. /\ run[r].pc = "a" /\ Send(r, "requestAvailabilityCheckAttestation", run[r].attest)
          /\ faults' = faults \/ Fault
      BY <1>6 DEF RequestFTDCAvailabilityCheck, Due
    <2>2. /\ Active(r) /\ SentBy("requestAvailabilityCheckAttestation", run[r].pc)
          /\ "requestAvailabilityCheckAttestation" \in Ops
      BY <2>1 DEF Active, SentBy, Ops
    <2>3. run[r].attest \in Ids
      BY <2>2, ActiveRun DEF ActiveRuns
    <2>4. faults' \in Nat /\ (faults' = 0 => faults = 0)
      BY <1>1, <2>1, FaultTaken
    <2>5. QED
      BY <2>1, <2>2, <2>3, <2>4, SendKeeps
  <1>7. CASE ToProduction(r)
    <2>1. /\ run[r].pc = "p" /\ Send(r, "toProduction", run[r].avail) /\ faults' = faults
          /\ run[r].avail # NoId /\ instruction[run[r].avail].status = "proved"
      BY <1>7 DEF ToProduction, GetFTDCAvailabilityCheckResult
    <2>2. Active(r) /\ SentBy("toProduction", run[r].pc) /\ "toProduction" \in Ops
      BY <2>1 DEF Active, SentBy, Ops
    <2>3. run[r].avail \in Ids
      BY <2>2, ActiveRun DEF ActiveRuns
    <2>4. QED
      BY <1>1, <2>1, <2>2, <2>3, SendKeeps
  <1>8. QED
    BY <1>2, <1>3, <1>4, <1>5, <1>6, <1>7

LEMMA StopKeeps ==
    ASSUME RegistrationInv, NEW r \in Runs, Stop(r)
    PROVE  RegistrationInv'
  <1>1. /\ TypeOK /\ UNCHANGED <<plan, machine, versions, instruction, lead, stateFile>>
        /\ Active(r) /\ run' = [run EXCEPT ![r] = Idle]
    BY DEF RegistrationInv, Stop, GiveUp
  <1>2. faults' \in Nat /\ faults' # 0
    BY FaultTaken DEF Stop
  <1>3. /\ Stable /\ KeptIds /\ \A x : Kept(x)
        /\ InstructionsOK' /\ VersionsOK'
    BY <1>1, ChainStays
  <1>4. r \in plan.runs
    BY <1>1, ActiveRun
  <1>5. /\ run' \in [Runs -> ActiveRuns \cup DoneRuns \cup {Idle}]
        /\ run'[r] = Idle /\ \A q \in Runs : q # r => run'[q] = run[q]
    BY <1>1 DEF TypeOK
  <1>6. mempool \in Seq(Transactions)
    BY <1>1 DEF TypeOK
  <1>7. /\ mempool' \in Seq(Transactions) /\ Len(mempool') = Len(mempool)
        /\ \A i \in 1..Len(mempool) :
              /\ mempool[i].by # r => mempool'[i] = mempool[i]
              /\ mempool[i].by = r => mempool'[i].by = "nobody"
              /\ mempool'[i].op = mempool[i].op /\ mempool'[i].tee = mempool[i].tee
              /\ mempool'[i].id = mempool[i].id
    <2>1. PICK n \in Nat : n = Len(mempool)
      BY <1>6
    <2>2. DOMAIN mempool = 1..n /\ \A i \in 1..n : mempool[i] \in Transactions
      BY <1>6, <2>1
    <2>7. mempool' = [i \in 1..n |-> IF mempool[i].by = r THEN [mempool[i] EXCEPT !.by = "nobody"]
                                     ELSE mempool[i]]
      BY <2>2 DEF Stop
    <2>3. ASSUME NEW i \in 1..n
          PROVE  /\ mempool'[i] \in Transactions
                 /\ mempool[i].by # r => mempool'[i] = mempool[i]
                 /\ mempool[i].by = r => mempool'[i].by = "nobody"
                 /\ mempool'[i].op = mempool[i].op /\ mempool'[i].tee = mempool[i].tee /\ mempool'[i].id = mempool[i].id
      <3>1. PICK tx \in Transactions : tx = mempool[i]
        BY <2>2, <2>3
      <3>2. mempool'[i] = IF tx.by = r THEN [tx EXCEPT !.by = "nobody"] ELSE tx
        BY <2>7, <2>3, <3>1
      <3>3. CASE tx.by = r
        <4>1. mempool'[i] = [tx EXCEPT !.by = "nobody"]
          BY <3>2, <3>3
        <4>2. /\ mempool'[i] \in Transactions /\ mempool'[i].by = "nobody"
              /\ mempool'[i].op = tx.op /\ mempool'[i].tee = tx.tee /\ mempool'[i].id = tx.id
          <5>1. PICK y : y = [tx EXCEPT !.by = "nobody"]
            OBVIOUS
          <5>2. y \in Transactions
            BY <3>1, <5>1 DEF Transactions
          <5>3. y.by = "nobody" /\ y.op = tx.op /\ y.tee = tx.tee /\ y.id = tx.id
            BY <3>1, <5>1 DEF Transactions
          <5>4. QED
            BY <4>1, <5>1, <5>2, <5>3
        <4>3. QED
          BY <3>1, <3>3, <4>2
      <3>4. CASE tx.by # r
        BY <3>1, <3>2, <3>4
      <3>5. QED
        BY <3>3, <3>4
    <2>4. mempool' \in [1..n -> Transactions]
      BY <2>7, <2>3
    <2>5. mempool' \in Seq(Transactions) /\ Len(mempool') = n
      BY <2>4
    <2>6. QED
      BY <2>1, <2>3, <2>5
  <1>8. TypeOK'
    BY <1>1, <1>2, <1>5, <1>7 DEF TypeOK
  <1>9. ASSUME NEW i \in 1..Len(mempool') PROVE TransactionOK(mempool[i])'
    <2>1. PICK x, y : x = mempool[i] /\ y = mempool'[i]
      OBVIOUS
    <2>2. /\ TransactionOK(x) /\ (x.by # "nobody" => x.by \in Runs)
          /\ y.op = x.op /\ y.tee = x.tee /\ y.id = x.id
          /\ x.by # r => y = x
          /\ x.by = r => y.by = "nobody"
      BY <1>1, <1>7, <1>9, <2>1, TransactionType DEF RegistrationInv, MempoolOK
    <2>3. TransactionOK(y)
      BY <2>2 DEF TransactionOK
    <2>4. y.by # "nobody" => run'[y.by] = run[y.by]
      BY <1>5, <2>2
    <2>5. TransactionOK(y)'
      BY <1>1, <1>3, <2>3, <2>4, TransactionStays
    <2>6. QED
      BY <2>1, <2>5 DEF TransactionOK, Is
  <1>10. MempoolOK'
    <2>1. SUFFICES ASSUME NEW i \in 1..Len(mempool), NEW j \in 1..Len(mempool),
                          mempool'[i].by = mempool'[j].by, mempool'[i].by # "nobody"
                   PROVE  i = j
      BY <1>7, <1>9 DEF MempoolOK
    <2>2. mempool'[i] = mempool[i] /\ mempool'[j] = mempool[j]
      BY <1>7, <2>1
    <2>3. QED
      BY <2>1, <2>2 DEF RegistrationInv, MempoolOK
  <1>11. FileOK'
    BY <1>1, <1>3, FileStays DEF RegistrationInv
  <1>12. Good(r)'
    BY <1>5 DEF Good, Active, Promoted, Idle
  <1>13. OwnFiles'
    <2>1. OwnFile(run[r])'
      BY <1>2, <1>5 DEF OwnFile, Idle
    <2>2. QED
      BY <1>3, <1>4, <2>1, OwnFilesFrame
  <1>14. NothingWrong'
    BY <1>2 DEF NothingWrong
  <1>15. QED
    BY <1>3, <1>5, <1>8, <1>10, <1>11, <1>12, <1>13, <1>14, Frame
-----------------------------------------------------------------------------
(* The transaction that is next to be mined. *)
LEMMA NextInLine ==
    ASSUME RegistrationInv, mempool # <<>>, NEW tx, tx = Head(mempool)
    PROVE  /\ tx \in Transactions /\ TransactionOK(tx) /\ tx.id \in Referenced
           /\ tx.by # "nobody" => tx.by \in Runs
           /\ Tail(mempool) \in Seq(Transactions)
           /\ \E n \in Nat : /\ Len(mempool) = n + 1 /\ Len(Tail(mempool)) = n
                             /\ \A i \in 1..n : Tail(mempool)[i] = mempool[i + 1] /\ i + 1 \in 1..(n + 1)
           /\ \A i \in 1..Len(mempool) : mempool[i].by = tx.by /\ tx.by # "nobody" => i = 1
  <1>1. TypeOK /\ mempool \in Seq(Transactions)
    BY DEF RegistrationInv, TypeOK
  <1>2. PICK n \in Nat : Len(mempool) = n + 1
    <2>1. Len(mempool) \in Nat /\ Len(mempool) # 0
      BY <1>1
    <2>2. Len(mempool) - 1 \in Nat /\ Len(mempool) = (Len(mempool) - 1) + 1
      BY <2>1
    <2>3. QED
      BY <2>2
  <1>3. 1 \in 1..Len(mempool) /\ tx = mempool[1]
    BY <1>1, <1>2
  <1>4. tx \in Transactions /\ TransactionOK(tx) /\ tx.id \in Referenced /\ (tx.by # "nobody" => tx.by \in Runs)
    BY <1>1, <1>3, TransactionType, RefsReferenced DEF RegistrationInv, MempoolOK
  <1>5. /\ Tail(mempool) \in Seq(Transactions) /\ Len(Tail(mempool)) = n
        /\ \A i \in 1..n : Tail(mempool)[i] = mempool[i + 1] /\ i + 1 \in 1..(n + 1)
    BY <1>1, <1>2
  <1>6. \A i \in 1..Len(mempool) : mempool[i].by = tx.by /\ tx.by # "nobody" => i = 1
    BY <1>3 DEF RegistrationInv, MempoolOK
  <1>7. QED
    BY <1>2, <1>4, <1>5, <1>6

(* The run that waits for it. *)
LEMMA Waiting ==
    ASSUME RegistrationInv, mempool # <<>>, NEW tx, tx = Head(mempool), tx.by # "nobody",
           Stable, KeptIds, NEW c, c = run[tx.by]
    PROVE  /\ tx.by \in Runs /\ tx.by \in plan.runs
           /\ c \in ActiveRuns /\ c.pc = "wait" /\ c.tee = tx.tee /\ SentBy(tx.op, c.step)
           /\ tx.op = "toProduction" => tx.id = c.avail
           /\ RunOK(c) /\ RunOK(c)'
           /\ Alone => OwnCheck(c) /\ OwnCheck(c)' /\ OwnFile(c)
  <1>1. tx.by \in Runs /\ TransactionOK(tx)
    BY NextInLine
  <1>2. c.pc = "wait" /\ c.tee = tx.tee /\ SentBy(tx.op, c.step) /\ (tx.op = "toProduction" => tx.id = c.avail)
    BY <1>1 DEF TransactionOK
  <1>3. Active(tx.by)
    BY <1>2 DEF Active
  <1>4. /\ tx.by \in plan.runs /\ c \in ActiveRuns /\ RunOK(c)
        /\ Alone => OwnCheck(c) /\ OwnFile(c)
    BY <1>1, <1>3, ActiveRun
  <1>5. TypeOK /\ \A id \in Refs(c) : id # NoId => Kept(id)
    BY <1>1, <1>3, RefsReferenced DEF RegistrationInv, KeptIds
  <1>6. RunOK(c)'
    BY <1>4, <1>5, RunStays
  <1>7. StateTrue(c.state)
    BY <1>4 DEF RunOK
  <1>8. Alone => OwnCheck(c)'
    BY <1>4, <1>5, <1>7, OwnCheckStays
  <1>9. QED
    BY <1>1, <1>2, <1>4, <1>6, <1>8

(* The run gets its receipt and goes on as next.                           *)
LEMMA ReceiptStep ==
    ASSUME RegistrationInv, mempool # <<>>, NEW tx, tx = Head(mempool), mempool' = Tail(mempool),
           Stable, KeptIds, InstructionsOK', VersionsOK', NothingWrong',
           machine' \in [Tees -> {"none", "registered", "production"}],
           instruction' \in [1..MaxId -> Instructions \cup {NoInstruction}],
           UNCHANGED <<lead, stateFile, faults>>,
           NEW next, Receipt(tx, next),
           tx.by # "nobody" =>
              /\ next \in ActiveRuns \cup {Idle}
              /\ next \in ActiveRuns => RunOK(next)'
              /\ OneMachineAtATime => Promoted(next)'
              /\ Alone /\ next \in ActiveRuns => OwnCheck(next)'
              /\ Alone => OwnFile(next)'
    PROVE  RegistrationInv'
  <1>1. TypeOK /\ run \in [Runs -> ActiveRuns \cup DoneRuns \cup {Idle}]
    BY DEF RegistrationInv, TypeOK
  <1>2. /\ tx \in Transactions /\ TransactionOK(tx)
        /\ tx.by # "nobody" => tx.by \in Runs
        /\ mempool' \in Seq(Transactions)
    BY NextInLine
  <1>3. /\ run' \in [Runs -> ActiveRuns \cup DoneRuns \cup {Idle}]
        /\ tx.by # "nobody" => run'[tx.by] = next
        /\ \A q \in Runs : q # tx.by => run'[q] = run[q]
    <2>1. CASE tx.by = "nobody"
      BY <1>1, <2>1 DEF Receipt
    <2>2. CASE tx.by # "nobody"
      <3>1. run' = [run EXCEPT ![tx.by] = next]
        BY <2>2 DEF Receipt
      <3>2. QED
        BY <1>1, <1>2, <2>2, <3>1
    <2>3. QED
      BY <2>1, <2>2
  <1>4. plan' = plan /\ (OneMachineAtATime' <=> OneMachineAtATime) /\ (Alone' <=> Alone)
    BY PlanStays
  <1>5. TypeOK'
    BY <1>1, <1>2, <1>3, <1>4 DEF TypeOK
  <1>6. PICK n \in Nat : /\ Len(mempool) = n + 1 /\ Len(mempool') = n
                         /\ \A i \in 1..n : mempool'[i] = mempool[i + 1] /\ i + 1 \in 1..(n + 1)
    BY NextInLine
  <1>7. ASSUME NEW i \in 1..n PROVE TransactionOK(mempool[i])'
    <2>1. PICK y : y = mempool'[i]
      OBVIOUS
    <2>2. /\ y = mempool[i + 1] /\ i + 1 \in 1..Len(mempool) /\ i + 1 # 1
      BY <1>6, <1>7, <2>1
    <2>3. TransactionOK(y) /\ y.id \in Referenced /\ (y.by # "nobody" => y.by \in Runs)
      BY <1>1, <2>2, TransactionType, RefsReferenced DEF RegistrationInv, MempoolOK
    <2>4. y.by # "nobody" => y.by # tx.by
      BY <2>2, NextInLine
    <2>5. y.by # "nobody" => run'[y.by] = run[y.by]
      BY <1>3, <2>3, <2>4
    <2>6. TransactionOK(y)'
      BY <1>4, <2>3, <2>5, TransactionStays DEF KeptIds
    <2>7. QED
      BY <2>1, <2>6 DEF TransactionOK, Is
  <1>8. MempoolOK'
    <2>1. SUFFICES ASSUME NEW i \in 1..n, NEW j \in 1..n,
                          mempool'[i].by = mempool'[j].by, mempool'[i].by # "nobody"
                   PROVE  i = j
      BY <1>6, <1>7 DEF MempoolOK
    <2>2. i + 1 = j + 1
      BY <1>6, <2>1 DEF RegistrationInv, MempoolOK
    <2>3. QED
      BY <2>2
  <1>9. FileOK'
    BY <1>1, FileStays DEF RegistrationInv
  <1>10. CASE tx.by = "nobody"
    <2>1. run' = run
      BY <1>10 DEF Receipt
    <2>2. \A q \in Runs : Good(q)'
      BY <2>1, OthersStay
    <2>3. OwnFiles'
      BY <1>4, <2>1 DEF RegistrationInv, OwnFiles, OwnFile, Claims, Checked
    <2>4. QED
      BY <1>5, <1>8, <1>9, <2>2, <2>3, AllGood
  <1>11. CASE tx.by # "nobody"
    <2>1. PICK r \in Runs : r = tx.by
      BY <1>2, <1>11
    <2>2. r \in plan.runs
      BY <1>11, <2>1, Waiting
    <2>3. run'[r] = next
      BY <1>3, <1>11, <2>1
    <2>4. Active(r)' => next \in ActiveRuns
      BY <1>11, <2>3 DEF Active, Idle
    <2>5. Good(r)'
      BY <1>4, <1>11, <2>2, <2>3, <2>4
      DEF Good, RunOK, StateTrue, Is, OwnCheck, Checked, Promoted, Supported
    <2>6. Alone => OwnFile(run[r])'
      BY <1>11, <2>3 DEF OwnFile, Claims, Checked
    <2>7. OwnFiles'
      BY <2>2, <2>6, OwnFilesFrame
    <2>8. \A q \in Runs : q # r => run'[q] = run[q]
      BY <1>3, <2>1
    <2>9. QED
      BY <1>5, <1>8, <1>9, <2>5, <2>7, <2>8, Frame
  <1>12. QED
    BY <1>10, <1>11

(* While a run waits for a transaction of another step than the last, the  *)
(* file of a lonely operator names no check that nothing went wrong with.  *)
LEMMA NotYetChecked ==
    ASSUME NEW c \in ActiveRuns, c.pc = "wait", c.step # "p", OwnCheck(c), OwnFile(c), UNCHANGED <<stateFile, faults>>
    PROVE  "a" \notin c.state.done /\ ~(faults' = 0 /\ Claims')
  BY DEF OwnCheck, OwnFile, Checked, Claims

LEMMA ProceedKeeps ==
    ASSUME RegistrationInv, mempool # <<>>, NEW tx, tx = Head(mempool), mempool' = Tail(mempool),
           tx.op \in {"addTeeVersion", "setNewTeeGovernance"}, NEW pc \in {"governance", "begin"}, Proceed(tx, pc),
           Stable, VersionsOK', UNCHANGED <<machine, instruction, lead, stateFile, faults>>,
           pc = "governance" => Allowed(tx.tee)'
    PROVE  RegistrationInv'
  <1>1. plan' = plan /\ (Alone' <=> Alone)
    BY PlanStays
  <1>2. KeptIds /\ InstructionsOK' /\ NothingWrong'
    BY <1>1 DEF KeptIds, Kept, RegistrationInv, InstructionsOK, NothingWrong
  <1>3. /\ machine' \in [Tees -> {"none", "registered", "production"}]
        /\ instruction' \in [1..MaxId -> Instructions \cup {NoInstruction}]
    BY DEF RegistrationInv, TypeOK
  <1>4. PICK c : c = run[tx.by]
    OBVIOUS
  <1>5. PICK next : next = [c EXCEPT !.pc = pc]
    OBVIOUS
  <1>6. ASSUME tx.by # "nobody"
        PROVE  /\ next \in ActiveRuns \cup {Idle}
               /\ RunOK(next)' /\ Promoted(next)'
               /\ Alone => OwnCheck(next)' /\ OwnFile(next)'
    <2>1. /\ c \in ActiveRuns /\ c.pc = "wait" /\ c.tee = tx.tee /\ SentBy(tx.op, c.step) /\ RunOK(c)'
          /\ Alone => OwnCheck(c) /\ OwnCheck(c)' /\ OwnFile(c)
      BY <1>2, <1>4, <1>6, Waiting
    <2>2. /\ next \in ActiveRuns /\ next.pc = pc /\ next.tee = c.tee /\ next.command = c.command
          /\ next.resume = c.resume /\ next.state = c.state /\ next.avail = c.avail /\ next.flag = c.flag
      BY <1>5, <2>1 DEF ActiveRuns, Pcs
    <2>3. c.step # "p"
      BY <2>1 DEF SentBy
    <2>4. Alone => "a" \notin c.state.done /\ ~(faults' = 0 /\ Claims')
      BY <2>1, <2>3, NotYetChecked
    <2>5. RunOK(next)'
      <3>1. pc = "governance" => Allowed(next.tee)'
        BY <2>1, <2>2
      <3>2. QED
        BY <2>1, <2>2, <3>1 DEF RunOK
    <2>6. Promoted(next)'
      BY <2>2 DEF Promoted
    <2>7. Alone => OwnCheck(next)' /\ OwnFile(next)'
      BY <2>1, <2>2, <2>4 DEF OwnCheck, OwnFile
    <2>8. QED
      BY <2>2, <2>5, <2>6, <2>7
  <1>7. Receipt(tx, next)
    BY <1>4, <1>5 DEF Proceed
  <1>8. QED
    BY <1>2, <1>3, <1>6, <1>7, ReceiptStep

LEMMA AddTeeVersionKeeps ==
    ASSUME RegistrationInv, mempool # <<>>, NEW tx, tx = Head(mempool), mempool' = Tail(mempool),
           AddTeeVersion(tx), UNCHANGED <<plan, lead, stateFile, faults>>
    PROVE  RegistrationInv'
  <1>1. tx.tee \in Tees
    BY NextInLine DEF Transactions
  <1>2. PICK v : v = <<Versions[tx.tee], TeeInfo(tx.tee).codeHash>>
    OBVIOUS
  <1>3. /\ versions' = versions \cup {v} /\ Proceed(tx, "governance") /\ UNCHANGED <<machine, instruction>>
        /\ tx.op = "addTeeVersion"
    BY <1>2 DEF AddTeeVersion
  <1>4. v = <<Versions[tx.tee], CodeOf[tx.tee]>> /\ v[2] = TeeInfo(tx.tee).codeHash
    BY <1>2 DEF TeeInfo
  <1>5. Stable
    BY <1>3 DEF Stable
  <1>6. VersionsOK'
    BY <1>1, <1>3, <1>4 DEF RegistrationInv, VersionsOK
  <1>7. Allowed(tx.tee)'
    BY <1>3, <1>4 DEF Allowed, Supported, TeeInfo
  <1>8. QED
    BY <1>3, <1>5, <1>6, <1>7, ProceedKeeps

LEMMA SetNewTeeGovernanceKeeps ==
    ASSUME RegistrationInv, mempool # <<>>, NEW tx, tx = Head(mempool), mempool' = Tail(mempool),
           SetNewTeeGovernance(tx), UNCHANGED <<plan, lead, stateFile, faults>>
    PROVE  RegistrationInv'
  <1>1. tx.op = "setNewTeeGovernance" /\ Proceed(tx, "begin") /\ UNCHANGED <<machine, versions, instruction>>
    BY DEF SetNewTeeGovernance
  <1>2. Stable /\ VersionsOK'
    BY <1>1, ChainStays
  <1>3. QED
    BY <1>1, <1>2, ProceedKeeps

LEMMA RevertKeeps ==
    ASSUME RegistrationInv, Revert
    PROVE  RegistrationInv'
  <1>1. PICK tx : tx = Head(mempool)
    OBVIOUS
  <1>2. /\ mempool # <<>> /\ mempool' = Tail(mempool) /\ ~Accepts(tx)
        /\ UNCHANGED <<plan, machine, versions, instruction, lead, stateFile, faults>>
        /\ Receipt(tx, Idle) \/ (tx.op = "addTeeVersion" /\ Proceed(tx, "governance"))
    BY <1>1 DEF Revert
  <1>3. Stable /\ KeptIds /\ InstructionsOK' /\ VersionsOK'
    BY <1>2, ChainStays
  <1>4. /\ machine' \in [Tees -> {"none", "registered", "production"}]
        /\ instruction' \in [1..MaxId -> Instructions \cup {NoInstruction}]
    BY <1>2 DEF RegistrationInv, TypeOK
  <1>5. NothingWrong'
    BY <1>2, <1>3, PlanStays DEF RegistrationInv, NothingWrong
  <1>6. CASE Receipt(tx, Idle)
    <2>1. tx.op # "toProduction"
      <3>1. TransactionOK(tx)
        BY <1>1, <1>2, NextInLine
      <3>2. QED
        BY <1>2, <3>1 DEF TransactionOK, Is, Accepts, GetFTDCAvailabilityCheckResult
    <2>2. Idle \notin ActiveRuns /\ Promoted(Idle)'
      BY DEF Idle, ActiveRuns, Pcs, Promoted
    <2>3. ASSUME tx.by # "nobody", Alone PROVE OwnFile(Idle)'
      <3>1. PICK c : c = run[tx.by]
        OBVIOUS
      <3>2. c \in ActiveRuns /\ c.pc = "wait" /\ SentBy(tx.op, c.step) /\ OwnCheck(c) /\ OwnFile(c)
        BY <1>1, <1>2, <1>3, <2>3, <3>1, Waiting
      <3>3. c.step # "p"
        BY <2>1, <3>2 DEF SentBy
      <3>4. ~(faults' = 0 /\ Claims')
        BY <1>2, <3>2, <3>3, NotYetChecked
      <3>5. QED
        BY <3>4 DEF OwnFile, Idle
    <2>4. QED
      BY <1>1, <1>2, <1>3, <1>4, <1>5, <1>6, <2>2, <2>3, ReceiptStep
  <1>7. CASE tx.op = "addTeeVersion" /\ Proceed(tx, "governance")
    <2>1. PICK v \in versions : v[1] = Versions[tx.tee]
      BY <1>2, <1>7 DEF Accepts
    <2>2. Allowed(tx.tee)
      BY <2>1 DEF Allowed, Supported, NameTaken
    <2>3. Allowed(tx.tee)'
      BY <1>2, <2>2 DEF Allowed, Supported, NameTaken, TeeInfo
    <2>4. QED
      BY <1>1, <1>2, <1>3, <1>7, <2>3, ProceedKeeps
  <1>8. QED
    BY <1>2, <1>6, <1>7

(* The promotion is about the machine the run was pointed at.              *)
LEMMA RightMachine ==
    ASSUME RegistrationInv, OneMachineAtATime, NEW c \in ActiveRuns, RunOK(c), c.avail # NoId,
           Alone => OwnCheck(c)
    PROVE  instruction[c.avail].tee = c.tee
  <1>1. CASE Alone
    BY <1>1 DEF OwnCheck
  <1>2. CASE Cardinality(plan.tees) = 1
    <2>1. plan.tees \subseteq Tees /\ IsFiniteSet(Tees)
      BY RegistrationAssumption DEF RegistrationInv, TypeOK
    <2>2. PICK x : plan.tees = {x}
      BY <1>2, <2>1, FS_Subset, FS_Singleton
    <2>3. c.avail \in 1..MaxId /\ instruction[c.avail].kind = "avail" /\ c.tee \in plan.tees
      BY RegistrationAssumption DEF RunOK, Is, ActiveRuns, Ids, NoId
    <2>4. instruction[c.avail].tee \in plan.tees
      BY <2>3 DEF RegistrationInv, InstructionsOK
    <2>5. QED
      BY <2>2, <2>3, <2>4
  <1>3. QED
    BY <1>1, <1>2 DEF OneMachineAtATime, Alone

LEMMA PromoteKeeps ==
    ASSUME RegistrationInv, mempool # <<>>, NEW tx, tx = Head(mempool), mempool' = Tail(mempool),
           Promote(tx), UNCHANGED <<plan, lead, stateFile, faults>>
    PROVE  RegistrationInv'
  <1>1. tx.op = "toProduction" /\ Proceed(tx, "end") /\ UNCHANGED <<versions, instruction>>
    BY DEF Promote
  <1>2. tx \in Transactions /\ Is(tx.id, "avail")
    BY <1>1, NextInLine DEF TransactionOK
  <1>3. tx.id \in 1..MaxId /\ instruction[tx.id].kind = "avail"
    BY <1>2, RegistrationAssumption DEF Transactions, Ids, NoId, Is
  <1>4. PICK t \in Tees : t = instruction[tx.id].tee
    BY <1>3, InstructionType DEF RegistrationInv, Instructions
  <1>5. machine' = [machine EXCEPT ![t] = "production"]
    BY <1>4 DEF Promote
  <1>6. machine \in [Tees -> {"none", "registered", "production"}]
    BY DEF RegistrationInv, TypeOK
  <1>7. /\ machine' \in [Tees -> {"none", "registered", "production"}]
        /\ machine'[t] = "production" /\ \A u \in Tees : u # t => machine'[u] = machine[u]
    BY <1>5, <1>6
  <1>8. Stable
    BY <1>1, <1>7 DEF Stable
  <1>9. plan' = plan /\ (Alone' <=> Alone) /\ (OneMachineAtATime' <=> OneMachineAtATime)
    BY <1>8, PlanStays
  <1>10. KeptIds /\ InstructionsOK' /\ VersionsOK' /\ NothingWrong'
    BY <1>1, <1>9 DEF KeptIds, Kept, RegistrationInv, InstructionsOK, VersionsOK, NothingWrong
  <1>11. instruction' \in [1..MaxId -> Instructions \cup {NoInstruction}]
    BY <1>1 DEF RegistrationInv, TypeOK
  <1>12. PICK c : c = run[tx.by]
    OBVIOUS
  <1>13. PICK next : next = [c EXCEPT !.pc = "end"]
    OBVIOUS
  <1>14. ASSUME tx.by # "nobody"
         PROVE  /\ next \in ActiveRuns \cup {Idle}
                /\ RunOK(next)' /\ (OneMachineAtATime => Promoted(next)')
                /\ Alone => OwnCheck(next)' /\ OwnFile(next)'
    <2>1. /\ c \in ActiveRuns /\ c.pc = "wait" /\ c.avail = tx.id /\ RunOK(c) /\ RunOK(c)' /\ SentBy(tx.op, c.step)
          /\ Alone => OwnCheck(c) /\ OwnCheck(c)' /\ OwnFile(c)
      BY <1>1, <1>8, <1>10, <1>12, <1>14, Waiting
    <2>2. /\ next \in ActiveRuns /\ next.pc = "end" /\ next.tee = c.tee /\ next.command = c.command
          /\ next.resume = c.resume /\ next.state = c.state /\ next.avail = c.avail /\ next.flag = c.flag
      BY <1>13, <2>1 DEF ActiveRuns, Pcs
    <2>3. RunOK(next)'
      BY <2>1, <2>2 DEF RunOK
    <2>4. c.avail # NoId
      BY <1>2, <2>1 DEF Is
    <2>5. OneMachineAtATime => Promoted(next)'
      <3>1. OneMachineAtATime => c.tee = t
        BY <1>4, <2>1, <2>4, RightMachine
      <3>2. QED
        BY <1>7, <2>2, <3>1 DEF Promoted
    <2>6. Alone => OwnCheck(next)' /\ OwnFile(next)'
      BY <2>1, <2>2, <2>4 DEF OwnCheck, OwnFile, Checked
    <2>7. QED
      BY <2>2, <2>3, <2>5, <2>6
  <1>15. Receipt(tx, next)
    BY <1>1, <1>12, <1>13 DEF Proceed
  <1>16. QED
    BY <1>7, <1>8, <1>10, <1>11, <1>14, <1>15, ReceiptStep

(* The run notes the id of the instruction it has just got, and that the   *)
(* step is done.                                                           *)
LEMMA Remembered ==
    ASSUME NEW c \in ActiveRuns, NEW id \in Ids, c.step \in {"r", "R", "a"}, NEW next, next = Remember(c, id)
    PROVE  /\ next \in ActiveRuns /\ next.pc = "save" /\ next.step = c.step
           /\ next.tee = c.tee /\ next.command = c.command /\ next.resume = c.resume /\ next.flag = c.flag
           /\ next.avail = IF c.step = "a" THEN id ELSE c.avail
           /\ next.state.done = c.state.done \cup {c.step}
           /\ next.state.attest = IF c.step = "a" THEN c.state.attest ELSE id
           /\ next.state.avail = IF c.step = "a" THEN id ELSE c.state.avail
  <1>1. c.state \in States /\ c.attest \in Ids /\ c.avail \in Ids
    BY DEF ActiveRuns
  <1>2. PICK attest, avail, done, sattest, savail :
           /\ attest = IF c.step = "a" THEN c.attest ELSE id
           /\ avail = IF c.step = "a" THEN id ELSE c.avail
           /\ done = c.state.done \cup {c.step}
           /\ sattest = IF c.step = "a" THEN c.state.attest ELSE id
           /\ savail = IF c.step = "a" THEN id ELSE c.state.avail
    OBVIOUS
  <1>3. PICK s : s = [done |-> done, attest |-> sattest, avail |-> savail]
    OBVIOUS
  <1>4. done \in SUBSET Steps /\ attest \in Ids /\ avail \in Ids /\ sattest \in Ids /\ savail \in Ids
    BY <1>1, <1>2 DEF States, Steps
  <1>5. s \in States /\ s.done = done /\ s.attest = sattest /\ s.avail = savail
    BY <1>3, <1>4 DEF States
  <1>6. next = [c EXCEPT !.pc = "save", !.attest = attest, !.avail = avail, !.state = s]
    BY <1>2, <1>3 DEF Remember
  <1>7. /\ next \in ActiveRuns /\ next.pc = "save" /\ next.step = c.step
        /\ next.tee = c.tee /\ next.command = c.command /\ next.resume = c.resume /\ next.flag = c.flag
        /\ next.avail = avail /\ next.state = s
    BY <1>4, <1>5, <1>6 DEF ActiveRuns, Pcs
  <1>8. QED
    BY <1>2, <1>5, <1>7

(* A contract answers with a new instruction.                              *)
LEMMA NewInstruction ==
    ASSUME RegistrationInv, mempool # <<>>, NEW tx, tx = Head(mempool), mempool' = Tail(mempool),
           tx.op \in {"register", "requestTeeAttestation", "requestAvailabilityCheckAttestation"},
           NEW id \in 1..MaxId, id \notin Referenced,
           Receipt(tx, Remember(run[tx.by], id)),
           instruction' \in [1..MaxId -> Instructions \cup {NoInstruction}],
           instruction'[id] \in Instructions, instruction'[id].tee = tx.tee,
           instruction'[id].kind = IF tx.op = "requestAvailabilityCheckAttestation" THEN "avail" ELSE "attest",
           \A k \in 1..MaxId : k # id => /\ Kept(k)
                                         /\ instruction'[k].status = "rejected" => instruction[k].status = "rejected",
           instruction'[id].status = "rejected" => ~policyInSync(lead),
           machine' \in [Tees -> {"none", "registered", "production"}], Stable,
           tx.op # "requestAvailabilityCheckAttestation" => machine'[tx.tee] # "none",
           UNCHANGED <<versions, lead, stateFile, faults>>
    PROVE  RegistrationInv'
  <1>1. /\ plan' = plan /\ (Alone' <=> Alone)
        /\ tx.tee \in plan.tees /\ id # NoId /\ id \in Ids
    BY PlanStays, NextInLine, RegistrationAssumption DEF TransactionOK, NoId, Ids
  <1>2. KeptIds
    <2>1. SUFFICES ASSUME NEW k \in Referenced, k # NoId PROVE Kept(k)
      BY DEF KeptIds
    <2>2. k \in Ids
      BY ReferencedType DEF RegistrationInv
    <2>3. k \in 1..MaxId
      BY <2>1, <2>2, RegistrationAssumption DEF Ids, NoId
    <2>4. QED
      BY <2>1, <2>3
  <1>3. InstructionsOK'
    BY <1>1 DEF RegistrationInv, InstructionsOK, Kept
  <1>4. VersionsOK'
    BY DEF RegistrationInv, VersionsOK
  <1>5. NothingWrong'
    <2>1. SUFFICES ASSUME Alone, faults = 0
                   PROVE  /\ lead = 0
                          /\ \A k \in 1..MaxId : instruction'[k].kind = "avail" => instruction'[k].status # "rejected"
      BY <1>1 DEF NothingWrong
    <2>2. lead = 0 /\ \A k \in 1..MaxId : instruction[k].kind = "avail" => instruction[k].status # "rejected"
      BY <2>1 DEF RegistrationInv, NothingWrong
    <2>3. QED
      BY <2>2 DEF Kept, policyInSync
  <1>6. PICK c : c = run[tx.by]
    OBVIOUS
  <1>7. PICK next : next = Remember(c, id)
    OBVIOUS
  <1>8. ASSUME tx.by # "nobody"
        PROVE  /\ next \in ActiveRuns \cup {Idle}
               /\ RunOK(next)' /\ Promoted(next)'
               /\ Alone => OwnCheck(next)' /\ OwnFile(next)'
    <2>1. /\ c \in ActiveRuns /\ c.pc = "wait" /\ c.tee = tx.tee /\ SentBy(tx.op, c.step) /\ RunOK(c)'
          /\ Alone => OwnCheck(c) /\ OwnCheck(c)' /\ OwnFile(c)
      BY <1>2, <1>6, <1>8, Waiting
    <2>2. /\ c.step \in {"r", "R", "a"} /\ c.step # "p"
          /\ c.step = "a" <=> tx.op = "requestAvailabilityCheckAttestation"
      BY <2>1 DEF SentBy
    <2>3. /\ next \in ActiveRuns /\ next.pc = "save" /\ next.step = c.step
          /\ next.tee = c.tee /\ next.command = c.command /\ next.resume = c.resume /\ next.flag = c.flag
          /\ next.avail = IF c.step = "a" THEN id ELSE c.avail
          /\ next.state.done = c.state.done \cup {c.step}
          /\ next.state.attest = IF c.step = "a" THEN c.state.attest ELSE id
          /\ next.state.avail = IF c.step = "a" THEN id ELSE c.state.avail
      BY <1>1, <1>7, <2>1, <2>2, Remembered
    <2>4. Alone => "a" \notin c.state.done /\ ~(faults' = 0 /\ Claims')
      BY <2>1, <2>2, NotYetChecked
    <2>5. CASE c.step = "a"
      <3>1. Is(id, "avail")' /\ instruction'[id].tee = c.tee
        BY <1>1, <2>1, <2>2, <2>5 DEF Is
      <3>2. StateTrue(c.state)'
        BY <2>1 DEF RunOK
      <3>3. StateTrue(next.state)'
        BY <2>3, <2>5, <3>1, <3>2 DEF StateTrue
      <3>4. RunOK(next)'
        BY <1>1, <2>1, <2>3, <2>5, <3>1, <3>3 DEF RunOK
      <3>5. Alone => OwnCheck(next)' /\ OwnFile(next)'
        BY <2>1, <2>3, <2>4, <2>5, <3>1 DEF OwnCheck, OwnFile
      <3>6. QED
        BY <2>3, <3>4, <3>5 DEF Promoted
    <2>6. CASE c.step # "a"
      <3>1. Is(id, "attest")' /\ machine'[instruction'[id].tee] # "none"
        BY <1>1, <2>2, <2>6 DEF Is
      <3>2. StateTrue(c.state)'
        BY <2>1 DEF RunOK
      <3>3. StateTrue(next.state)'
        BY <2>2, <2>3, <2>6, <3>1, <3>2 DEF StateTrue
      <3>4. RunOK(next)'
        BY <2>1, <2>2, <2>3, <2>6, <3>3 DEF RunOK
      <3>5. Alone => OwnCheck(next)' /\ OwnFile(next)'
        BY <2>1, <2>3, <2>4, <2>6 DEF OwnCheck, OwnFile
      <3>6. QED
        BY <2>3, <3>4, <3>5 DEF Promoted
    <2>7. QED
      BY <2>5, <2>6
  <1>9. Receipt(tx, next)
    BY <1>6, <1>7
  <1>10. QED
    BY <1>2, <1>3, <1>4, <1>5, <1>8, <1>9, ReceiptStep

LEMMA AttestKeeps ==
    ASSUME RegistrationInv, mempool # <<>>, NEW tx, tx = Head(mempool), mempool' = Tail(mempool),
           Accepts(tx), Attest(tx), UNCHANGED <<plan, lead, stateFile, faults>>
    PROVE  RegistrationInv'
  <1>1. PICK id \in 1..MaxId :
           /\ FreshId(id)
           /\ instruction' = [instruction EXCEPT ![id] = [kind |-> "attest", tee |-> tx.tee, status |-> "open"]]
           /\ Receipt(tx, Remember(run[tx.by], id))
    BY DEF Attest
  <1>2. /\ tx.op \in {"register", "requestTeeAttestation"} /\ versions' = versions
        /\ machine' = IF tx.op = "register" THEN [machine EXCEPT ![tx.tee] = "registered"] ELSE machine
    BY DEF Attest
  <1>3. tx.tee \in Tees
    BY NextInLine DEF Transactions
  <1>4. PICK new : new = [kind |-> "attest", tee |-> tx.tee, status |-> "open"]
    OBVIOUS
  <1>5. new \in Instructions /\ new.kind = "attest" /\ new.tee = tx.tee /\ new.status = "open"
    BY <1>3, <1>4 DEF Instructions
  <1>6. instruction \in [1..MaxId -> Instructions \cup {NoInstruction}]
    BY DEF RegistrationInv, TypeOK
  <1>7. /\ instruction' \in [1..MaxId -> Instructions \cup {NoInstruction}]
        /\ instruction'[id] = new /\ \A k \in 1..MaxId : k # id => instruction'[k] = instruction[k]
    BY <1>1, <1>4, <1>5, <1>6
  <1>8. \A k \in 1..MaxId : k # id => /\ Kept(k)
                                      /\ instruction'[k].status = "rejected" => instruction[k].status = "rejected"
    BY <1>7 DEF Kept
  <1>9. machine \in [Tees -> {"none", "registered", "production"}]
    BY DEF RegistrationInv, TypeOK
  <1>10. /\ machine' \in [Tees -> {"none", "registered", "production"}] /\ Stable /\ machine'[tx.tee] # "none"
    <2>1. CASE tx.op = "register"
      <3>1. machine[tx.tee] = "none"
        BY <2>1 DEF Accepts
      <3>2. QED
        BY <1>2, <1>3, <1>9, <2>1, <3>1 DEF Stable
    <2>2. CASE tx.op = "requestTeeAttestation"
      <3>1. machine[tx.tee] # "none"
        BY <2>2 DEF Accepts
      <3>2. QED
        BY <1>2, <1>9, <2>2, <3>1 DEF Stable
    <2>3. QED
      BY <1>2, <2>1, <2>2
  <1>11. id \notin Referenced
    BY <1>1 DEF FreshId
  <1>12. QED
    BY <1>1, <1>2, <1>5, <1>7, <1>8, <1>10, <1>11, NewInstruction

LEMMA RequestAvailabilityKeeps ==
    ASSUME RegistrationInv, mempool # <<>>, NEW tx, tx = Head(mempool), mempool' = Tail(mempool),
           Accepts(tx), RequestAvailability(tx), UNCHANGED <<plan, lead, stateFile, faults>>
    PROVE  RegistrationInv'
  <1>1. PICK id \in 1..MaxId :
           /\ FreshId(id)
           /\ instruction' = [instruction EXCEPT
                 ![tx.id].status = "used",
                 ![id] = [kind |-> "avail", tee |-> tx.tee,
                          status |-> IF policyInSync(lead) THEN "asked" ELSE "rejected"]]
           /\ Receipt(tx, Remember(run[tx.by], id))
    BY DEF RequestAvailability
  <1>2. tx.op = "requestAvailabilityCheckAttestation" /\ UNCHANGED <<machine, versions>>
    BY DEF RequestAvailability
  <1>3. tx \in Transactions /\ tx.tee \in Tees /\ tx.id \in Referenced
    BY NextInLine DEF Transactions
  <1>4. tx.id # NoId /\ instruction[tx.id] = [kind |-> "attest", tee |-> tx.tee, status |-> "open"]
    BY <1>2 DEF Accepts
  <1>5. tx.id \in 1..MaxId
    BY <1>3, <1>4, RegistrationAssumption DEF Transactions, Ids, NoId
  <1>6. PICK status \in {"asked", "rejected"} : status = IF policyInSync(lead) THEN "asked" ELSE "rejected"
    OBVIOUS
  <1>7. PICK old, new : /\ old = [kind |-> "attest", tee |-> tx.tee, status |-> "used"]
                        /\ new = [kind |-> "avail", tee |-> tx.tee, status |-> status]
    OBVIOUS
  <1>8. /\ new \in Instructions /\ new.kind = "avail" /\ new.tee = tx.tee /\ new.status = status
        /\ old \in Instructions /\ old.kind = "attest" /\ old.tee = tx.tee /\ old.status = "used"
    BY <1>3, <1>7 DEF Instructions
  <1>9. instruction \in [1..MaxId -> Instructions \cup {NoInstruction}] /\ id # tx.id /\ id \notin Referenced
    BY <1>1, <1>3 DEF RegistrationInv, TypeOK, FreshId
  <1>10. instruction' = [instruction EXCEPT ![tx.id] = old, ![id] = new]
    <2>1. old = [instruction[tx.id] EXCEPT !.status = "used"]
      BY <1>4, <1>7
    <2>2. QED
      BY <1>1, <1>6, <1>7, <2>1
  <1>11. /\ instruction' \in [1..MaxId -> Instructions \cup {NoInstruction}]
         /\ instruction'[id] = new /\ instruction'[tx.id] = old
         /\ \A k \in 1..MaxId : k # id /\ k # tx.id => instruction'[k] = instruction[k]
    BY <1>5, <1>8, <1>9, <1>10
  <1>12. \A k \in 1..MaxId : k # id => /\ Kept(k)
                                       /\ instruction'[k].status = "rejected" => instruction[k].status = "rejected"
    <2>1. Kept(tx.id) /\ instruction'[tx.id].status # "rejected"
      BY <1>4, <1>8, <1>11 DEF Kept
    <2>2. QED
      BY <1>11, <2>1 DEF Kept
  <1>13. machine' \in [Tees -> {"none", "registered", "production"}] /\ Stable
    BY <1>2 DEF RegistrationInv, TypeOK, Stable
  <1>14. instruction'[id].status = "rejected" => ~policyInSync(lead)
    BY <1>6, <1>8, <1>11
  <1>15. QED
    BY <1>1, <1>2, <1>8, <1>9, <1>11, <1>12, <1>13, <1>14, NewInstruction

LEMMA MineKeeps ==
    ASSUME RegistrationInv, Mine
    PROVE  RegistrationInv'
  <1>1. PICK tx : tx = Head(mempool)
    OBVIOUS
  <1>2. /\ mempool # <<>> /\ mempool' = Tail(mempool) /\ Accepts(tx) /\ UNCHANGED <<plan, lead, stateFile, faults>>
        /\ \/ AddTeeVersion(tx) \/ SetNewTeeGovernance(tx) \/ Attest(tx)
           \/ RequestAvailability(tx) \/ Promote(tx)
    BY <1>1 DEF Mine
  <1>3. QED
    BY <1>1, <1>2, AddTeeVersionKeeps, SetNewTeeGovernanceKeeps, AttestKeeps, RequestAvailabilityKeeps, PromoteKeeps

(* No tool moves: the data providers and the proxy do.                     *)
LEMMA OutsideStep ==
    ASSUME RegistrationInv, UNCHANGED <<plan, machine, versions, mempool, stateFile, run>>,
           faults' \in Nat, faults' = 0 => faults = 0, lead' \in Int,
           instruction' \in [1..MaxId -> Instructions \cup {NoInstruction}],
           \A id \in 1..MaxId : Kept(id), NothingWrong'
    PROVE  RegistrationInv'
  <1>1. TypeOK /\ TypeOK'
    BY DEF RegistrationInv, TypeOK
  <1>2. Stable
    BY DEF Stable
  <1>3. KeptIds
    <2>1. Referenced \subseteq Ids
      BY <1>1, ReferencedType
    <2>2. QED
      BY <2>1, RegistrationAssumption DEF KeptIds, Ids, NoId
  <1>4. InstructionsOK' /\ VersionsOK'
    BY DEF RegistrationInv, InstructionsOK, VersionsOK, Kept
  <1>5. FileOK'
    BY <1>1, <1>2, <1>3, FileStays DEF RegistrationInv
  <1>6. MempoolOK'
    <2>1. ASSUME NEW i \in 1..Len(mempool) PROVE TransactionOK(mempool[i])'
      <3>1. PICK tx : tx = mempool[i]
        OBVIOUS
      <3>2. TransactionOK(tx) /\ tx.id \in Referenced
        BY <1>1, <2>1, <3>1, RefsReferenced DEF RegistrationInv, MempoolOK
      <3>3. TransactionOK(tx)'
        BY <1>3, <3>2, TransactionStays DEF KeptIds
      <3>4. QED
        BY <3>1, <3>3 DEF TransactionOK, Is
    <2>2. QED
      BY <2>1 DEF RegistrationInv, MempoolOK
  <1>7. OwnFiles'
    BY <1>2, PlanStays DEF RegistrationInv, OwnFiles, OwnFile, Claims, Checked
  <1>8. \A q \in Runs : Good(q)'
    BY <1>2, <1>3, OthersStay
  <1>9. QED
    BY <1>1, <1>4, <1>5, <1>6, <1>7, <1>8, AllGood

LEMMA ProvidersKeep ==
    ASSUME RegistrationInv, NEW id \in 1..MaxId, Prove(id) \/ Lapse(id)
    PROVE  RegistrationInv'
  <1>1. PICK x : x = instruction[id]
    OBVIOUS
  <1>2. PICK status : /\ instruction' = [instruction EXCEPT ![id].status = status]
                      /\ \/ x.kind = "avail" /\ status = "proved" /\ UNCHANGED faults
                         \/ x.kind = "attest" /\ status = "used" /\ Fault
                         \/ x.kind = "avail" /\ status = "rejected" /\ Fault
    BY <1>1 DEF Prove, Lapse
  <1>3. /\ UNCHANGED <<plan, machine, versions, lead, mempool, stateFile, run>>
        /\ x.status # "proved"
    BY <1>1 DEF Prove, Lapse
  <1>4. /\ instruction \in [1..MaxId -> Instructions \cup {NoInstruction}] /\ faults \in Nat /\ lead' \in Int
    BY <1>3 DEF RegistrationInv, TypeOK
  <1>5. x \in Instructions
    BY <1>1, <1>2, InstructionType DEF RegistrationInv
  <1>6. PICK y : y = [x EXCEPT !.status = status]
    OBVIOUS
  <1>7. y \in Instructions /\ y.kind = x.kind /\ y.tee = x.tee /\ y.status = status
    BY <1>2, <1>5, <1>6 DEF Instructions
  <1>8. instruction' = [instruction EXCEPT ![id] = y]
    BY <1>1, <1>2, <1>6
  <1>9. /\ instruction' \in [1..MaxId -> Instructions \cup {NoInstruction}]
        /\ instruction'[id] = y /\ \A k \in 1..MaxId : k # id => instruction'[k] = instruction[k]
    BY <1>4, <1>7, <1>8
  <1>10. \A k \in 1..MaxId : Kept(k)
    BY <1>1, <1>3, <1>7, <1>9 DEF Kept
  <1>11. /\ faults' \in Nat /\ (faults' = 0 => faults = 0)
         /\ faults' = 0 => status # "rejected"
    BY <1>2, <1>4, FaultTaken
  <1>12. NothingWrong'
    <2>1. Alone' <=> Alone
      BY <1>3 DEF Alone
    <2>2. QED
      BY <1>3, <1>7, <1>9, <1>11, <2>1 DEF RegistrationInv, NothingWrong
  <1>13. QED
    BY <1>3, <1>4, <1>9, <1>10, <1>11, <1>12, OutsideStep

LEMMA ProxyKeeps ==
    ASSUME RegistrationInv, DriftAway \/ CatchUp \/ UNCHANGED vars
    PROVE  RegistrationInv'
  <1>1. UNCHANGED <<plan, machine, versions, instruction, mempool, stateFile, run>>
    BY DEF DriftAway, CatchUp, vars, chainVars
  <1>2. /\ instruction' \in [1..MaxId -> Instructions \cup {NoInstruction}]
        /\ faults \in Nat /\ lead \in Int /\ plan.leads \subseteq Int
    BY <1>1, RegistrationAssumption DEF RegistrationInv, TypeOK
  <1>3. \A k \in 1..MaxId : Kept(k)
    BY <1>1 DEF Kept
  <1>4. /\ lead' \in Int /\ faults' \in Nat
        /\ faults' = 0 => faults = 0 /\ (lead' = lead \/ lead' = 0)
    BY <1>2, FaultTaken DEF DriftAway, CatchUp, vars, chainVars
  <1>5. NothingWrong'
    <2>1. Alone' <=> Alone
      BY <1>1 DEF Alone
    <2>2. QED
      BY <1>1, <1>4, <2>1 DEF RegistrationInv, NothingWrong
  <1>6. QED
    BY <1>1, <1>2, <1>3, <1>4, <1>5, OutsideStep

LEMMA InitEstablishes ==
    ASSUME Init
    PROVE  RegistrationInv
  <1>1. TypeOK
    BY RegistrationAssumption DEF Init, TypeOK, Absent, NoInstruction
  <1>2. \A r \in Runs : run[r] = Idle
    BY DEF Init
  <1>3. RunsOK /\ PromotedOK /\ OwnChecks
    BY <1>2 DEF RunsOK, PromotedOK, OwnChecks, Active, Promoted, Idle
  <1>4. FileOK /\ ~Claims
    BY DEF Init, FileOK, Claims, Absent
  <1>5. MempoolOK /\ InstructionsOK /\ VersionsOK
    BY DEF Init, MempoolOK, InstructionsOK, VersionsOK
  <1>6. OwnFiles
    <2>1. SUFFICES ASSUME NEW r \in plan.runs PROVE OwnFile(run[r])
      BY DEF OwnFiles
    <2>2. run[r] = Idle
      BY <1>1, <1>2, RegistrationAssumption DEF TypeOK
    <2>3. QED
      BY <1>4, <2>2 DEF OwnFile, Idle
  <1>7. NothingWrong
    BY DEF Init, NothingWrong
  <1>8. QED
    BY <1>1, <1>3, <1>4, <1>5, <1>6, <1>7 DEF RegistrationInv

LEMMA NextKeeps ==
    ASSUME RegistrationInv, [Next]_vars
    PROVE  RegistrationInv'
  <1>1. ASSUME NEW r \in Runs, Start(r) \/ ToolStep(r) \/ SaveFails(r) \/ Stop(r) PROVE RegistrationInv'
    BY <1>1, StartKeeps, ToolSendKeeps, BeginKeeps, LoadKeeps, SkipStepKeeps, PolicyKeeps, TimeoutKeeps,
       FinishKeeps, SaveKeeps, StopKeeps
    DEF ToolStep
  <1>2. ASSUME NEW id \in 1..MaxId, Prove(id) \/ Lapse(id) PROVE RegistrationInv'
    BY <1>2, ProvidersKeep
  <1>3. QED
    BY <1>1, <1>2, MineKeeps, RevertKeeps, ProxyKeeps DEF Next

LEMMA AlwaysRegistrationInv == Spec => []RegistrationInv
  <1>1. Init => RegistrationInv
    BY InitEstablishes
  <1>2. RegistrationInv /\ [Next]_vars => RegistrationInv'
    BY NextKeeps
  <1>3. QED
    BY <1>1, <1>2, PTL DEF Spec
-----------------------------------------------------------------------------
(* register-tee never reports a machine as registered that its command     *)
(* promotes and that is not in production: for any number of machines,     *)
(* runs, failures, late transactions and leftover files, as long as the    *)
(* operators are about one machine, or one operator takes the machines one *)
(* after the other, each afresh.                                           *)
THEOREM RegisteredMeansProduction == Spec => []SuccessMeansProduction
  <1>1. RegistrationInv => SuccessMeansProduction
    BY DEF RegistrationInv, PromotedOK, Promoted, SuccessMeansProduction
  <1>2. QED
    BY <1>1, AlwaysRegistrationInv, PTL

(* saveState: whatever crashes, comes late or runs at the same time, the   *)
(* state file never claims an attestation or an availability check that    *)
(* did not happen, nor an attestation of a machine nobody registered.      *)
THEOREM StateFileIsTruthful == Spec => []StateFileTellsTheTruth
  <1>1. RegistrationInv => StateFileTellsTheTruth
    BY DEF RegistrationInv, FileOK, StateTrue, Is, StateFileTellsTheTruth
  <1>2. QED
    BY <1>1, AlwaysRegistrationInv, PTL

(* allow-tee-version: a tool that goes on, also after a revert because the *)
(* version exists, leaves an extension that supports the machine's code,   *)
(* or has been given a version name that stands for other code.            *)
THEOREM AllowedMeansSupported == Spec => []WhitelistedUnlessNameTaken
  <1>1. RegistrationInv => WhitelistedUnlessNameTaken
    BY DEF RegistrationInv, RunsOK, RunOK, Allowed, Active, WhitelistedUnlessNameTaken
  <1>2. QED
    BY <1>1, AlwaysRegistrationInv, PTL
=============================================================================
