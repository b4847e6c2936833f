-------------------------- MODULE ExtensionProofs --------------------------
(***************************************************************************)
(* Theorems about the extension's process: its server, for any number of   *)
(* requests, any configuration and any moment of its shutdown, and the     *)
(* selection Verify makes in it, for every number of vectors and every     *)
(* hash.                                                                   *)
(***************************************************************************)
EXTENDS Extension, VectorSelection, TLAPS, FiniteSetTheorems, WellFoundedInduction

RequestNames == Names \cup {Nobody}
Texts == [name : RequestNames, number : Nat]
RequestRecords ==
    [pc : {"idle", "reading", "handling", "lock", "counting", "recording", "getJob", "hung", "verifying",
           "respond", "answered", "lost"},
     kind : Kinds \cup {"none"}, name : RequestNames, number : Nat, status : {0, 1},
     verdict : BOOLEAN, snapshot : SUBSET [topic : Topics, count : Nat, last : Texts],
     accepted : Nat, writeBy : Nat, budget : Nat]

ExtensionTypeOK ==
    /\ server \in {"nil", "built", "serving", "panicked", "draining", "exited"}
    /\ mu \in Requests \cup {Nobody}
    /\ count \in [Topics -> Nat]
    /\ last \in [Topics -> Texts]
    /\ req \in [Requests -> RequestRecords]
    /\ clock \in Nat

(* What is known of a request at each of its steps. *)
RequestOK(c) ==
    /\ c.pc \in {"lock", "counting", "recording"} => c.kind \in Topics /\ c.name # Nobody
    /\ c.pc \in {"idle", "reading", "handling", "lock"} => c.number = 0
    /\ c.number # 0 => c.kind \in Topics
    /\ c.pc \in {"idle", "reading", "handling", "lock", "getJob", "hung", "verifying"} => ~c.verdict
    /\ c.pc # "idle" => c.writeBy = c.accepted + ServerWriteTimeout

(* e.mu is held by the request that counts or records, and only by it.     *)
MutualExclusion == \A r \in Requests : mu = r <=> req[r].pc \in {"counting", "recording"}

(* The requests whose number has been written to the counter. *)
Counted(t) == {r \in Requests : req[r].kind = t /\ req[r].number # 0 /\ ~At(r, "counting")}

(* The holder of the lock has read the counter, or has just written it.    *)
HolderIsCurrent ==
    \A r \in Requests : /\ At(r, "counting") => req[r].number = count[req[r].kind] + 1
                        /\ At(r, "recording") => req[r].number = count[req[r].kind]

(* Unless somebody is about to record it, the last text is that of the     *)
(* last number.                                                            *)
LastIsLatest(t) ==
    (\A r \in Requests : ~(At(r, "recording") /\ req[r].kind = t)) =>
        /\ last[t].number = count[t]
        /\ count[t] > 0 => \E q \in Requests : /\ req[q].kind = t /\ req[q].number = count[t]
                                               /\ req[q].name = last[t].name

(* A snapshot that /state may show: every count with its own text.         *)
SnapshotOK(s) ==
    /\ s.last.number = s.count
    /\ s.count > 0 => \E q \in Requests : /\ req[q].kind = s.topic /\ req[q].number = s.count
                                          /\ req[q].name = s.last.name

CountsAreRight(t) ==
    /\ IsFiniteSet(Counted(t)) /\ Cardinality(Counted(t)) = count[t]
    /\ {req[r].number : r \in Counted(t)} = 1..count[t]

ExtensionInv ==
    /\ ExtensionTypeOK
    /\ \A r \in Requests : RequestOK(req[r])
    /\ MutualExclusion
    /\ server # "exited" =>
          /\ \A t \in Topics : CountsAreRight(t) /\ LastIsLatest(t)
          /\ HolderIsCurrent
          /\ \A r \in Requests : \A s \in req[r].snapshot : SnapshotOK(s)

LEMMA NoRequestOK == NoRequest \in RequestRecords /\ RequestOK(NoRequest)
BY DEF NoRequest, RequestRecords, RequestNames, RequestOK

LEMMA ExtensionInvInit == ExtensionInit => ExtensionInv
<1> SUFFICES ASSUME ExtensionInit PROVE ExtensionInv
  OBVIOUS
<1>1. \A r \in Requests : req[r] = NoRequest
  BY DEF ExtensionInit
<1>2. ExtensionTypeOK
  <2>1. server \in {"nil", "built"}
    BY DEF ExtensionInit, New
  <2>2. [name |-> Nobody, number |-> 0] \in Texts
    BY DEF Texts, RequestNames
  <2> QED
    BY <2>1, <2>2, NoRequestOK DEF ExtensionInit, ExtensionTypeOK
<1>3. \A r \in Requests : RequestOK(req[r])
  BY <1>1, NoRequestOK
<1>4. MutualExclusion
  BY <1>1, ExtensionAssumption DEF MutualExclusion, ExtensionInit, NoRequest
<1>5. ASSUME NEW t \in Topics
      PROVE  CountsAreRight(t) /\ LastIsLatest(t)
  <2>1. Counted(t) = {} /\ count[t] = 0 /\ last[t].number = 0
    BY <1>1 DEF Counted, ExtensionInit, NoRequest
  <2>2. IsFiniteSet({}) /\ Cardinality({}) = 0
    BY FS_EmptySet
  <2>3. {req[r].number : r \in Counted(t)} = {} /\ 1..count[t] = {}
    BY <2>1
  <2> QED
    BY <2>1, <2>2, <2>3 DEF CountsAreRight, LastIsLatest
<1>6. HolderIsCurrent
  BY <1>1 DEF HolderIsCurrent, At, NoRequest
<1>7. \A r \in Requests : req[r].snapshot = {}
  BY <1>1 DEF NoRequest
<1> QED
  BY <1>2, <1>3, <1>4, <1>5, <1>6, <1>7 DEF ExtensionInv

(* A request moves that neither takes nor holds the lock and keeps the     *)
(* number it has, if any.                                                  *)
LEMMA RequestMoves ==
    ASSUME ExtensionInv, server # "exited", UNCHANGED <<server, mu, count, last, clock>>,
           NEW r \in Requests, NEW c \in RequestRecords, req' = [req EXCEPT ![r] = c],
           req[r].pc \notin {"counting", "recording"}, c.pc \notin {"counting", "recording"},
           RequestOK(c), c.number = req[r].number,
           c.number # 0 => c.kind = req[r].kind /\ c.name = req[r].name,
           \A s \in c.snapshot : s \in req[r].snapshot \/ SnapshotOK(s)
    PROVE  ExtensionInv'
<1>0. /\ ExtensionTypeOK /\ MutualExclusion /\ HolderIsCurrent
      /\ \A q \in Requests : RequestOK(req[q])
      /\ \A t \in Topics : CountsAreRight(t) /\ LastIsLatest(t)
      /\ \A q \in Requests : \A s \in req[q].snapshot : SnapshotOK(s)
  BY DEF ExtensionInv
<1>1. /\ req'[r] = c
      /\ \A q \in Requests : q # r => req'[q] = req[q]
  BY <1>0 DEF ExtensionTypeOK
<1>2. ExtensionTypeOK'
  BY <1>0 DEF ExtensionTypeOK
<1>3. ASSUME NEW q \in Requests
      PROVE  RequestOK(req[q])'
  <2>1. \A d : RequestOK(d)' <=> RequestOK(d)
    BY DEF RequestOK
  <2> QED
    BY <1>0, <1>1, <2>1
<1>4. MutualExclusion'
  BY <1>0, <1>1 DEF MutualExclusion
<1>5. \A q \in Requests : /\ req'[q].number = req[q].number
                          /\ req[q].number # 0 => req'[q].kind = req[q].kind /\ req'[q].name = req[q].name
                          /\ req'[q].pc = "counting" <=> req[q].pc = "counting"
                          /\ req'[q].pc = "recording" <=> req[q].pc = "recording"
  BY <1>1
<1>6. ASSUME NEW t \in Topics
      PROVE  CountsAreRight(t)' /\ LastIsLatest(t)'
  <2>1. Counted(t)' = Counted(t)
    BY <1>5 DEF Counted, At
  <2>2. {req[q].number : q \in Counted(t)}' = {req[q].number : q \in Counted(t)}
    BY <2>1, <1>5 DEF Counted
  <2>3. CountsAreRight(t)'
    BY <1>0, <2>1, <2>2 DEF CountsAreRight
  <2>4. \A q \in Requests : At(q, "recording")' <=> At(q, "recording")
    BY <1>5 DEF At
  <2>5. \A q \in Requests : q # r => req'[q].kind = req[q].kind
    BY <1>1
  <2>6. ~At(r, "recording")
    BY DEF At
  <2>7. count[t] \in Nat
    BY <1>0 DEF ExtensionTypeOK
  <2>8. LastIsLatest(t)'
    BY <1>0, <1>5, <2>4, <2>5, <2>6, <2>7 DEF LastIsLatest
  <2> QED
    BY <2>3, <2>8
<1>7. HolderIsCurrent'
  BY <1>0, <1>1 DEF HolderIsCurrent, At
<1>8. ASSUME NEW q \in Requests, NEW s \in req'[q].snapshot
      PROVE  SnapshotOK(s)'
  <2>1. SnapshotOK(s)
    BY <1>0, <1>1
  <2>2. s.count \in Nat
    BY <1>2 DEF ExtensionTypeOK, RequestRecords
  <2> QED
    BY <1>5, <2>1, <2>2 DEF SnapshotOK
<1> QED
  BY <1>2, <1>3, <1>4, <1>6, <1>7, <1>8 DEF ExtensionInv

(* The facts about one request that the steps below start from. *)
LEMMA RequestFacts ==
    ASSUME ExtensionInv, NEW r \in Requests
    PROVE  /\ req[r] \in RequestRecords /\ RequestOK(req[r])
           /\ clock \in Nat /\ count \in [Topics -> Nat] /\ req[r].number \in Nat
           /\ req[r].accepted \in Nat /\ req[r].writeBy \in Nat /\ req[r].budget \in Nat
BY DEF ExtensionInv, ExtensionTypeOK, RequestRecords

LEMMA AcceptKeepsInv ==
    ASSUME ExtensionInv, NEW r \in Requests, Accept(r)
    PROVE  ExtensionInv'
<1>1. PICK kind \in Kinds, name \in Names \cup {Nobody} :
         req' = [req EXCEPT ![r] = [NoRequest EXCEPT
                   !.pc = IF kind = "state" THEN "handling" ELSE "reading", !.kind = kind, !.name = name,
                   !.accepted = clock, !.writeBy = clock + ServerWriteTimeout]]
  BY DEF Accept
<1>2. PICK n \in Nat : n = clock + ServerWriteTimeout
  BY RequestFacts, ExtensionAssumption
<1>3. PICK pc \in {"handling", "reading"} : pc = IF kind = "state" THEN "handling" ELSE "reading"
  OBVIOUS
<1>4. PICK c : c = [NoRequest EXCEPT !.pc = pc, !.kind = kind, !.name = name,
                                     !.accepted = clock, !.writeBy = n]
  OBVIOUS
<1>5. req' = [req EXCEPT ![r] = c]
  BY <1>1, <1>2, <1>3, <1>4
<1>6. c \in RequestRecords /\ c.pc = pc /\ c.number = 0 /\ c.snapshot = {}
      /\ c.accepted = clock /\ c.writeBy = n /\ c.verdict = FALSE
  BY <1>2, <1>3, <1>4, RequestFacts DEF NoRequest, RequestRecords, RequestNames
<1>7. RequestOK(c)
  BY <1>2, <1>3, <1>6 DEF RequestOK
<1>8. req[r].pc = "idle" /\ req[r].number = 0 /\ server # "exited"
      /\ UNCHANGED <<server, mu, count, last, clock>>
  BY RequestFacts DEF Accept, At, RequestOK, state
<1> QED
  BY <1>3, <1>5, <1>6, <1>7, <1>8, RequestMoves

(* A handler that did not touch the greeting state has its result. *)
LEMMA BuildResultKeepsInv ==
    ASSUME ExtensionInv, server # "exited", UNCHANGED <<server, mu, count, last, clock>>,
           NEW r \in Requests, NEW status \in {0, 1}, buildResult(r, status),
           req[r].pc \in {"reading", "handling", "getJob"}
    PROVE  ExtensionInv'
<1>0. req[r] \in RequestRecords /\ RequestOK(req[r])
  BY RequestFacts
<1>1. PICK c : c = [req[r] EXCEPT !.pc = "respond", !.status = status]
  OBVIOUS
<1>2. req' = [req EXCEPT ![r] = c]
  BY <1>1 DEF buildResult
<1>3. c \in RequestRecords /\ c.pc = "respond" /\ c.number = req[r].number /\ c.kind = req[r].kind
      /\ c.name = req[r].name /\ c.snapshot = req[r].snapshot /\ c.verdict = req[r].verdict
      /\ c.writeBy = req[r].writeBy /\ c.accepted = req[r].accepted
  BY <1>0, <1>1 DEF RequestRecords
<1>4. RequestOK(c)
  BY <1>0, <1>3 DEF RequestOK
<1> QED
  BY <1>2, <1>3, <1>4, RequestMoves

(* A request goes on without a result, and not into the critical section.  *)
LEMMA GoesKeepsInv ==
    ASSUME ExtensionInv, server # "exited", UNCHANGED <<server, mu, count, last, clock>>,
           NEW r \in Requests, NEW pc, Goes(r, pc),
           \/ req[r].pc = "reading" /\ pc = "handling"
           \/ req[r].pc = "handling" /\ pc = "lock" /\ req[r].kind \in Topics /\ req[r].name # Nobody
           \/ req[r].pc = "getJob" /\ pc \in {"verifying", "hung"}
           \/ req[r].pc = "respond" /\ pc \in {"answered", "lost"}
    PROVE  ExtensionInv'
<1>0. req[r] \in RequestRecords /\ RequestOK(req[r])
  BY RequestFacts
<1>1. PICK c : c = [req[r] EXCEPT !.pc = pc]
  OBVIOUS
<1>2. req' = [req EXCEPT ![r] = c]
  BY <1>1 DEF Goes
<1>3. c \in RequestRecords /\ c.pc = pc /\ c.number = req[r].number /\ c.kind = req[r].kind
      /\ c.name = req[r].name /\ c.snapshot = req[r].snapshot /\ c.verdict = req[r].verdict
      /\ c.budget = req[r].budget /\ c.writeBy = req[r].writeBy /\ c.accepted = req[r].accepted
  BY <1>0, <1>1 DEF RequestRecords
<1>4. RequestOK(c)
  BY <1>0, <1>3 DEF RequestOK
<1> QED
  BY <1>2, <1>3, <1>4, RequestMoves

LEMMA ActionHandlerKeepsInv ==
    ASSUME ExtensionInv, server # "exited", NEW r \in Requests, actionHandler(r)
    PROVE  ExtensionInv'
<1>0. req[r].pc = "handling" /\ UNCHANGED <<server, mu, count, last, clock>>
      /\ req[r] \in RequestRecords /\ RequestOK(req[r])
  BY RequestFacts DEF actionHandler, At, state
<1>1. CASE buildResult(r, 0)
  BY <1>0, <1>1, BuildResultKeepsInv
<1>2. CASE req[r].kind \in Topics /\ req[r].name # Nobody /\ Goes(r, "lock")
  BY <1>0, <1>2, GoesKeepsInv
<1>3. CASE req' = [req EXCEPT ![r] = [@ EXCEPT !.pc = "getJob", !.budget = clock + AttemptTotalTimeout]]
  <2>1. PICK n \in Nat : n = clock + AttemptTotalTimeout
    BY RequestFacts, ExtensionAssumption
  <2>2. PICK c : c = [req[r] EXCEPT !.pc = "getJob", !.budget = n]
    OBVIOUS
  <2>3. req' = [req EXCEPT ![r] = c]
    BY <1>3, <2>1, <2>2
  <2>4. c \in RequestRecords /\ c.pc = "getJob" /\ c.number = req[r].number /\ c.kind = req[r].kind
        /\ c.name = req[r].name /\ c.snapshot = req[r].snapshot /\ c.verdict = req[r].verdict
        /\ c.budget = n /\ c.writeBy = req[r].writeBy /\ c.accepted = req[r].accepted
    BY <1>0, <2>1, <2>2 DEF RequestRecords
  <2>5. RequestOK(c)
    BY <1>0, <2>4 DEF RequestOK
  <2> QED
    BY <1>0, <2>3, <2>4, <2>5, RequestMoves
<1> QED
  BY <1>1, <1>2, <1>3 DEF actionHandler

(* /state reads under the lock, so nobody is between counting and          *)
(* recording, and every count goes with its own text.                      *)
LEMMA StateHandlerKeepsInv ==
    ASSUME ExtensionInv, server # "exited", NEW r \in Requests, stateHandler(r)
    PROVE  ExtensionInv'
<1>0. req[r].pc = "handling" /\ mu = Nobody /\ UNCHANGED <<server, mu, count, last, clock>>
      /\ req[r] \in RequestRecords /\ RequestOK(req[r]) /\ ExtensionTypeOK
  BY RequestFacts DEF stateHandler, At, state, ExtensionInv
<1>1. \A q \in Requests : ~At(q, "recording")
  BY <1>0, ExtensionAssumption DEF ExtensionInv, MutualExclusion, At
<1>2. \A t \in Topics : /\ last[t].number = count[t]
                        /\ count[t] > 0 => \E q \in Requests : /\ req[q].kind = t /\ req[q].number = count[t]
                                                               /\ req[q].name = last[t].name
  BY <1>1 DEF ExtensionInv, LastIsLatest
<1>3. PICK snap : snap = Snapshot
  OBVIOUS
<1>4. \A s \in snap : SnapshotOK(s)
  BY <1>2, <1>3 DEF Snapshot, SnapshotOK
<1>5. snap \in SUBSET [topic : Topics, count : Nat, last : Texts]
  BY <1>0, <1>3 DEF Snapshot, ExtensionTypeOK
<1>6. PICK c : c = [req[r] EXCEPT !.pc = "respond", !.snapshot = snap, !.status = 1]
  OBVIOUS
<1>7. req' = [req EXCEPT ![r] = c]
  BY <1>3, <1>6 DEF stateHandler
<1>8. c \in RequestRecords /\ c.pc = "respond" /\ c.number = req[r].number /\ c.kind = req[r].kind
      /\ c.name = req[r].name /\ c.snapshot = snap /\ c.verdict = req[r].verdict
      /\ c.writeBy = req[r].writeBy /\ c.accepted = req[r].accepted
  BY <1>0, <1>5, <1>6 DEF RequestRecords
<1>9. RequestOK(c)
  BY <1>0, <1>8 DEF RequestOK
<1> QED
  BY <1>0, <1>4, <1>7, <1>8, <1>9, RequestMoves

LEMMA ConcludeKeepsInv ==
    ASSUME ExtensionInv, server # "exited", NEW r \in Requests, Conclude(r)
    PROVE  ExtensionInv'
<1>0. req[r].pc = "verifying" /\ UNCHANGED <<server, mu, count, last, clock>>
      /\ req[r] \in RequestRecords /\ RequestOK(req[r])
  BY RequestFacts DEF Conclude, At, state
<1>1. PICK c : c = [req[r] EXCEPT !.pc = "respond", !.status = 1, !.verdict = TRUE]
  OBVIOUS
<1>2. req' = [req EXCEPT ![r] = c]
  BY <1>1 DEF Conclude
<1>3. c \in RequestRecords /\ c.pc = "respond" /\ c.number = req[r].number /\ c.kind = req[r].kind
      /\ c.name = req[r].name /\ c.snapshot = req[r].snapshot
      /\ c.budget = req[r].budget /\ c.writeBy = req[r].writeBy /\ c.accepted = req[r].accepted
  BY <1>0, <1>1 DEF RequestRecords
<1>4. RequestOK(c)
  BY <1>0, <1>3 DEF RequestOK
<1> QED
  BY <1>0, <1>2, <1>3, <1>4, RequestMoves

(* Snapshots stay right while no request with a number gets another one. *)
LEMMA SnapshotsStayRight ==
    ASSUME ExtensionTypeOK', \A q \in Requests : \A s \in req[q].snapshot : SnapshotOK(s),
           \A q \in Requests : req'[q].snapshot = req[q].snapshot,
           \A q \in Requests : req[q].number # 0 =>
              /\ req'[q].number = req[q].number /\ req'[q].kind = req[q].kind
              /\ req'[q].name = req[q].name
    PROVE  \A q \in Requests : \A s \in req'[q].snapshot : SnapshotOK(s)'
<1> SUFFICES ASSUME NEW q \in Requests, NEW s \in req'[q].snapshot
             PROVE  SnapshotOK(s)'
  OBVIOUS
<1>1. SnapshotOK(s)
  OBVIOUS
<1>2. s.count \in Nat
  BY DEF ExtensionTypeOK, RequestRecords
<1> QED
  BY <1>1, <1>2 DEF SnapshotOK

(* e.mu.Lock(): the reader of the counter is alone. *)
LEMMA LockKeepsInv ==
    ASSUME ExtensionInv, server # "exited", NEW r \in Requests, Lock(r)
    PROVE  ExtensionInv'
<1>0. /\ ExtensionTypeOK /\ MutualExclusion /\ HolderIsCurrent
      /\ \A q \in Requests : RequestOK(req[q])
      /\ \A t \in Topics : CountsAreRight(t) /\ LastIsLatest(t)
      /\ \A q \in Requests : \A s \in req[q].snapshot : SnapshotOK(s)
  BY DEF ExtensionInv
<1>1. /\ req[r].pc = "lock" /\ mu = Nobody /\ mu' = r /\ UNCHANGED <<server, count, last, clock>>
      /\ req[r].kind \in Topics /\ req[r].name # Nobody /\ req[r].number = 0
      /\ req[r] \in RequestRecords /\ count[req[r].kind] \in Nat /\ ~req[r].verdict
  BY <1>0, RequestFacts DEF Lock, At, RequestOK
<1>2. PICK n \in Nat : n = count[req[r].kind] + 1
  BY <1>1
<1>3. PICK c : c = [req[r] EXCEPT !.pc = "counting", !.number = n]
  OBVIOUS
<1>4. req' = [req EXCEPT ![r] = c]
  BY <1>2, <1>3 DEF Lock
<1>5. c \in RequestRecords /\ c.pc = "counting" /\ c.number = n /\ c.kind = req[r].kind
      /\ c.name = req[r].name /\ c.snapshot = req[r].snapshot /\ c.verdict = req[r].verdict
      /\ c.writeBy = req[r].writeBy /\ c.accepted = req[r].accepted
  BY <1>1, <1>3 DEF RequestRecords
<1>6. /\ req'[r] = c
      /\ \A q \in Requests : q # r => req'[q] = req[q]
  BY <1>0, <1>4 DEF ExtensionTypeOK
<1>7. ExtensionTypeOK'
  BY <1>0, <1>1, <1>4, <1>5 DEF ExtensionTypeOK
<1>8. ASSUME NEW q \in Requests
      PROVE  RequestOK(req[q])'
  <2>1. \A d : RequestOK(d)' <=> RequestOK(d)
    BY <1>1 DEF RequestOK
  <2>2. RequestOK(c)
    <3>1. c.writeBy = c.accepted + ServerWriteTimeout
      BY <1>0, <1>1, <1>5 DEF RequestOK
    <3>2. c.kind \in Topics /\ c.name # Nobody /\ ~c.verdict
      BY <1>1, <1>5 DEF RequestOK, At
    <3> QED
      BY <1>5, <3>1, <3>2 DEF RequestOK
  <2> QED
    BY <1>0, <1>6, <2>1, <2>2
<1>9. MutualExclusion'
  BY <1>0, <1>1, <1>5, <1>6, ExtensionAssumption DEF MutualExclusion
<1>10. \A q \in Requests : ~At(q, "recording") /\ ~At(q, "counting") /\ ~At(q, "recording")'
  BY <1>0, <1>1, <1>5, <1>6, ExtensionAssumption DEF MutualExclusion, At
<1>11. ASSUME NEW t \in Topics
       PROVE  CountsAreRight(t)' /\ LastIsLatest(t)'
  <2>1. Counted(t)' = Counted(t)
    BY <1>1, <1>5, <1>6 DEF Counted, At
  <2>2. r \notin Counted(t)
    BY <1>1 DEF Counted
  <2>3. {req[q].number : q \in Counted(t)}' = {req[q].number : q \in Counted(t)}
    BY <2>1, <2>2, <1>6 DEF Counted
  <2>4. CountsAreRight(t)'
    BY <1>0, <1>1, <2>1, <2>3 DEF CountsAreRight
  <2>5. count[t] \in Nat
    BY <1>0 DEF ExtensionTypeOK
  <2>6. LastIsLatest(t)'
    BY <1>0, <1>1, <1>6, <1>10, <2>5 DEF LastIsLatest
  <2> QED
    BY <2>4, <2>6
<1>12. HolderIsCurrent'
  BY <1>1, <1>2, <1>5, <1>6, <1>10 DEF HolderIsCurrent, At
<1>13. \A q \in Requests : \A s \in req'[q].snapshot : SnapshotOK(s)'
  BY <1>0, <1>1, <1>5, <1>6, <1>7, SnapshotsStayRight
<1> QED
  BY <1>7, <1>8, <1>9, <1>11, <1>12, <1>13 DEF ExtensionInv

(* The counter is written back: one more request has a number, the next.   *)
LEMMA CountKeepsInv ==
    ASSUME ExtensionInv, server # "exited", NEW r \in Requests, Count(r)
    PROVE  ExtensionInv'
<1>0. /\ ExtensionTypeOK /\ MutualExclusion /\ HolderIsCurrent
      /\ \A q \in Requests : RequestOK(req[q])
      /\ \A t \in Topics : CountsAreRight(t) /\ LastIsLatest(t)
      /\ \A q \in Requests : \A s \in req[q].snapshot : SnapshotOK(s)
  BY DEF ExtensionInv
<1>1. /\ req[r].pc = "counting" /\ mu = r /\ UNCHANGED <<server, mu, last, clock>>
      /\ req[r].kind \in Topics /\ req[r].name # Nobody
      /\ req[r] \in RequestRecords /\ count[req[r].kind] \in Nat
      /\ req[r].number = count[req[r].kind] + 1 /\ req[r].number \in Nat
      /\ count' = [count EXCEPT ![req[r].kind] = req[r].number]
  BY <1>0, RequestFacts DEF Count, At, RequestOK, MutualExclusion, HolderIsCurrent
<1>2. PICK c : c = [req[r] EXCEPT !.pc = "recording"]
  OBVIOUS
<1>3. req' = [req EXCEPT ![r] = c]
  BY <1>2 DEF Count, Goes
<1>4. c \in RequestRecords /\ c.pc = "recording" /\ c.number = req[r].number /\ c.kind = req[r].kind
      /\ c.name = req[r].name /\ c.snapshot = req[r].snapshot /\ c.verdict = req[r].verdict
      /\ c.budget = req[r].budget /\ c.writeBy = req[r].writeBy /\ c.accepted = req[r].accepted
  BY <1>1, <1>2 DEF RequestRecords
<1>5. /\ req'[r] = c
      /\ \A q \in Requests : q # r => req'[q] = req[q]
  BY <1>0, <1>3 DEF ExtensionTypeOK
<1>6. ExtensionTypeOK'
  BY <1>0, <1>1, <1>3, <1>4 DEF ExtensionTypeOK
<1>7. ASSUME NEW q \in Requests
      PROVE  RequestOK(req[q])'
  <2>1. \A d : RequestOK(d)' <=> RequestOK(d)
    BY <1>1 DEF RequestOK
  <2>2. RequestOK(req[r])
    BY <1>0
  <2>3. RequestOK(c)
    BY <2>2, <1>1, <1>4 DEF RequestOK
  <2> QED
    BY <1>0, <1>5, <2>1, <2>3
<1>8. MutualExclusion'
  BY <1>0, <1>1, <1>4, <1>5 DEF MutualExclusion
<1>9. \A q \in Requests : q # r => ~At(q, "recording") /\ ~At(q, "counting")
  BY <1>0, <1>1 DEF MutualExclusion, At
<1>10. ASSUME NEW t \in Topics
       PROVE  CountsAreRight(t)' /\ LastIsLatest(t)'
  <2>1. CASE t = req[r].kind
    <3>1. Counted(t)' = Counted(t) \cup {r} /\ r \notin Counted(t)
      BY <1>1, <1>4, <1>5, <2>1 DEF Counted, At
    <3>f. IsFiniteSet(Counted(t)) /\ Cardinality(Counted(t)) = count[t]
      BY <1>0 DEF CountsAreRight
    <3>a. /\ IsFiniteSet(Counted(t) \cup {r})
          /\ Cardinality(Counted(t) \cup {r}) = Cardinality(Counted(t)) + 1
      BY <3>1, <3>f, FS_AddElement
    <3>2. IsFiniteSet(Counted(t)') /\ Cardinality(Counted(t)') = count[t] + 1
      BY <3>1, <3>f, <3>a
    <3>3. count'[t] = count[t] + 1 /\ count[t] \in Nat
      BY <1>0, <1>1, <2>1 DEF ExtensionTypeOK
    <3>4. {req[q].number : q \in Counted(t)}' = {req[q].number : q \in Counted(t)} \cup {count[t] + 1}
      BY <1>1, <1>4, <1>5, <2>1, <3>1 DEF Counted
    <3>5. 1..(count[t] + 1) = 1..count[t] \cup {count[t] + 1}
      BY <3>3
    <3>6. CountsAreRight(t)'
      BY <1>0, <3>2, <3>3, <3>4, <3>5 DEF CountsAreRight
    <3>7. At(r, "recording")' /\ req'[r].kind = t
      BY <1>4, <1>5, <2>1 DEF At
    <3> QED
      BY <3>6, <3>7 DEF LastIsLatest
  <2>2. CASE t # req[r].kind
    <3>1. r \notin Counted(t) /\ r \notin Counted(t)'
      BY <1>4, <1>5, <2>2 DEF Counted
    <3>e. Counted(t)' = Counted(t)
      BY <3>1, <1>5 DEF Counted, At
    <3>2. {req[q].number : q \in Counted(t)}' = {req[q].number : q \in Counted(t)}
      BY <3>1, <3>e, <1>5 DEF Counted
    <3>3. count'[t] = count[t] /\ count[t] \in Nat
      BY <1>0, <1>1, <2>2 DEF ExtensionTypeOK
    <3>4. CountsAreRight(t)'
      BY <1>0, <3>e, <3>2, <3>3 DEF CountsAreRight
    <3>5. \A q \in Requests : ~(At(q, "recording") /\ req[q].kind = t)
      BY <1>1, <1>9 DEF At
    <3>6. LastIsLatest(t)'
      BY <1>0, <1>1, <1>4, <1>5, <3>3, <3>5 DEF LastIsLatest
    <3> QED
      BY <3>4, <3>6
  <2> QED
    BY <2>1, <2>2
<1>11. HolderIsCurrent'
  <2>1. count'[c.kind] = c.number
    BY <1>0, <1>1, <1>4 DEF ExtensionTypeOK
  <2> QED
    BY <1>4, <1>5, <1>9, <2>1 DEF HolderIsCurrent, At
<1>12. \A q \in Requests : \A s \in req'[q].snapshot : SnapshotOK(s)'
  BY <1>0, <1>4, <1>5, <1>6, SnapshotsStayRight
<1> QED
  BY <1>6, <1>7, <1>8, <1>10, <1>11, <1>12 DEF ExtensionInv

(* The text is written and the lock released: count and text agree again.  *)
LEMMA RecordKeepsInv ==
    ASSUME ExtensionInv, server # "exited", NEW r \in Requests, Record(r)
    PROVE  ExtensionInv'
<1>0. /\ ExtensionTypeOK /\ MutualExclusion /\ HolderIsCurrent
      /\ \A q \in Requests : RequestOK(req[q])
      /\ \A t \in Topics : CountsAreRight(t) /\ LastIsLatest(t)
      /\ \A q \in Requests : \A s \in req[q].snapshot : SnapshotOK(s)
  BY DEF ExtensionInv
<1>1. /\ req[r].pc = "recording" /\ mu = r /\ mu' = Nobody /\ UNCHANGED <<server, count, clock>>
      /\ req[r].kind \in Topics /\ req[r] \in RequestRecords
      /\ req[r].number = count[req[r].kind]
  BY <1>0, RequestFacts DEF Record, At, RequestOK, MutualExclusion, HolderIsCurrent
<1>2. PICK text \in Texts : text = [name |-> req[r].name, number |-> req[r].number]
  BY <1>1 DEF Texts, RequestRecords
<1>3. last' = [last EXCEPT ![req[r].kind] = text] /\ text.name = req[r].name /\ text.number = req[r].number
  BY <1>2 DEF Record
<1>4. PICK c : c = [req[r] EXCEPT !.pc = "respond", !.status = 1]
  OBVIOUS
<1>5. req' = [req EXCEPT ![r] = c]
  BY <1>4 DEF Record, buildResult
<1>6. c \in RequestRecords /\ c.pc = "respond" /\ c.number = req[r].number /\ c.kind = req[r].kind
      /\ c.name = req[r].name /\ c.snapshot = req[r].snapshot /\ c.verdict = req[r].verdict
      /\ c.budget = req[r].budget /\ c.writeBy = req[r].writeBy /\ c.accepted = req[r].accepted
  BY <1>1, <1>4 DEF RequestRecords
<1>7. /\ req'[r] = c
      /\ \A q \in Requests : q # r => req'[q] = req[q]
  BY <1>0, <1>5 DEF ExtensionTypeOK
<1>8. ExtensionTypeOK'
  BY <1>0, <1>1, <1>3, <1>5, <1>6 DEF ExtensionTypeOK
<1>9. ASSUME NEW q \in Requests
      PROVE  RequestOK(req[q])'
  <2>1. \A d : RequestOK(d)' <=> RequestOK(d)
    BY <1>1 DEF RequestOK
  <2>2. RequestOK(req[r])
    BY <1>0
  <2>3. RequestOK(c)
    BY <2>2, <1>1, <1>6 DEF RequestOK
  <2> QED
    BY <1>0, <1>7, <2>1, <2>3
<1>10. MutualExclusion'
  BY <1>0, <1>1, <1>6, <1>7, ExtensionAssumption DEF MutualExclusion
<1>11. \A q \in Requests : q # r => ~At(q, "recording") /\ ~At(q, "counting")
  BY <1>0, <1>1 DEF MutualExclusion, At
<1>12. ASSUME NEW t \in Topics
       PROVE  CountsAreRight(t)' /\ LastIsLatest(t)'
  <2>1. Counted(t)' = Counted(t)
    BY <1>1, <1>6, <1>7 DEF Counted, At
  <2>2. {req[q].number : q \in Counted(t)}' = {req[q].number : q \in Counted(t)}
    BY <2>1, <1>6, <1>7 DEF Counted
  <2>3. CountsAreRight(t)'
    BY <1>0, <1>1, <2>1, <2>2 DEF CountsAreRight
  <2>4. CASE t = req[r].kind
    <3>1. last'[t] = text
      BY <1>0, <1>3, <2>4 DEF ExtensionTypeOK
    <3> QED
      BY <1>1, <1>3, <1>6, <1>7, <2>3, <2>4, <3>1 DEF LastIsLatest
  <2>5. CASE t # req[r].kind
    <3>1. last'[t] = last[t]
      BY <1>0, <1>3, <2>5 DEF ExtensionTypeOK
    <3>2. \A q \in Requests : ~(At(q, "recording") /\ req[q].kind = t)
      BY <1>11, <2>5
    <3>3. LastIsLatest(t)'
      BY <1>0, <1>1, <1>6, <1>7, <3>1, <3>2 DEF LastIsLatest
    <3> QED
      BY <2>3, <3>3
  <2> QED
    BY <2>4, <2>5
<1>13. HolderIsCurrent'
  BY <1>6, <1>7, <1>11 DEF HolderIsCurrent, At
<1>14. \A q \in Requests : \A s \in req'[q].snapshot : SnapshotOK(s)'
  BY <1>0, <1>6, <1>7, <1>8, SnapshotsStayRight
<1> QED
  BY <1>8, <1>9, <1>10, <1>12, <1>13, <1>14 DEF ExtensionInv

(* The process ends: nothing is left of counters, texts and the lock. *)
LEMMA ExitKeepsInv ==
    ASSUME ExtensionInv, Exit
    PROVE  ExtensionInv'
<1>0. ExtensionTypeOK /\ MutualExclusion /\ \A q \in Requests : RequestOK(req[q])
  BY DEF ExtensionInv
<1>1. \A q \in Requests : req'[q] = IF InFlight(q) THEN [req[q] EXCEPT !.pc = "lost"] ELSE req[q]
  BY DEF Exit
<1>2. ASSUME NEW q \in Requests
      PROVE  /\ req'[q] \in RequestRecords /\ RequestOK(req[q])'
             /\ req'[q].pc \notin {"counting", "recording"}
  <2>0. req[q] \in RequestRecords /\ RequestOK(req[q])
    BY <1>0, RequestFacts
  <2>1. \A d : RequestOK(d)' <=> RequestOK(d)
    BY DEF Exit, RequestOK
  <2>2. PICK c : c = [req[q] EXCEPT !.pc = "lost"]
    OBVIOUS
  <2>3. c \in RequestRecords /\ c.pc = "lost" /\ c.number = req[q].number /\ c.kind = req[q].kind
        /\ c.verdict = req[q].verdict /\ c.budget = req[q].budget /\ c.writeBy = req[q].writeBy /\ c.accepted = req[q].accepted
    BY <2>0, <2>2 DEF RequestRecords
  <2>4. ASSUME InFlight(q)
        PROVE  RequestOK(c)
    <3>1. req[q].pc # "idle"
      BY <2>4 DEF InFlight
    <3>2. c.writeBy = c.accepted + ServerWriteTimeout
      BY <2>0, <2>3, <3>1 DEF RequestOK
    <3>3. c.number # 0 => c.kind \in Topics
      BY <2>0, <2>3 DEF RequestOK
    <3> QED
      BY <2>3, <3>2, <3>3 DEF RequestOK
  <2>5. CASE InFlight(q)
    BY <2>1, <2>2, <2>3, <2>4, <2>5, <1>1
  <2>6. CASE ~InFlight(q)
    BY <2>0, <2>1, <2>6, <1>1 DEF InFlight
  <2> QED
    BY <2>5, <2>6
<1>3. [name |-> Nobody, number |-> 0] \in Texts
  BY DEF Texts, RequestNames
<1>4. ExtensionTypeOK'
  BY <1>0, <1>2, <1>3 DEF Exit, ExtensionTypeOK
<1>5. MutualExclusion'
  BY <1>2, ExtensionAssumption DEF MutualExclusion, Exit
<1>6. server' = "exited"
  BY DEF Exit
<1> QED
  BY <1>2, <1>4, <1>5, <1>6 DEF ExtensionInv

LEMMA TickKeepsInv ==
    ASSUME ExtensionInv, Tick
    PROVE  ExtensionInv'
<1>1. clock' = clock + 1 /\ clock \in Nat /\ UNCHANGED <<server, mu, count, last, req>>
  BY DEF Tick, state, ExtensionInv, ExtensionTypeOK
<1>2. \A q \in Requests : RequestOK(req[q])'
  BY <1>1 DEF ExtensionInv, RequestOK
<1>3. ExtensionTypeOK'
  BY <1>1 DEF ExtensionInv, ExtensionTypeOK
<1>4. MutualExclusion'
  BY <1>1 DEF ExtensionInv, MutualExclusion
<1>5. \A t \in Topics : /\ CountsAreRight(t) => CountsAreRight(t)'
                        /\ LastIsLatest(t) => LastIsLatest(t)'
  BY <1>1 DEF CountsAreRight, LastIsLatest, Counted, At
<1>6. HolderIsCurrent => HolderIsCurrent'
  BY <1>1 DEF HolderIsCurrent, At
<1>7. \A s : SnapshotOK(s) => SnapshotOK(s)'
  BY <1>1 DEF SnapshotOK
<1> QED
  BY <1>1, <1>2, <1>3, <1>4, <1>5, <1>6, <1>7 DEF ExtensionInv

(* The server starts, panics or drains, or nothing happens. *)
LEMMA ServerMovesKeepsInv ==
    ASSUME ExtensionInv, UNCHANGED <<mu, count, last, req, clock>>,
           server' \in {"serving", "panicked", "draining"} \/ server' = server,
           server # "exited" \/ server' = server
    PROVE  ExtensionInv'
<1>1. ExtensionTypeOK'
  BY DEF ExtensionInv, ExtensionTypeOK
<1>2. \A q \in Requests : RequestOK(req[q])'
  BY DEF ExtensionInv, RequestOK
<1>3. MutualExclusion'
  BY DEF ExtensionInv, MutualExclusion
<1>4. \A t \in Topics : /\ CountsAreRight(t) => CountsAreRight(t)'
                        /\ LastIsLatest(t) => LastIsLatest(t)'
  BY DEF CountsAreRight, LastIsLatest, Counted, At
<1>5. HolderIsCurrent => HolderIsCurrent'
  BY DEF HolderIsCurrent, At
<1>6. \A s : SnapshotOK(s) => SnapshotOK(s)'
  BY DEF SnapshotOK
<1> QED
  BY <1>1, <1>2, <1>3, <1>4, <1>5, <1>6 DEF ExtensionInv

LEMMA ExtensionInvStep ==
    ASSUME ExtensionInv, [ExtensionNext]_extVars
    PROVE  ExtensionInv'
<1>1. CASE ListenAndServe
  BY <1>1, ServerMovesKeepsInv DEF ListenAndServe, state
<1>2. ASSUME NEW r \in Requests, Accept(r)
      PROVE  ExtensionInv'
  BY <1>2, AcceptKeepsInv
<1>3. ASSUME Alive, NEW r \in Requests, ReadBody(r) \/ Handle(r) \/ GetJobHangs(r)
      PROVE  ExtensionInv'
  <2>0. server # "exited"
    BY <1>3 DEF Alive
  <2>1. CASE GetJob(r) \/ GetJobHangs(r)
    <3>1. req[r].pc = "getJob" /\ UNCHANGED <<server, mu, count, last, clock>>
      BY <2>1 DEF GetJob, GetJobHangs, At, state
    <3>2. Goes(r, "verifying") \/ Goes(r, "hung") \/ buildResult(r, 0)
      BY <2>1 DEF GetJob, GetJobHangs
    <3> QED
      BY <2>0, <3>1, <3>2, GoesKeepsInv, BuildResultKeepsInv
  <2>2. CASE Write(r)
    <3>1. req[r].pc = "respond" /\ UNCHANGED <<server, mu, count, last, clock>>
      BY <2>2 DEF Write, At, state
    <3>2. Goes(r, "answered") \/ Goes(r, "lost")
      BY <2>2 DEF Write
    <3> QED
      BY <2>0, <3>1, <3>2, GoesKeepsInv
  <2>3. CASE ReadBody(r) \/ ReadTimesOut(r)
    <3>1. req[r].pc = "reading" /\ UNCHANGED <<server, mu, count, last, clock>>
      BY <2>3 DEF ReadBody, ReadTimesOut, At, state
    <3>2. Goes(r, "handling") \/ buildResult(r, 0)
      BY <2>3 DEF ReadBody, ReadTimesOut
    <3> QED
      BY <2>0, <3>1, <3>2, GoesKeepsInv, BuildResultKeepsInv
  <2> QED
    BY <1>3, <2>0, <2>1, <2>2, <2>3, ActionHandlerKeepsInv, LockKeepsInv, CountKeepsInv, RecordKeepsInv,
       StateHandlerKeepsInv, ConcludeKeepsInv DEF Handle
<1>4. CASE Shutdown
  BY <1>4, ServerMovesKeepsInv DEF Shutdown, state
<1>5. CASE Exit
  BY <1>5, ExitKeepsInv
<1>6. CASE Tick
  BY <1>6, TickKeepsInv
<1>7. CASE UNCHANGED extVars
  BY <1>7, ServerMovesKeepsInv DEF extVars
<1> QED
  BY <1>1, <1>2, <1>3, <1>4, <1>5, <1>6, <1>7 DEF ExtensionNext

LEMMA ExtensionInvariant == ExtensionSpec => []ExtensionInv
BY ExtensionInvInit, ExtensionInvStep, PTL DEF ExtensionSpec

(* processSayHello, processSayGoodbye: however many greetings arrive at    *)
(* once, the numbers given out so far are 1 to the count, each once.       *)
THEOREM GreetingsAreNumberedOnce == ExtensionSpec => []NumbersAreHandedOutOnce
<1>1. ExtensionInv => NumbersAreHandedOutOnce
  BY DEF ExtensionInv, CountsAreRight, Counted, NumbersAreHandedOutOnce
<1> QED
  BY <1>1, ExtensionInvariant, PTL

(* stateHandler: /state never shows a count with another greeting's text.  *)
THEOREM StateShowsOneMoment == ExtensionSpec => []StateIsConsistent
<1>1. ExtensionInv => StateIsConsistent
  BY DEF ExtensionInv, SnapshotOK, StateIsConsistent
<1> QED
  BY <1>1, ExtensionInvariant, PTL

(* actionHandler, Verify: while the process lives, a verdict reached       *)
(* within the attempt's budget is lost to the write deadline only if the   *)
(* request's body took longer than the write timeout exceeds the budget,   *)
(* whatever the three timeouts are.                                        *)
THEOREM PromptRequestsGetVerdicts == ExtensionSpec => PromptRequestGetsItsVerdict
<1>1. ASSUME ExtensionInv, ExtensionNext, NEW r \in Requests,
             HasVerdictInTime(r), server' # "exited",
             req[r].budget - AttemptTotalTimeout - req[r].accepted <= ServerWriteTimeout - AttemptTotalTimeout
      PROVE  req'[r].pc # "lost"
  <2>0. /\ req \in [Requests -> RequestRecords] /\ req[r].pc = "respond"
        /\ clock < req[r].writeBy
    <3>1. /\ clock \in Nat /\ req[r].budget \in Nat /\ req[r].writeBy \in Nat /\ req[r].accepted \in Nat
          /\ clock < req[r].budget /\ req[r].pc = "respond"
          /\ req[r].writeBy = req[r].accepted + ServerWriteTimeout
      BY <1>1, RequestFacts DEF RequestOK, HasVerdictInTime, At
    <3> QED
      BY <1>1, <3>1, ExtensionAssumption DEF ExtensionInv, ExtensionTypeOK
  <2>1. CASE UNCHANGED req
    BY <2>0, <2>1
  <2>2. ASSUME NEW q \in Requests, Accept(q) \/ ReadBody(q) \/ Handle(q) \/ GetJobHangs(q)
        PROVE  req'[r].pc # "lost"
    <3>1. CASE q = r
      <4>1. Write(r)
        BY <2>0, <2>2, <3>1 DEF Accept, ReadBody, ReadTimesOut, Handle, GetJobHangs, actionHandler, Lock, Count, Record,
           stateHandler, GetJob, Conclude, At
      <4>2. Goes(r, "answered")
        BY <2>0, <4>1 DEF Write
      <4> QED
        BY <2>0, <4>2 DEF Goes
    <3>2. CASE q # r
      <4>1. req'[r] = req[r]
        BY <2>0, <2>2, <3>2 DEF Accept, ReadBody, ReadTimesOut, Handle, GetJobHangs, actionHandler, Lock, Count, Record,
           stateHandler, GetJob, Conclude, Write, Goes, buildResult
      <4> QED
        BY <2>0, <4>1
    <3> QED
      BY <3>1, <3>2
  <2> QED
    BY <1>1, <2>1, <2>2 DEF ExtensionNext, ListenAndServe, Shutdown, Exit, Tick
<1>2. ExtensionInv /\ [ExtensionNext]_extVars =>
         [\A r \in Requests :
             LET bodyTook == req[r].budget - AttemptTotalTimeout - req[r].accepted IN
             /\ HasVerdictInTime(r) /\ server' # "exited"
             /\ bodyTook <= ServerWriteTimeout - AttemptTotalTimeout
             => req'[r].pc # "lost"]_extVars
  BY <1>1
<1> QED
  BY <1>2, ExtensionInvariant, PTL DEF ExtensionSpec, PromptRequestGetsItsVerdict
-----------------------------------------------------------------------------
(* SelectVectors (module VectorSelection).  The inductive invariant is     *)
(* that the whole slice, not only the part already drawn, remains a        *)
(* permutation.                                                            *)
Permuted == \A a, b \in 0..vectorCount - 1 : a # b => indices[a] # indices[b]

SelectionInv == TypeOK /\ Permuted

LEMMA LimitIsSelection ==
    ASSUME TypeOK
    PROVE  limit = selectionCount
BY LimitAssumption DEF TypeOK, limit

LEMMA SelectionInit == Init => SelectionInv
<1> SUFFICES ASSUME Init PROVE SelectionInv
  OBVIOUS
<1>1. draws \in Seq(0..vectorCount - 1) /\ Len(draws) = 0
  BY DEF Init
<1> QED
  BY <1>1 DEF Init, SelectionInv, TypeOK, Permuted, ValidCounts

LEMMA SwapPermutes ==
    ASSUME NEW n \in Nat, NEW f \in [0..n - 1 -> 0..n - 1], NEW x \in 0..n - 1, NEW y \in 0..n - 1,
           \A a, b \in 0..n - 1 : a # b => f[a] # f[b]
    PROVE  /\ Swap(f, x, y) \in [0..n - 1 -> 0..n - 1]
           /\ \A a, b \in 0..n - 1 : a # b => Swap(f, x, y)[a] # Swap(f, x, y)[b]
BY DEF Swap

LEMMA SelectionStep == SelectionInv /\ [Next]_vars => SelectionInv'
<1> SUFFICES ASSUME SelectionInv, [Next]_vars PROVE SelectionInv'
  OBVIOUS
<1>1. CASE Draw
  <2>1. PICK residue \in 0..Remaining(i) - 1 :
           /\ indices' = Swap(indices, i, Position(i, residue))
           /\ draws' = Append(draws, residue)
    BY <1>1 DEF Draw
  <2>2. TypeOK /\ limit = selectionCount
    BY LimitIsSelection DEF SelectionInv
  <2>3. /\ vectorCount \in Nat /\ selectionCount \in Nat /\ i \in Nat
        /\ selectionCount <= vectorCount
    BY <2>2, LimitAssumption DEF TypeOK
  <2>4. /\ vectorCount' = vectorCount /\ selectionCount' = selectionCount
        /\ i' = i + 1 /\ i < selectionCount
    BY <1>1, <2>2 DEF Draw
  <2>5. /\ i \in 0..vectorCount - 1 /\ Position(i, residue) \in 0..vectorCount - 1
        /\ residue \in 0..vectorCount - 1
    BY <2>3, <2>4 DEF Remaining, Position
  <2> DEFINE g == Swap(indices, i, Position(i, residue))
  <2>6. /\ g \in [0..vectorCount - 1 -> 0..vectorCount - 1]
        /\ \A a, b \in 0..vectorCount - 1 : a # b => g[a] # g[b]
    <3>1. /\ indices \in [0..vectorCount - 1 -> 0..vectorCount - 1]
          /\ \A a, b \in 0..vectorCount - 1 : a # b => indices[a] # indices[b]
      BY <2>2 DEF SelectionInv, TypeOK, Permuted
    <3> QED
      BY <2>3, <2>5, <3>1, SwapPermutes
  <2>7. draws' \in Seq(0..vectorCount - 1) /\ Len(draws') = i + 1
    <3>1. draws \in Seq(0..vectorCount - 1) /\ Len(draws) = i
      BY <2>2 DEF TypeOK
    <3> QED
      BY <2>1, <2>5, <3>1
  <2> HIDE DEF g
  <2>8. Permuted'
    BY <2>1, <2>4, <2>6 DEF Permuted, g
  <2>9. TypeOK'
    <3>1. indices' = g
      BY <2>1 DEF g
    <3>2. i' \in 0..selectionCount
      BY <2>3, <2>4
    <3> QED
      BY <2>2, <2>4, <2>6, <2>7, <3>1, <3>2 DEF TypeOK
  <2> QED
    BY <2>8, <2>9 DEF SelectionInv
<1>2. CASE UNCHANGED vars
  BY <1>2 DEF vars, SelectionInv, TypeOK, Permuted
<1> QED
  BY <1>1, <1>2 DEF Next

LEMMA SelectionInvariant == Spec => []SelectionInv
<1> QED
  BY SelectionInit, SelectionStep, PTL DEF Spec

(* SelectVectors never leaves its slice and selects no more than the       *)
(* declared number of vectors.                                             *)
THEOREM SelectionTypeCorrect == Spec => []TypeOK
<1>1. SelectionInv => TypeOK
  BY DEF SelectionInv
<1> QED
  BY <1>1, SelectionInvariant, PTL

(* SelectVectors selects no test twice, for every seed and all counts. *)
THEOREM SelectionDistinct == Spec => []SelectedDistinct
<1>1. SelectionInv => SelectedDistinct
  BY LimitAssumption DEF SelectionInv, TypeOK, Permuted, SelectedDistinct
<1> QED
  BY <1>1, SelectionInvariant, PTL
-----------------------------------------------------------------------------
(* That no selection is favoured is shown by induction over the draws, in  *)
(* the form of a least counterexample.                                     *)
LEMMA LeastNumber ==
    ASSUME NEW S \in SUBSET Nat, S # {}
    PROVE  \E x \in S : \A y \in S : x <= y
<1> DEFINE R == {ss \in Nat \X Nat : ss[1] < ss[2]}
<1>1. IsWellFoundedOn(R, Nat)
  BY NatLessThanWellFounded, Zenon DEF OpToRel
<1>2. PICK x \in S : \A y \in S : ~(<<y, x>> \in R)
  BY <1>1, WFMin, Zenon
<1>3. ASSUME NEW y \in S PROVE x <= y
  <2>1. <<y, x>> \notin R
    BY <1>2
  <2>2. x \in Nat /\ y \in Nat /\ ~(y < x)
    BY <2>1
  <2> QED
    BY <2>2
<1> QED
  BY <1>3

Identity(V) == [k \in 0..V - 1 |-> k]

(* The slice after each of the first L draws of d. *)
Stages(a, d, L, V) ==
    a = [n \in 0..L |-> IF n = 0 THEN Identity(V) ELSE Swap(a[n - 1], n - 1, Position(n - 1, d[n]))]

LEMMA StagesAre ==
    ASSUME NEW a, NEW d, NEW L \in Nat, NEW V, Stages(a, d, L, V)
    PROVE  /\ DOMAIN a = 0..L
           /\ a[0] = Identity(V)
           /\ \A n \in 1..L : a[n] = Swap(a[n - 1], n - 1, Position(n - 1, d[n]))
<1>1. \A n \in 0..L : a[n] = IF n = 0 THEN Identity(V) ELSE Swap(a[n - 1], n - 1, Position(n - 1, d[n]))
  BY DEF Stages
<1> QED
  BY <1>1 DEF Stages

LEMMA LastStage ==
    ASSUME NEW a, NEW d, NEW n \in Nat, NEW V, Stages(a, d, n + 1, V)
    PROVE  a[n + 1] = Swap(a[n], n, Position(n, d[n + 1]))
<1>1. PICK L \in Nat : L = n + 1
  OBVIOUS
<1>2. \A k \in 1..L : a[k] = Swap(a[k - 1], k - 1, Position(k - 1, d[k]))
  BY <1>1, StagesAre
<1>3. L \in 1..L /\ L - 1 = n
  BY <1>1
<1> QED
  BY <1>1, <1>2, <1>3

(* Sequences of draws that begin alike lead through the same slices. *)
LEMMA StagesUnique ==
    ASSUME NEW L \in Nat, NEW V, NEW a, NEW b, NEW d, NEW e, NEW n \in 0..L,
           Stages(a, d, L, V), Stages(b, e, n, V), \A k \in 1..n : d[k] = e[k]
    PROVE  \A k \in 0..n : a[k] = b[k]
<1> DEFINE S == {k \in 0..n : a[k] # b[k]}
<1>1. a[0] = Identity(V) /\ \A k \in 1..L : a[k] = Swap(a[k - 1], k - 1, Position(k - 1, d[k]))
  BY StagesAre
<1>2. b[0] = Identity(V) /\ \A k \in 1..n : b[k] = Swap(b[k - 1], k - 1, Position(k - 1, e[k]))
  BY StagesAre
<1>3. n \in Nat /\ n <= L /\ S \in SUBSET Nat
  OBVIOUS
<1>4. CASE S = {}
  BY <1>4
<1>5. CASE S # {}
  <2>1. PICK x \in S : \A y \in S : x <= y
    BY <1>3, <1>5, LeastNumber
  <2>2. x # 0 /\ x \in 0..n
    BY <1>1, <1>2, <2>1
  <2>3. x \in 1..n /\ x - 1 \in 0..n /\ x \in 1..L
    BY <1>3, <2>2
  <2>4. x - 1 \notin S
    BY <2>1, <2>3
  <2>5. a[x - 1] = b[x - 1]
    BY <2>3, <2>4
  <2>6. a[x] = Swap(a[x - 1], x - 1, Position(x - 1, d[x]))
    BY <1>1, <2>3
  <2>7. b[x] = Swap(b[x - 1], x - 1, Position(x - 1, e[x]))
    BY <1>2, <2>3
  <2>8. d[x] = e[x]
    BY <2>3
  <2>9. a[x] = b[x]
    BY <2>5, <2>6, <2>7, <2>8
  <2> QED
    BY <2>1, <2>9
<1> QED
  BY <1>4, <1>5

LEMMA StagesExtend ==
    ASSUME NEW L \in Nat, NEW V, NEW a, NEW d, Stages(a, d, L, V)
    PROVE  \E b : Stages(b, d, L + 1, V)
<1>1. PICK b : b = [n \in 0..L + 1 |-> IF n = L + 1 THEN Swap(a[L], L, Position(L, d[L + 1])) ELSE a[n]]
  OBVIOUS
<1>2. \A n \in 0..L : b[n] = a[n]
  BY <1>1
<1>3. ASSUME NEW n \in 0..L + 1
      PROVE  b[n] = IF n = 0 THEN Identity(V) ELSE Swap(b[n - 1], n - 1, Position(n - 1, d[n]))
  <2>1. CASE n = L + 1
    <3>1. b[n] = Swap(a[L], L, Position(L, d[L + 1])) /\ n # 0 /\ n - 1 = L /\ b[L] = a[L]
      BY <1>1, <1>2, <2>1
    <3> QED
      BY <2>1, <3>1
  <2>2. CASE n # L + 1 /\ n # 0
    <3>1. n \in 1..L /\ n - 1 \in 0..L /\ n \in 0..L
      BY <2>2
    <3>2. a[n] = Swap(a[n - 1], n - 1, Position(n - 1, d[n]))
      BY <3>1, StagesAre
    <3>3. b[n] = a[n] /\ b[n - 1] = a[n - 1]
      BY <1>2, <3>1
    <3> QED
      BY <2>2, <3>2, <3>3
  <2>3. CASE n # L + 1 /\ n = 0
    <3>1. a[0] = Identity(V)
      BY StagesAre
    <3>2. b[0] = a[0]
      BY <1>2
    <3> QED
      BY <2>3, <3>1, <3>2
  <2> QED
    BY <2>1, <2>2, <2>3
<1>4. Stages(b, d, L + 1, V)
  BY <1>1, <1>3 DEF Stages
<1> QED
  BY <1>4

LEMMA StagesExist ==
    ASSUME NEW L \in Nat, NEW V, NEW d
    PROVE  \E a : Stages(a, d, L, V)
<1> DEFINE S == {n \in Nat : ~ \E a : Stages(a, d, n, V)}
<1>1. CASE S = {}
  BY <1>1
<1>2. CASE S # {}
  <2>1. PICK x \in S : \A y \in S : x <= y
    BY <1>2, LeastNumber
  <2>2. x # 0
    <3>1. PICK a : a = [n \in 0..0 |-> Identity(V)]
      OBVIOUS
    <3>2. a = [n \in 0..0 |-> IF n = 0 THEN Identity(V) ELSE Swap(a[n - 1], n - 1, Position(n - 1, d[n]))]
      BY <3>1
    <3>3. Stages(a, d, 0, V)
      BY <3>2 DEF Stages
    <3> QED
      BY <2>1, <3>3
  <2>3. x - 1 \in Nat /\ x - 1 \notin S /\ x = (x - 1) + 1
    BY <2>1, <2>2
  <2>4. \E a : Stages(a, d, x - 1, V)
    BY <2>3
  <2>5. \E a : Stages(a, d, (x - 1) + 1, V)
    BY <2>3, <2>4, StagesExtend
  <2> QED
    BY <2>1, <2>3, <2>5
<1> QED
  BY <1>1, <1>2

(* The recursive function in Replay is defined. *)
LEMMA ReplayStages ==
    ASSUME NEW d, Len(d) \in Nat
    PROVE  \E a : /\ Stages(a, d, Len(d), vectorCount)
                  /\ Replay(d) = [k \in 0..Len(d) - 1 |-> a[Len(d)][k]]
<1>1. PICK a : Stages(a, d, Len(d), vectorCount)
  BY StagesExist
<1> DEFINE after[n \in 0..Len(d)] == IF n = 0 THEN [k \in 0..vectorCount - 1 |-> k]
          ELSE Swap(after[n - 1], n - 1, Position(n - 1, d[n]))
<1>2. after = [n \in 0..Len(d) |-> IF n = 0 THEN [k \in 0..vectorCount - 1 |-> k]
          ELSE Swap(after[n - 1], n - 1, Position(n - 1, d[n]))]
  BY <1>1, Zenon DEF Stages, Identity
<1>3. Stages(after, d, Len(d), vectorCount)
  BY <1>2, Zenon DEF Stages, Identity
<1>4. Replay(d) = [k \in 0..Len(d) - 1 |-> after[Len(d)][k]]
  BY Zenon DEF Replay
<1> QED
  BY <1>3, <1>4, Zenon

LEMMA StagesDomain ==
    ASSUME NEW L \in Nat, NEW V, NEW a, NEW d, Stages(a, d, L, V), NEW n \in 0..L
    PROVE  DOMAIN a[n] = 0..V - 1
<1> DEFINE S == {k \in 0..L : DOMAIN a[k] # 0..V - 1}
<1>1. a[0] = Identity(V)
  BY StagesAre
<1>2. \A k \in 1..L : a[k] = Swap(a[k - 1], k - 1, Position(k - 1, d[k]))
  BY StagesAre
<1>3. S \in SUBSET Nat
  OBVIOUS
<1>4. CASE S = {}
  BY <1>4
<1>5. CASE S # {}
  <2>1. PICK x \in S : \A y \in S : x <= y
    BY <1>3, <1>5, LeastNumber
  <2>2. x # 0
    BY <1>1, <2>1 DEF Identity
  <2>3. x \in 1..L /\ x - 1 \in 0..L
    BY <2>1, <2>2
  <2>4. x - 1 \notin S
    BY <2>1, <2>3
  <2>5. DOMAIN a[x - 1] = 0..V - 1
    BY <2>3, <2>4
  <2>6. DOMAIN a[x] = DOMAIN a[x - 1]
    BY <1>2, <2>3 DEF Swap
  <2> QED
    BY <2>1, <2>5, <2>6
<1> QED
  BY <1>4, <1>5

LEMMA ReplayStays ==
    ASSUME NEW d, vectorCount' = vectorCount
    PROVE  Replay(d)' = Replay(d)
BY DEF Replay

LEMMA SequenceLength ==
    ASSUME NEW n \in Nat, NEW S, NEW d \in [1..n -> S]
    PROVE  d \in Seq(S) /\ Len(d) = n
OBVIOUS

(* What the draws so far have done to the slice. *)
DrawsLead == \E a : Stages(a, draws, i, vectorCount) /\ a[i] = indices

UnbiasedInv ==
    /\ SelectionInv
    /\ draws \in DrawSequences(i)
    /\ DrawsLead
    /\ NoSelectionFavoured

LEMMA UnbiasedInit == Init => UnbiasedInv
<1> SUFFICES ASSUME Init PROVE UnbiasedInv
  OBVIOUS
<1>1. i = 0 /\ draws = <<>> /\ indices = Identity(vectorCount)
  BY DEF Init, Identity
<1>2. SelectionInv
  BY SelectionInit
<1>3. \A d \in DrawSequences(0) : d = <<>>
  BY DEF DrawSequences
<1>4. <<>> \in DrawSequences(0)
  BY DEF DrawSequences
<1>5. PICK a : Stages(a, draws, 0, vectorCount)
  BY StagesExist
<1>6. a[0] = Identity(vectorCount)
  BY <1>5, StagesAre
<1>7. DrawsLead
  BY <1>1, <1>5, <1>6 DEF DrawsLead
<1> QED
  BY <1>1, <1>2, <1>3, <1>4, <1>7 DEF UnbiasedInv, NoSelectionFavoured

(* If another sequence of draws leads to the same selection, its last draw *)
(* is the one just made, since the rest of it led to the same slice.       *)
LEMMA UnbiasedStep == UnbiasedInv /\ [Next]_vars => UnbiasedInv'
<1> SUFFICES ASSUME UnbiasedInv, [Next]_vars PROVE UnbiasedInv'
  OBVIOUS
<1>1. SelectionInv /\ SelectionInv'
  BY SelectionStep DEF UnbiasedInv
<1>2. CASE UNCHANGED vars
  <2>1. \A d : Replay(d)' = Replay(d)
    BY <1>2, ReplayStays DEF vars
  <2>2. NoSelectionFavoured'
    BY <1>2, <2>1 DEF vars, UnbiasedInv, NoSelectionFavoured, DrawSequences, Remaining
  <2> QED
    BY <1>1, <1>2, <2>2 DEF vars, UnbiasedInv, DrawsLead, DrawSequences, Remaining
<1>3. CASE Draw
  <2>1. PICK residue \in 0..Remaining(i) - 1 :
           /\ indices' = Swap(indices, i, Position(i, residue))
           /\ draws' = Append(draws, residue)
    BY <1>3 DEF Draw
  <2>2. TypeOK /\ limit = selectionCount
    BY <1>1, LimitIsSelection DEF SelectionInv
  <2>3. PICK V \in Nat : V = vectorCount
    BY <2>2, LimitAssumption DEF TypeOK
  <2>4. PICK n \in Nat : n = i
    BY <2>2, LimitAssumption DEF TypeOK
  <2>5. /\ n < V /\ i' = n + 1 /\ vectorCount' = V /\ residue \in 0..V - n - 1 /\ residue \in Nat
        /\ n \in 0..V - 1 /\ n + residue \in 0..V - 1
    BY <1>3, <2>1, <2>2, <2>3, <2>4, LimitAssumption DEF Draw, TypeOK, Remaining
  <2>6. /\ indices \in [0..V - 1 -> 0..V - 1]
        /\ \A a, b \in 0..V - 1 : a # b => indices[a] # indices[b]
    BY <1>1, <2>2, <2>3 DEF TypeOK, SelectionInv, Permuted
  <2>7. indices' = Swap(indices, n, n + residue) /\ DOMAIN indices = 0..V - 1
    BY <2>1, <2>4, <2>6 DEF Position
  <2>8. /\ indices'[n] = indices[n + residue]
        /\ \A k \in 0..n - 1 : indices'[k] = indices[k]
    <3>1. \A k \in 0..n - 1 : k \in 0..V - 1 /\ k \notin {n, n + residue}
      BY <2>5
    <3>2. PICK p \in 0..V - 1 : p = n + residue
      BY <2>5
    <3>3. /\ Swap(indices, n, p)[n] = indices[p]
          /\ \A k \in 0..V - 1 : k \notin {n, p} => Swap(indices, n, p)[k] = indices[k]
      BY <2>5, <2>7 DEF Swap
    <3> QED
      BY <2>7, <3>1, <3>2, <3>3
  <2>9. /\ draws \in [1..n -> 0..V - 1] /\ \A k \in 1..n : draws[k] < V - (k - 1)
    BY <2>3, <2>4 DEF UnbiasedInv, DrawSequences, Remaining
  <2>10. /\ draws' \in [1..n + 1 -> 0..V - 1] /\ draws'[n + 1] = residue
         /\ \A k \in 1..n : draws'[k] = draws[k]
    <3>1. draws \in Seq(0..V - 1) /\ Len(draws) = n
      BY <2>9, SequenceLength
    <3>2. residue \in 0..V - 1
      BY <2>5
    <3>3. draws' \in Seq(0..V - 1) /\ Len(draws') = n + 1
      BY <2>1, <3>1, <3>2
    <3>4. draws'[n + 1] = residue /\ \A k \in 1..n : draws'[k] = draws[k]
      BY <2>1, <3>1, <3>2
    <3>5. draws' \in [1..n + 1 -> 0..V - 1]
      BY <3>3
    <3> QED
      BY <3>4, <3>5
  <2>11. (draws \in DrawSequences(i))'
    <3>1. \A k \in 1..n + 1 : k \in 1..n \/ k = n + 1
      OBVIOUS
    <3>2. residue < V - ((n + 1) - 1)
      BY <2>5
    <3>3. \A k \in 1..n + 1 : draws'[k] < V - (k - 1)
      BY <2>9, <2>10, <3>1, <3>2
    <3> QED
      BY <2>5, <2>10, <3>3 DEF DrawSequences, Remaining
  <2>12. PICK b : Stages(b, draws, n, V) /\ b[n] = indices
    BY <2>3, <2>4 DEF UnbiasedInv, DrawsLead
  <2>13. DrawsLead'
    <3>1. PICK a : Stages(a, draws', n + 1, V)
      BY StagesExist
    <3>2. a[n] = b[n]
      <4>1. \A k \in 1..n : draws'[k] = draws[k]
        BY <2>10
      <4>2. n \in 0..n + 1 /\ n + 1 \in Nat /\ n \in 0..n
        OBVIOUS
      <4>3. \A k \in 0..n : a[k] = b[k]
        BY <2>12, <3>1, <4>1, <4>2, StagesUnique
      <4> QED
        BY <4>2, <4>3
    <3>3. a[n + 1] = Swap(a[n], n, Position(n, draws'[n + 1]))
      BY <3>1, LastStage
    <3>4. a[n + 1] = indices'
      BY <2>1, <2>4, <2>10, <2>12, <3>2, <3>3
    <3> QED
      BY <2>5, <3>1, <3>4 DEF DrawsLead
  <2>14. ASSUME NEW d \in [1..n + 1 -> 0..V - 1], \A k \in 1..n + 1 : d[k] < V - (k - 1),
                Replay(d)' = [k \in 0..n |-> indices'[k]]
         PROVE  d = draws'
    <3>1. Len(d) = n + 1
      BY SequenceLength
    <3>2. PICK a : /\ Stages(a, d, n + 1, V)
                   /\ Replay(d) = [k \in 0..(n + 1) - 1 |-> a[n + 1][k]]
      BY <2>3, <3>1, ReplayStages
    <3>3. \A k \in 0..n : a[n + 1][k] = indices'[k]
      <4>1. Replay(d)' = Replay(d)
        BY <2>3, <2>5, ReplayStays
      <4>2. [k \in 0..n |-> indices'[k]] = [k \in 0..n |-> a[n + 1][k]]
        BY <2>14, <3>2, <4>1
      <4> QED
        BY <4>2
    <3>4. PICK e : e = [k \in 1..n |-> d[k]]
      OBVIOUS
    <3>5. /\ e \in [1..n -> 0..V - 1] /\ Len(e) = n
          /\ \A k \in 1..n : e[k] = d[k] /\ e[k] < V - (k - 1)
      <4>1. e \in [1..n -> 0..V - 1]
        BY <3>4
      <4> QED
        BY <2>14, <3>4, <4>1, SequenceLength
    <3>6. PICK c : /\ Stages(c, e, n, V)
                   /\ Replay(e) = [k \in 0..n - 1 |-> c[n][k]]
      <4>1. Len(e) = n /\ Len(e) \in Nat
        BY <3>5
      <4>2. \E c : /\ Stages(c, e, Len(e), vectorCount)
                   /\ Replay(e) = [k \in 0..Len(e) - 1 |-> c[Len(e)][k]]
        BY <4>1, ReplayStages
      <4> QED
        BY <2>3, <4>1, <4>2
    <3>7. a[n] = c[n]
      <4>1. \A k \in 1..n : d[k] = e[k]
        BY <3>5
      <4>2. n \in 0..n + 1 /\ n + 1 \in Nat /\ n \in 0..n
        OBVIOUS
      <4>3. \A k \in 0..n : a[k] = c[k]
        BY <3>2, <3>6, <4>1, <4>2, StagesUnique
      <4> QED
        BY <4>2, <4>3
    <3>8. d[n + 1] \in Nat /\ n + d[n + 1] \in 0..V - 1
      BY <2>5, <2>14
    <3>9. a[n + 1] = Swap(a[n], n, Position(n, d[n + 1]))
      BY <3>2, LastStage
    <3>10. PICK p \in 0..V - 1 : p = n + d[n + 1]
      BY <3>8
    <3>11. a[n + 1] = Swap(a[n], n, p)
      BY <3>9, <3>10 DEF Position
    <3>12. \A k \in 0..n - 1 : k \in 0..n /\ k \notin {n, p}
      BY <3>8, <3>10
    <3>13. \A k \in 0..n - 1 : a[n + 1][k] = a[n][k]
      <4>1. n \in 0..n + 1 /\ n + 1 \in Nat
        OBVIOUS
      <4>2. DOMAIN a[n] = 0..V - 1
        BY <3>2, <4>1, StagesDomain
      <4>3. \A k \in 0..n - 1 : k \in 0..V - 1
        BY <2>5
      <4>4. \A k \in 0..V - 1 : k \notin {n, p} => Swap(a[n], n, p)[k] = a[n][k]
        BY <2>5, <4>2 DEF Swap
      <4> QED
        BY <3>11, <3>12, <4>3, <4>4
    <3>14. Replay(e) = [k \in 0..i - 1 |-> indices[k]]
      BY <2>4, <2>8, <3>3, <3>6, <3>7, <3>12, <3>13
    <3>15. e = draws
      <4>1. e \in DrawSequences(i)
        BY <2>3, <2>4, <3>5 DEF DrawSequences, Remaining
      <4> QED
        BY <3>14, <4>1 DEF UnbiasedInv, NoSelectionFavoured
    <3>16. a[n] = indices
      <4>1. \A k \in 0..n : c[k] = b[k]
        BY <2>12, <3>6, <3>15, StagesUnique
      <4> QED
        BY <2>12, <3>7, <4>1
    <3>17. a[n + 1][n] = indices[p]
      <4>1. Swap(indices, n, p)[n] = indices[p]
        BY <2>5, <2>7 DEF Swap
      <4> QED
        BY <3>11, <3>16, <4>1
    <3>18. p = n + residue
      <4>1. n \in 0..n /\ a[n + 1][n] = indices'[n]
        BY <3>3
      <4> QED
        BY <2>5, <2>6, <2>8, <3>17, <4>1
    <3>19. d[n + 1] = draws'[n + 1]
      BY <2>5, <2>10, <3>8, <3>10, <3>18
    <3>20. \A k \in 1..n : d[k] = draws'[k]
      BY <2>10, <3>5, <3>15
    <3> QED
      BY <2>10, <3>19, <3>20
  <2>15. NoSelectionFavoured'
    <3> SUFFICES ASSUME NEW d \in DrawSequences(i)', Replay(d)' = [k \in 0..i - 1 |-> indices[k]]'
                 PROVE  d = draws'
      BY DEF NoSelectionFavoured
    <3>1. d \in [1..n + 1 -> 0..V - 1] /\ \A k \in 1..n + 1 : d[k] < V - (k - 1)
      BY <2>5 DEF DrawSequences, Remaining
    <3>2. Replay(d)' = [k \in 0..n |-> indices'[k]]
      BY <2>5
    <3> QED
      BY <2>14, <3>1, <3>2
  <2> QED
    BY <1>1, <2>11, <2>13, <2>15 DEF UnbiasedInv
<1> QED
  BY <1>2, <1>3 DEF Next

(* SelectVectors favours no selection: for every number of vectors and of  *)
(* draws, no two sequences of draws lead to the same tests in the same     *)
(* order.                                                                  *)
THEOREM SelectionIsUnbiased == Spec => []NoSelectionFavoured
<1>1. UnbiasedInv => NoSelectionFavoured
  BY DEF UnbiasedInv
<1> QED
  BY <1>1, UnbiasedInit, UnbiasedStep, PTL DEF Spec
=============================================================================
