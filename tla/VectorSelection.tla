--------------------------- MODULE VectorSelection ---------------------------
(***************************************************************************)
(* go/internal/verifier/vectors.go, SelectVectors: the seed-driven         *)
(* Fisher-Yates draw that picks which hidden tests an attempt is run on.   *)
(*                                                                         *)
(* The loop is a state machine, one step per iteration.  The draws         *)
(* keccak256(seed, i) mod remaining are arbitrary residues: the properties *)
(* hold whatever the hash says.  Indices count from 0 as in the code.      *)
(***************************************************************************)
EXTENDS Integers, Sequences, FiniteSets

CONSTANTS
    MaxVectorCount,     \* config.MaxVectorCount
    MaxSelectionCount   \* config.MaxSelectionCount

VARIABLES
    vectorCount, selectionCount,    \* the arguments, as Validate admits them
    indices,                        \* the slice being shuffled in place
    i,                              \* the loop counter
    draws                           \* history: the residue drawn in each iteration

vars == <<vectorCount, selectionCount, indices, i, draws>>

ASSUME LimitAssumption == MaxVectorCount \in Nat /\ MaxSelectionCount \in Nat

(* WorkProofBundle.Validate: what a bundle may declare. *)
ValidCounts(count, selection) ==
    /\ 1 <= count /\ count <= MaxVectorCount
    /\ 1 <= selection /\ selection <= MaxSelectionCount
    /\ selection <= count

Init ==
    /\ vectorCount \in 1..MaxVectorCount
    /\ selectionCount \in 1..MaxSelectionCount
    /\ ValidCounts(vectorCount, selectionCount)
    /\ indices = [k \in 0..vectorCount - 1 |-> k]
    /\ i = 0
    /\ draws = <<>>

limit == IF selectionCount < vectorCount THEN selectionCount ELSE vectorCount

(* In iteration n the hash is reduced modulo the number of vectors not yet *)
(* selected, and counted from the first of them.                           *)
Remaining(n) == vectorCount - n

\* Mutant: the position is counted from the start of the slice.
M_Position(n, residue) == residue

Position(n, residue) == n + residue

\* Mutant: the chosen index is copied to the front, not exchanged.
M_Swap(f, a, b) == [f EXCEPT ![a] = f[b]]

Swap(f, a, b) == [f EXCEPT ![a] = f[b], ![b] = f[a]]

Draw ==
    /\ i < limit
    /\ \E residue \in 0..Remaining(i) - 1 :
          /\ indices' = Swap(indices, i, Position(i, residue))
          /\ draws' = Append(draws, residue)
    /\ i' = i + 1
    /\ UNCHANGED <<vectorCount, selectionCount>>

Next == Draw

Spec == Init /\ [][Next]_vars
-----------------------------------------------------------------------------
(* The loop's variables have their types, and as many vectors get selected *)
(* as the bundle declares.                                                 *)
TypeOK ==
    /\ vectorCount \in 1..MaxVectorCount
    /\ selectionCount \in 1..MaxSelectionCount
    /\ selectionCount <= vectorCount
    /\ indices \in [0..vectorCount - 1 -> 0..vectorCount - 1]
    /\ i \in 0..selectionCount
    /\ draws \in Seq(0..vectorCount - 1)
    /\ Len(draws) = i

(* SelectVectors: no test is selected twice.  A test counted twice would   *)
(* let an artifact reach the executed count on fewer tests than agreed.    *)
SelectedDistinct ==
    \A a, b \in 0..i - 1 : a # b => indices[a] # indices[b]

(* The selection that a sequence of draws leads to. *)
Replay(d) ==
    LET after[n \in 0..Len(d)] ==
          IF n = 0 THEN [k \in 0..vectorCount - 1 |-> k]
          ELSE Swap(after[n - 1], n - 1, Position(n - 1, d[n]))
    IN  [k \in 0..Len(d) - 1 |-> after[Len(d)][k]]

(* The sequences of n draws the loop can make. *)
DrawSequences(n) ==
    {d \in [1..n -> 0..vectorCount - 1] : \A k \in 1..n : d[k] < Remaining(k - 1)}

(* SelectVectors favours no selection: no two sequences of draws lead to   *)
(* the same tests in the same order.  (There are as many sequences of k    *)
(* draws as ordered selections of k vectors, so each of these has exactly  *)
(* one.)                                                                   *)
NoSelectionFavoured ==
    \A d \in DrawSequences(i) : Replay(d) = [k \in 0..i - 1 |-> indices[k]] => d = draws
=============================================================================
