---------------------------- MODULE IdealEscrow ----------------------------
(***************************************************************************)
(* What the escrow promises the two parties of a job, without attempts,    *)
(* randomness, instructions or verdicts: a deal's stake goes out exactly   *)
(* once and in full.  It goes to the contractor and the treasury only      *)
(* while the contractor is engaged and the deadline has not passed; it     *)
(* goes back to the client only before the contractor engaged or after the *)
(* deadline.                                                               *)
(***************************************************************************)
EXTENDS Naturals

CONSTANTS Deals, Stakes

VARIABLES clock, deal, stake, deadline, receipts

idealVars == <<clock, deal, stake, deadline, receipts>>

Nothing == [contractor |-> 0, client |-> 0, treasury |-> 0]

IdealInit ==
    /\ clock = 0
    /\ deal = [d \in Deals |-> "none"]
    /\ stake = [d \in Deals |-> [principal |-> 0, fee |-> 0]]
    /\ deadline = [d \in Deals |-> 0]
    /\ receipts = [d \in Deals |-> Nothing]

Offer(d) ==
    /\ deal[d] = "none"
    /\ deal' = [deal EXCEPT ![d] = "offered"]
    /\ stake'[d] \in Stakes /\ deadline'[d] \in Nat
    /\ clock < deadline'[d]
    /\ \A e \in Deals \ {d} : stake'[e] = stake[e] /\ deadline'[e] = deadline[e]
    /\ UNCHANGED <<clock, receipts>>

Engage(d) ==
    /\ deal[d] = "offered"
    /\ clock < deadline[d]
    /\ deal' = [deal EXCEPT ![d] = "engaged"]
    /\ UNCHANGED <<clock, stake, deadline, receipts>>

PayOut(d) ==
    /\ deal[d] = "engaged"
    /\ clock <= deadline[d]
    /\ deal' = [deal EXCEPT ![d] = "paid"]
    /\ receipts' = [receipts EXCEPT ![d] =
          [contractor |-> stake[d].principal, client |-> 0, treasury |-> stake[d].fee]]
    /\ UNCHANGED <<clock, stake, deadline>>

GiveBack(d) ==
    /\ deal[d] = "offered" \/ (deal[d] = "engaged" /\ clock > deadline[d])
    /\ deal' = [deal EXCEPT ![d] = "returned"]
    /\ receipts' = [receipts EXCEPT ![d] =
          [contractor |-> 0, client |-> stake[d].principal + stake[d].fee, treasury |-> 0]]
    /\ UNCHANGED <<clock, stake, deadline>>

Pass ==
    /\ clock' = clock + 1
    /\ UNCHANGED <<deal, stake, deadline, receipts>>

IdealNext ==
    \/ \E d \in Deals : Offer(d) \/ Engage(d) \/ PayOut(d) \/ GiveBack(d)
    \/ Pass

IdealSpec == IdealInit /\ [][IdealNext]_idealVars
=============================================================================
