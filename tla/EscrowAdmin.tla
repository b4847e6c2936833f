---------------------------- MODULE EscrowAdmin ----------------------------
(***************************************************************************)
(* The part of contracts/WorkProofEscrow.sol that does not touch jobs: the *)
(* two-step ownership, the pause switch for new work, the capped protocol  *)
(* fee for future jobs, and the extension id the contract finds once in    *)
(* the TEE extension registry.  Module Escrow extends this one with the    *)
(* job life cycle.                                                         *)
(*                                                                         *)
(* A transaction that reverts changes nothing, so a revert is an action    *)
(* that is not enabled.                                                    *)
(***************************************************************************)
EXTENDS Naturals, Sequences

CONSTANTS
    Address,        \* accounts that can send transactions
    Self,           \* the escrow contract's own address
    Zero,           \* address(0)
    Deployer,       \* msg.sender of the constructor
    Nominees,       \* arguments transferOwnership is called with
    InitialFeeBps,  \* the constructor's _initialProtocolFeeBps
    FeeBps,         \* arguments setProtocolFee is called with
    Registrants,    \* contracts for which extensions get registered
    MaxExtensions   \* bound: extensions registered during a behaviour

VARIABLES
    owner, pendingOwner, protocolFeeBps, paused,
    extensionId,    \* _extensionId, 0 while it is not set
    extensions      \* external: the registry's instruction senders, by slot

adminVars == <<owner, pendingOwner, protocolFeeBps, paused, extensionId, extensions>>

MAX_PROTOCOL_FEE_BPS == 1000

FIRST_PUBLIC_EXTENSION_ID == 65536

ASSUME AddressAssumption ==
    /\ Deployer \in Address
    /\ Self \notin Address
    /\ Zero \notin Address
    /\ Self # Zero

ASSUME AdminInputAssumption ==
    /\ Nominees \subseteq Address \cup {Zero}
    /\ InitialFeeBps \in Nat /\ InitialFeeBps <= MAX_PROTOCOL_FEE_BPS
    /\ FeeBps \subseteq Nat
    /\ Registrants \subseteq Address \cup {Self}
    /\ MaxExtensions \in Nat

AdminInit ==
    /\ owner = Deployer
    /\ pendingOwner = Zero
    /\ protocolFeeBps = InitialFeeBps
    /\ paused = FALSE
    /\ extensionId = 0
    /\ extensions = <<>>
-----------------------------------------------------------------------------
pauseNewWork(sender) ==
    /\ sender = owner
    /\ paused' = TRUE
    /\ UNCHANGED <<owner, pendingOwner, protocolFeeBps, extensionId, extensions>>

unpauseNewWork(sender) ==
    /\ sender = owner
    /\ paused' = FALSE
    /\ UNCHANGED <<owner, pendingOwner, protocolFeeBps, extensionId, extensions>>

setProtocolFee(sender, newBps) ==
    /\ sender = owner
    /\ newBps <= MAX_PROTOCOL_FEE_BPS
    /\ protocolFeeBps' = newBps
    /\ UNCHANGED <<owner, pendingOwner, paused, extensionId, extensions>>

transferOwnership(sender, newOwner) ==
    /\ sender = owner
    /\ newOwner # Zero
    /\ pendingOwner' = newOwner
    /\ UNCHANGED <<owner, protocolFeeBps, paused, extensionId, extensions>>

acceptOwnership(sender) ==
    /\ sender = pendingOwner
    /\ owner' = sender
    /\ pendingOwner' = Zero
    /\ UNCHANGED <<protocolFeeBps, paused, extensionId, extensions>>

\* External: somebody registers an extension whose instructions contract c sends.
RegisterExtension(c) ==
    /\ Len(extensions) < MaxExtensions
    /\ extensions' = Append(extensions, c)
    /\ UNCHANGED <<owner, pendingOwner, protocolFeeBps, paused, extensionId>>

\* Mutant: the id may be looked up again and the last match wins.
M_setExtensionId ==
    /\ \E i \in 1..Len(extensions) :
          /\ extensions[i] = Self
          /\ \A k \in i+1..Len(extensions) : extensions[k] # Self
          /\ extensionId' = FIRST_PUBLIC_EXTENSION_ID + i - 1
    /\ UNCHANGED <<owner, pendingOwner, protocolFeeBps, paused, extensions>>

(* The loop takes the first slot whose sender is this contract, and the    *)
(* call reverts when there is none or when an id is already set.           *)
setExtensionId ==
    /\ extensionId = 0
    /\ \E i \in 1..Len(extensions) :
          /\ extensions[i] = Self
          /\ \A k \in 1..i-1 : extensions[k] # Self
          /\ extensionId' = FIRST_PUBLIC_EXTENSION_ID + i - 1
    /\ UNCHANGED <<owner, pendingOwner, protocolFeeBps, paused, extensions>>

_getExtensionId == extensionId # 0
-----------------------------------------------------------------------------
AdminNext ==
    \/ \E sender \in Address :
          \/ pauseNewWork(sender)
          \/ unpauseNewWork(sender)
          \/ acceptOwnership(sender)
          \/ \E bps \in FeeBps : setProtocolFee(sender, bps)
          \/ \E a \in Nominees : transferOwnership(sender, a)
    \/ \E c \in Registrants : RegisterExtension(c)
    \/ setExtensionId

AdminSpec == AdminInit /\ [][AdminNext]_adminVars
-----------------------------------------------------------------------------
(* The admin state has its types; in particular the fee never exceeds its  *)
(* hard cap, however often and by whomever setProtocolFee is called.       *)
AdminTypeOK ==
    /\ owner \in Address
    /\ pendingOwner \in Address \cup {Zero}
    /\ protocolFeeBps \in 0..MAX_PROTOCOL_FEE_BPS
    /\ paused \in BOOLEAN
    /\ extensionId \in {0} \cup (FIRST_PUBLIC_EXTENSION_ID .. FIRST_PUBLIC_EXTENSION_ID + MaxExtensions)
    /\ extensions \in Seq(Address \cup {Self}) /\ Len(extensions) <= MaxExtensions

(* setExtensionId: an id, once found, is the lowest slot registered for    *)
(* this contract, and later registrations never change it.                 *)
ExtensionIdIsFirstMatch ==
    extensionId # 0 =>
        LET slot == extensionId - FIRST_PUBLIC_EXTENSION_ID + 1
        IN  /\ extensions[slot] = Self
            /\ \A k \in 1..slot-1 : extensions[k] # Self
=============================================================================
