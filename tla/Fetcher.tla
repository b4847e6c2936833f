------------------------------- MODULE Fetcher -------------------------------
(***************************************************************************)
(* go/internal/verifier/ciphertext.go: concurrent calls of Fetch on one    *)
(* CiphertextFetcher, with redirects, a resolver that answers differently  *)
(* each time, kept-alive connections, and gateways that stall.             *)
(*                                                                         *)
(* An address is public or private; a URL is its scheme and its host as    *)
(* spelled; a byte is a unit of a body.  resolve and the pinning that      *)
(* follows are two steps, because only the pinning holds f.mu.             *)
(***************************************************************************)
EXTENDS Naturals, Sequences, FiniteSets

CONSTANTS
    Fetches,            \* calls of Fetch
    Spellings,          \* host names as URLs spell them
    ToLower,            \* strings.ToLower, a function on Spellings
    CiphertextHosts,    \* the configured gateways
    Addresses, Private, \* IP addresses, and those of private or reserved ranges
    MaxCiphertextBytes,
    MaxBody,            \* bound: largest body of a response
    Nothing

VARIABLES
    pinnedIPs,  \* f.pinnedIPs
    fetch,      \* the calls
    idle,       \* kept-alive connections of the transport
    looked      \* history: addresses the resolver has given for a host

fetcherVars == <<pinnedIPs, fetch, idle, looked>>

ASSUME FetcherAssumption ==
    /\ ToLower \in [Spellings -> Spellings]
    /\ \A s \in Spellings : ToLower[ToLower[s]] = ToLower[s]
    /\ CiphertextHosts \subseteq Spellings /\ Private \subseteq Addresses
    /\ MaxCiphertextBytes \in Nat /\ MaxBody \in Nat
    /\ Nothing \notin Addresses

Hosts == {ToLower[s] : s \in Spellings}
URLs == [scheme : {"https", "http"}, host : Spellings]
Connections == [host : Spellings, address : Addresses]

(* NewCiphertextFetcher *)
allowedHosts == {ToLower[h] : h \in CiphertextHosts}
maxRequests == 3

NoFetch == [pc |-> "idle", url |-> Nothing, requests |-> 0, pin |-> Nothing,
            conn |-> Nothing, body |-> 0, data |-> 0, why |-> "none"]

FetcherInit ==
    /\ pinnedIPs = [h \in Hosts |-> Nothing]
    /\ fetch = [f \in Fetches |-> NoFetch]
    /\ idle = {}
    /\ looked = [h \in Hosts |-> {}]

At(f, pc) == fetch[f].pc = pc
HostOf(f) == ToLower[fetch[f].url.host]

Failed(f, why) == [fetch EXCEPT ![f] = [NoFetch EXCEPT !.pc = "failed", !.why = why]]
-----------------------------------------------------------------------------
(* fetchAndDecryptBundle asks the first configured gateway; which one that *)
(* is does not matter here.                                                *)
Start(f) ==
    /\ At(f, "idle")
    /\ \E h \in CiphertextHosts :
          fetch' = [fetch EXCEPT ![f] = [NoFetch EXCEPT
                      !.pc = "validate", !.url = [scheme |-> "https", host |-> h]]]
    /\ UNCHANGED <<pinnedIPs, idle, looked>>

(* What the resolver may say of a host: up to two addresses.               *)
Answers == UNION {[1..n -> Addresses] : n \in 0..2}

(* validateURL up to the resolver's answer.  The first address is the one  *)
(* to pin, provided that all are public.                                   *)
validateURL(f) ==
    /\ At(f, "validate")
    /\ \/ /\ fetch[f].url.scheme # "https" \/ HostOf(f) \notin allowedHosts
          /\ fetch' = Failed(f, "refused")
          /\ UNCHANGED looked
       \/ /\ fetch[f].url.scheme = "https" /\ HostOf(f) \in allowedHosts
          /\ \E ips \in Answers :
                /\ looked' = [looked EXCEPT ![HostOf(f)] = @ \cup {ips[k] : k \in DOMAIN ips}]
                /\ IF ips = << >> \/ \E k \in DOMAIN ips : ips[k] \in Private
                     THEN fetch' = Failed(f, "refused")
                     ELSE fetch' = [fetch EXCEPT ![f] = [@ EXCEPT !.pc = "pin", !.pin = ips[1]]]
    /\ UNCHANGED <<pinnedIPs, idle>>

(* The end of validateURL, under f.mu. *)
Pin(f) ==
    /\ At(f, "pin")
    /\ pinnedIPs' = [pinnedIPs EXCEPT ![HostOf(f)] = fetch[f].pin]
    /\ fetch' = [fetch EXCEPT ![f].pc = "connect"]
    /\ UNCHANGED <<idle, looked>>

Uses(f, c) == fetch' = [fetch EXCEPT ![f] = [@ EXCEPT !.pc = "request", !.conn = c,
                                    !.pin = Nothing, !.requests = fetch[f].requests + 1]]

\* Mutant: the transport resolves the host once more and dials what it gets.
M_dialPinned(f) ==
    /\ At(f, "connect")
    /\ \E a \in Addresses :
          /\ Uses(f, [host |-> fetch[f].url.host, address |-> a])
          /\ looked' = [looked EXCEPT ![HostOf(f)] = @ \cup {a}]
    /\ UNCHANGED <<pinnedIPs, idle>>

(* dialPinned: a new connection, to whatever is pinned at this moment.     *)
dialPinned(f) ==
    /\ At(f, "connect")
    /\ IF pinnedIPs[HostOf(f)] = Nothing
         THEN fetch' = Failed(f, "no pin")
         ELSE Uses(f, [host |-> fetch[f].url.host, address |-> pinnedIPs[HostOf(f)]])
    /\ UNCHANGED <<pinnedIPs, idle, looked>>

(* The transport may take a kept-alive connection instead: its key is the  *)
(* host as spelled.                                                        *)
Reuse(f) ==
    /\ At(f, "connect")
    /\ \E c \in idle :
          /\ c.host = fetch[f].url.host
          /\ idle' = idle \ {c}
          /\ Uses(f, c)
    /\ UNCHANGED <<pinnedIPs, looked>>

(* A redirect is checked by CheckRedirect before it is followed. *)
Redirect(f) ==
    /\ At(f, "request")
    /\ \E u \in URLs :
          fetch' = IF fetch[f].requests >= maxRequests
                     THEN Failed(f, "refused")
                     ELSE [fetch EXCEPT ![f] = [@ EXCEPT !.pc = "validate", !.url = u,
                                                         !.conn = Nothing]]
    /\ idle' = idle \cup {fetch[f].conn}
    /\ UNCHANGED <<pinnedIPs, looked>>

(* A response with status 200 and its body, or with another status.        *)
Respond(f) ==
    /\ At(f, "request")
    /\ \/ \E n \in 0..MaxBody :
             fetch' = [fetch EXCEPT ![f] = [@ EXCEPT !.pc = "read", !.body = n]]
       \/ fetch' = Failed(f, "status")
    /\ UNCHANGED <<pinnedIPs, idle, looked>>

\* Mutant: the reader is limited to the size that is allowed.
M_limit == MaxCiphertextBytes

(* io.LimitReader: one byte more than is allowed. *)
limit == MaxCiphertextBytes + 1

(* io.ReadAll gets another byte. *)
Read(f) ==
    /\ At(f, "read")
    /\ fetch[f].data < fetch[f].body /\ fetch[f].data < limit
    /\ fetch' = [fetch EXCEPT ![f].data = @ + 1]
    /\ UNCHANGED <<pinnedIPs, idle, looked>>

(* The end of the body or of the limit; a body that was read to its end    *)
(* leaves the connection to be used again.                                 *)
Finish(f) ==
    /\ At(f, "read")
    /\ fetch[f].data = fetch[f].body \/ fetch[f].data = limit
    /\ \/ /\ fetch[f].data > MaxCiphertextBytes
          /\ fetch' = Failed(f, "too large")
          /\ UNCHANGED idle
       \/ /\ fetch[f].data <= MaxCiphertextBytes
          /\ fetch' = [fetch EXCEPT ![f].pc = "done"]
          /\ idle' = idle \cup {fetch[f].conn}
    /\ UNCHANGED <<pinnedIPs, looked>>

\* Mutant: the timeout covers the response's header only.
M_Timeout(f) ==
    /\ fetch[f].pc \in {"connect", "request"}
    /\ fetch' = Failed(f, "timeout")
    /\ UNCHANGED <<pinnedIPs, idle, looked>>

(* RPCCallTimeout is over, of the context and of the client, or the        *)
(* connection breaks.  A lookup is not interrupted.                        *)
Timeout(f) ==
    /\ fetch[f].pc \in {"connect", "request", "read"}
    /\ fetch' = Failed(f, "timeout")
    /\ UNCHANGED <<pinnedIPs, idle, looked>>

(* The gateway closes a connection that is not in use. *)
CloseIdle ==
    /\ \E c \in idle : idle' = idle \ {c}
    /\ UNCHANGED <<pinnedIPs, fetch, looked>>

Fetch(f) ==
    \/ Start(f) \/ validateURL(f) \/ Pin(f) \/ dialPinned(f) \/ Reuse(f)
    \/ Redirect(f) \/ Respond(f) \/ Read(f) \/ Finish(f) \/ Timeout(f)

FetcherNext == CloseIdle \/ \E f \in Fetches : Fetch(f)

FetcherSpec == FetcherInit /\ [][FetcherNext]_fetcherVars

(* The program's own steps are taken, lookups return and deadlines pass;   *)
(* nothing is assumed of the gateways.                                     *)
FetcherFairSpec ==
    /\ FetcherSpec
    /\ \A f \in Fetches :
          /\ WF_fetcherVars(validateURL(f)) /\ WF_fetcherVars(Pin(f))
          /\ WF_fetcherVars(Finish(f)) /\ WF_fetcherVars(Timeout(f))
-----------------------------------------------------------------------------
(* Whatever the resolver answers from one lookup to the next, wherever     *)
(* gateways redirect to and whoever opened a connection first, a request   *)
(* only goes over https, to an allowed host, at a public address that a    *)
(* lookup of this host gave.                                               *)
ConnectionsAreValidated ==
    \A f \in Fetches : fetch[f].conn # Nothing =>
        /\ fetch[f].url.scheme = "https" /\ HostOf(f) \in allowedHosts
        /\ fetch[f].conn.host = fetch[f].url.host
        /\ fetch[f].conn.address \in looked[HostOf(f)] \ Private

(* Data that Fetch returns is the whole body, never its beginning.         *)
NeverTruncated == \A f \in Fetches : At(f, "done") => fetch[f].data = fetch[f].body

(* Every call of Fetch ends, with gateways that stall in the middle of a   *)
(* body or redirect for ever.                                              *)
EveryFetchEnds ==
    \A f \in Fetches : ~At(f, "idle") ~> fetch[f].pc \in {"done", "failed"}
=============================================================================
