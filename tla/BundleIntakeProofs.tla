------------------------- MODULE BundleIntakeProofs -------------------------
(***************************************************************************)
(* Theorems about the way of a bundle into the verifier: what Fetch        *)
(* connects to and returns (module Fetcher), for any number of concurrent  *)
(* fetches, hosts and addresses, and which documents are accepted and run  *)
(* (module Bundle), for any documents and any bounds.                      *)
(***************************************************************************)
EXTENDS Fetcher, Bundle, TLAPS

FetchRecords ==
    [pc : {"idle", "validate", "pin", "connect", "request", "read", "done", "failed"},
     url : URLs \cup {Nothing}, requests : Nat, pin : Addresses \cup {Nothing},
     conn : Connections \cup {Nothing}, body : Nat, data : Nat,
     why : {"none", "refused", "no pin", "status", "too large", "timeout"}]

FetcherTypeOK ==
    /\ pinnedIPs \in [Hosts -> Addresses \cup {Nothing}]
    /\ fetch \in [Fetches -> FetchRecords]
    /\ idle \subseteq Connections
    /\ looked \in [Hosts -> SUBSET Addresses]

(* validateURL has let the URL pass. *)
Validated(u) == u \in URLs /\ u.scheme = "https" /\ ToLower[u.host] \in allowedHosts

(* An address that a lookup of the host gave and that is public. *)
Public(spelling, a) == a \in looked[ToLower[spelling]] /\ a \notin Private

GoodConnection(c) == ToLower[c.host] \in allowedHosts /\ Public(c.host, c.address)

(* What is known of a call of Fetch at each of its steps. *)
FetchOK(c) ==
    /\ c.pc = "validate" => c.url \in URLs
    /\ c.pc = "pin" => Validated(c.url) /\ Public(c.url.host, c.pin)
    /\ c.pc = "connect" => Validated(c.url)
    /\ c.conn # Nothing => c.pc \in {"request", "read", "done"}
    /\ c.pc \in {"request", "read", "done"} =>
          Validated(c.url) /\ GoodConnection(c.conn) /\ c.conn.host = c.url.host
                           /\ c.conn \in Connections
    /\ c.pc \notin {"read", "done"} => c.data = 0
    /\ c.data <= c.body \/ c.pc # "read"
    /\ c.pc = "done" => c.data = c.body

(* Everything that a later connection can come from was validated: the     *)
(* pins that all fetches share, and the connections that are kept alive.   *)
FetcherInv ==
    /\ FetcherTypeOK
    /\ \A s \in Spellings : pinnedIPs[ToLower[s]] # Nothing =>
          ToLower[s] \in allowedHosts /\ Public(s, pinnedIPs[ToLower[s]])
    /\ \A c \in idle : GoodConnection(c)
    /\ \A f \in Fetches : FetchOK(fetch[f])

(* A fetch that does not move keeps its part of the invariant when lookups *)
(* of others add addresses.                                                *)
LEMMA MoreLookups ==
    ASSUME FetcherTypeOK, NEW c \in FetchRecords, FetchOK(c),
           looked' \in [Hosts -> SUBSET Addresses],
           \A h \in Hosts : looked[h] \subseteq looked'[h]
    PROVE  FetchOK(c)'
<1>1. \A s \in Spellings : ToLower[s] \in Hosts
  BY DEF Hosts
<1>2. \A s \in Spellings : \A a : Public(s, a) => Public(s, a)'
  BY <1>1 DEF Public
<1>3. \A d \in Connections : GoodConnection(d) => GoodConnection(d)'
  BY <1>2 DEF GoodConnection, Connections
<1>4. c.url \in URLs => c.url.host \in Spellings
  BY DEF URLs
<1> QED
  BY <1>2, <1>3, <1>4 DEF FetchOK, Validated

(* A step of one fetch that leaves the pins, kept connections and lookups  *)
(* of the others valid only has to re-establish that fetch's own part.     *)
LEMMA OneFetchMoves ==
    ASSUME FetcherInv, NEW f \in Fetches, NEW c \in FetchRecords,
           fetch' = [fetch EXCEPT ![f] = c],
           looked' \in [Hosts -> SUBSET Addresses],
           \A h \in Hosts : looked[h] \subseteq looked'[h],
           FetchOK(c)',
           idle' \subseteq Connections,
           \A d \in idle' : GoodConnection(d),
           UNCHANGED pinnedIPs
    PROVE  FetcherInv'
<1>0. FetcherTypeOK
  BY DEF FetcherInv
<1>1. \A s \in Spellings : ToLower[s] \in Hosts
  BY DEF Hosts
<1>2. \A s \in Spellings : \A a : Public(s, a) => Public(s, a)'
  BY <1>1 DEF Public
<1>3. \A d \in Connections : GoodConnection(d) => GoodConnection(d)'
  BY <1>2 DEF GoodConnection, Connections
<1>4. FetcherTypeOK'
  BY <1>0 DEF FetcherTypeOK
<1>5. ASSUME NEW g \in Fetches
      PROVE  FetchOK(fetch[g])'
  <2>1. CASE g = f
    BY <2>1, <1>0 DEF FetcherTypeOK
  <2>2. CASE g # f
    <3>1. fetch'[g] = fetch[g] /\ fetch[g] \in FetchRecords /\ FetchOK(fetch[g])
      BY <2>2, <1>0 DEF FetcherTypeOK, FetcherInv
    <3>2. \A e \in FetchRecords : FetchOK(e) => FetchOK(e)'
      BY <1>0, MoreLookups
    <3> QED
      BY <3>1, <3>2
  <2> QED
    BY <2>1, <2>2
<1>6. \A d \in idle' : GoodConnection(d)'
  BY <1>3
<1>7. \A s \in Spellings : pinnedIPs'[ToLower[s]] # Nothing =>
          ToLower[s] \in allowedHosts /\ Public(s, pinnedIPs[ToLower[s]])'
  BY <1>1, <1>0 DEF FetcherInv, Public
<1> QED
  BY <1>4, <1>5, <1>6, <1>7 DEF FetcherInv

(* The record of a fetch that has failed, or has not begun, is in order.   *)
LEMMA NoFetchOK ==
    /\ NoFetch \in FetchRecords
    /\ FetchOK(NoFetch)
    /\ \A why \in {"refused", "no pin", "status", "too large", "timeout"} :
          LET c == [NoFetch EXCEPT !.pc = "failed", !.why = why]
          IN  c \in FetchRecords /\ FetchOK(c) /\ FetchOK(c)'
BY FetcherAssumption DEF NoFetch, FetchRecords, FetchOK

(* Failing is always allowed. *)
LEMMA FailureKeepsInv ==
    ASSUME FetcherInv, NEW f \in Fetches,
           NEW why \in {"refused", "no pin", "status", "too large", "timeout"},
           fetch' = Failed(f, why),
           looked' \in [Hosts -> SUBSET Addresses],
           \A h \in Hosts : looked[h] \subseteq looked'[h],
           idle' \subseteq Connections,
           \A d \in idle' : GoodConnection(d),
           UNCHANGED pinnedIPs
    PROVE  FetcherInv'
<1> DEFINE c == [NoFetch EXCEPT !.pc = "failed", !.why = why]
<1>1. c \in FetchRecords /\ FetchOK(c)'
  BY NoFetchOK
<1>2. fetch' = [fetch EXCEPT ![f] = c]
  BY DEF Failed
<1> HIDE DEF c
<1> QED
  BY <1>1, <1>2, OneFetchMoves

LEMMA FetcherInvInit == FetcherInit => FetcherInv
<1> SUFFICES ASSUME FetcherInit PROVE FetcherInv
  OBVIOUS
<1>1. \A f \in Fetches : fetch[f] = NoFetch
  BY DEF FetcherInit
<1>2. FetcherTypeOK
  BY NoFetchOK DEF FetcherInit, FetcherTypeOK
<1>3. \A s \in Spellings : pinnedIPs[ToLower[s]] = Nothing
  BY DEF FetcherInit, Hosts
<1> QED
  BY <1>1, <1>2, <1>3, NoFetchOK DEF FetcherInv, FetcherInit
LEMMA FetcherInvStart ==
    ASSUME FetcherInv, NEW f \in Fetches, Start(f)
    PROVE  FetcherInv'
<1>1. PICK h \in CiphertextHosts :
         fetch' = [fetch EXCEPT ![f] = [NoFetch EXCEPT
                     !.pc = "validate", !.url = [scheme |-> "https", host |-> h]]]
  BY DEF Start
<1> DEFINE c == [NoFetch EXCEPT !.pc = "validate", !.url = [scheme |-> "https", host |-> h]]
<1>2. c \in FetchRecords /\ FetchOK(c)'
  BY FetcherAssumption DEF NoFetch, FetchRecords, FetchOK, URLs
<1>3. fetch' = [fetch EXCEPT ![f] = c]
  BY <1>1
<1> HIDE DEF c
<1> QED
  BY <1>2, <1>3, OneFetchMoves DEF Start, FetcherInv, FetcherTypeOK

(* The lookup: what is due to be pinned was in the answer, and all of the  *)
(* answer was public.                                                      *)
LEMMA FetcherInvValidate ==
    ASSUME FetcherInv, NEW f \in Fetches, validateURL(f)
    PROVE  FetcherInv'
<1>0. FetcherTypeOK /\ fetch[f] \in FetchRecords /\ fetch[f].pc = "validate"
      /\ fetch[f].url \in URLs /\ FetchOK(fetch[f])
  BY DEF FetcherInv, FetcherTypeOK, FetchOK, validateURL, At
<1>1. HostOf(f) \in Hosts /\ fetch[f].url.host \in Spellings
  BY <1>0 DEF HostOf, Hosts, URLs
<1>2. idle' \subseteq Connections /\ (\A d \in idle' : GoodConnection(d)) /\ UNCHANGED pinnedIPs
  BY DEF FetcherInv, FetcherTypeOK, validateURL
<1>3. CASE fetch' = Failed(f, "refused") /\ UNCHANGED looked
  <2>1. looked' \in [Hosts -> SUBSET Addresses] /\ \A h \in Hosts : looked[h] \subseteq looked'[h]
    BY <1>0, <1>3 DEF FetcherTypeOK
  <2> QED
    BY <1>2, <1>3, <2>1, FailureKeepsInv
<1>4. CASE fetch[f].url.scheme = "https" /\ HostOf(f) \in allowedHosts
  <2> SUFFICES ASSUME ~(fetch' = Failed(f, "refused") /\ UNCHANGED looked)
               PROVE  FetcherInv'
    BY <1>3
  <2> QED
    <3>1. PICK ips \in Answers :
             /\ looked' = [looked EXCEPT ![HostOf(f)] = @ \cup {ips[k] : k \in DOMAIN ips}]
             /\ IF ips = << >> \/ \E k \in DOMAIN ips : ips[k] \in Private
                  THEN fetch' = Failed(f, "refused")
                  ELSE fetch' = [fetch EXCEPT ![f] = [@ EXCEPT !.pc = "pin", !.pin = ips[1]]]
      BY <1>4 DEF validateURL
    <3>2. PICK n \in 0..2 : ips \in [1..n -> Addresses]
      BY DEF Answers
    <3>3. {ips[k] : k \in DOMAIN ips} \subseteq Addresses
      BY <3>2
    <3>4. /\ looked' \in [Hosts -> SUBSET Addresses]
          /\ \A h \in Hosts : looked[h] \subseteq looked'[h]
          /\ {ips[k] : k \in DOMAIN ips} \subseteq looked'[HostOf(f)]
      BY <1>0, <1>1, <3>1, <3>3 DEF FetcherTypeOK
    <3>5. CASE fetch' = Failed(f, "refused")
      BY <1>2, <3>4, <3>5, FailureKeepsInv
    <3>6. CASE /\ ips # << >> /\ \A k \in DOMAIN ips : ips[k] \notin Private
               /\ fetch' = [fetch EXCEPT ![f] = [@ EXCEPT !.pc = "pin", !.pin = ips[1]]]
      <4>0. PICK c : c = [fetch[f] EXCEPT !.pc = "pin", !.pin = ips[1]]
        OBVIOUS
      <4>1. n # 0
        BY <3>2, <3>6
      <4>2. 1 \in DOMAIN ips
        BY <3>2, <4>1
      <4>3. ips[1] \in Addresses /\ ips[1] \in looked'[HostOf(f)] /\ ips[1] \notin Private
        BY <3>2, <3>4, <3>6, <4>2
      <4>4. c \in FetchRecords /\ c.url = fetch[f].url /\ c.pc = "pin" /\ c.pin = ips[1]
            /\ c.conn = fetch[f].conn /\ c.data = fetch[f].data
        BY <1>0, <4>0, <4>3 DEF FetchRecords
      <4>5. Validated(c.url)' /\ Public(c.url.host, c.pin)'
        BY <1>0, <1>4, <4>3, <4>4 DEF Validated, Public, HostOf
      <4>6. FetchOK(c)'
        BY <1>0, <4>4, <4>5 DEF FetchOK
      <4>7. fetch' = [fetch EXCEPT ![f] = c]
        BY <3>6, <4>0
      <4> QED
        BY <1>2, <3>4, <4>4, <4>6, <4>7, OneFetchMoves
    <3> QED
      BY <3>1, <3>5, <3>6
<1> QED
  BY <1>3, <1>4 DEF validateURL

(* The pinning changes what all fetches share; the address was validated   *)
(* for this very host, however its name was spelled.                       *)
LEMMA FetcherInvPin ==
    ASSUME FetcherInv, NEW f \in Fetches, Pin(f)
    PROVE  FetcherInv'
<1>0. FetcherTypeOK /\ fetch[f] \in FetchRecords /\ fetch[f].pc = "pin"
      /\ FetchOK(fetch[f]) /\ Validated(fetch[f].url) /\ Public(fetch[f].url.host, fetch[f].pin)
  BY DEF FetcherInv, FetcherTypeOK, FetchOK, Pin, At
<1>1. HostOf(f) \in Hosts /\ HostOf(f) \in allowedHosts
      /\ fetch[f].pin \in looked[HostOf(f)] /\ fetch[f].pin \notin Private
      /\ fetch[f].pin \in Addresses
  BY <1>0 DEF HostOf, Hosts, Validated, Public, URLs, FetcherTypeOK
<1>2. /\ pinnedIPs' = [pinnedIPs EXCEPT ![HostOf(f)] = fetch[f].pin]
      /\ UNCHANGED <<idle, looked>>
  BY DEF Pin
<1>p. PICK c : c = [fetch[f] EXCEPT !.pc = "connect"]
  OBVIOUS
<1>3. fetch' = [fetch EXCEPT ![f] = c]
  BY <1>p DEF Pin
<1>4. c \in FetchRecords /\ FetchOK(c)
  BY <1>0, <1>p DEF FetchRecords, FetchOK
<1>5. FetcherTypeOK'
  BY <1>0, <1>1, <1>2, <1>3, <1>4 DEF FetcherTypeOK
<1>6. ASSUME NEW s \in Spellings, pinnedIPs'[ToLower[s]] # Nothing
      PROVE  ToLower[s] \in allowedHosts /\ Public(s, pinnedIPs[ToLower[s]])'
  <2>0. ToLower[s] \in Hosts
    BY DEF Hosts
  <2>1. CASE ToLower[s] = HostOf(f)
    BY <2>0, <2>1, <1>0, <1>1, <1>2 DEF Public, FetcherTypeOK
  <2>2. CASE ToLower[s] # HostOf(f)
    BY <2>0, <2>2, <1>0, <1>2, <1>6 DEF Public, FetcherTypeOK, FetcherInv
  <2> QED
    BY <2>1, <2>2
<1>7. \A d \in idle' : GoodConnection(d)'
  BY <1>2 DEF GoodConnection, Public, FetcherInv
<1>8. \A g \in Fetches : FetchOK(fetch[g])'
  <2>1. \A e : FetchOK(e)' <=> FetchOK(e)
    BY <1>2 DEF FetchOK, GoodConnection, Public
  <2> QED
    BY <2>1, <1>0, <1>3, <1>4 DEF FetcherInv, FetcherTypeOK
<1> QED
  BY <1>5, <1>6, <1>7, <1>8 DEF FetcherInv

(* Taking a connection that is good and for the host of the URL. *)
LEMMA UsesKeepsInv ==
    ASSUME FetcherInv, NEW f \in Fetches, At(f, "connect"), NEW d \in Connections,
           GoodConnection(d), d.host = fetch[f].url.host, Uses(f, d),
           idle' \subseteq idle, UNCHANGED <<pinnedIPs, looked>>
    PROVE  FetcherInv'
<1>0. FetcherTypeOK /\ fetch[f] \in FetchRecords /\ fetch[f].pc = "connect"
      /\ FetchOK(fetch[f]) /\ Validated(fetch[f].url)
  BY DEF FetcherInv, FetcherTypeOK, FetchOK, At
<1>r. fetch[f].requests \in Nat
  BY <1>0 DEF FetchRecords
<1>n. PICK n \in Nat : n = fetch[f].requests + 1
  BY <1>r
<1>p. PICK c : c = [fetch[f] EXCEPT !.pc = "request", !.conn = d, !.pin = Nothing, !.requests = n]
  OBVIOUS
<1>1. fetch' = [fetch EXCEPT ![f] = c]
  BY <1>n, <1>p DEF Uses
<1>2. c \in FetchRecords /\ c.pc = "request" /\ c.url = fetch[f].url /\ c.conn = d
      /\ c.data = fetch[f].data
  BY <1>0, <1>p DEF FetchRecords
<1>3. GoodConnection(d)' /\ Validated(c.url)
  BY <1>0, <1>2 DEF GoodConnection, Public
<1>4. FetchOK(c)'
  BY <1>0, <1>2, <1>3 DEF FetchOK, Validated
<1> QED
  BY <1>0, <1>1, <1>2, <1>4, OneFetchMoves DEF FetcherInv, FetcherTypeOK

(* dialPinned: whatever is pinned at that moment, by whichever fetch, was  *)
(* validated for the host.                                                 *)
LEMMA FetcherInvDial ==
    ASSUME FetcherInv, NEW f \in Fetches, dialPinned(f)
    PROVE  FetcherInv'
<1>0. FetcherTypeOK /\ Validated(fetch[f].url) /\ fetch[f].url.host \in Spellings
      /\ HostOf(f) = ToLower[fetch[f].url.host] /\ HostOf(f) \in Hosts
  BY DEF FetcherInv, FetchOK, dialPinned, At, Validated, URLs, HostOf, Hosts
<1>1. CASE pinnedIPs[HostOf(f)] = Nothing
  BY <1>0, <1>1, FailureKeepsInv DEF dialPinned, FetcherInv, FetcherTypeOK
<1>2. CASE pinnedIPs[HostOf(f)] # Nothing
  <2> DEFINE d == [host |-> fetch[f].url.host, address |-> pinnedIPs[HostOf(f)]]
  <2>1. d \in Connections
    BY <1>0, <1>2 DEF Connections, FetcherTypeOK
  <2>2. GoodConnection(d)
    BY <1>0, <1>2 DEF GoodConnection, FetcherInv
  <2>3. Uses(f, d) /\ d.host = fetch[f].url.host
    BY <1>2 DEF dialPinned
  <2> HIDE DEF d
  <2> QED
    BY <2>1, <2>2, <2>3, UsesKeepsInv DEF dialPinned
<1> QED
  BY <1>1, <1>2

LEMMA FetcherInvReuse ==
    ASSUME FetcherInv, NEW f \in Fetches, Reuse(f)
    PROVE  FetcherInv'
<1>1. PICK d \in idle : d.host = fetch[f].url.host /\ idle' = idle \ {d} /\ Uses(f, d)
  BY DEF Reuse
<1>2. d \in Connections /\ GoodConnection(d)
  BY DEF FetcherInv, FetcherTypeOK
<1> QED
  BY <1>1, <1>2, UsesKeepsInv DEF Reuse

LEMMA FetcherInvRedirect ==
    ASSUME FetcherInv, NEW f \in Fetches, Redirect(f)
    PROVE  FetcherInv'
<1>0. FetcherTypeOK /\ fetch[f] \in FetchRecords /\ fetch[f].pc = "request"
      /\ FetchOK(fetch[f]) /\ GoodConnection(fetch[f].conn) /\ fetch[f].conn \in Connections
  BY DEF FetcherInv, FetcherTypeOK, FetchOK, Redirect, At
<1>1. /\ idle' \subseteq Connections /\ \A d \in idle' : GoodConnection(d)
      /\ UNCHANGED <<pinnedIPs, looked>> /\ looked' \in [Hosts -> SUBSET Addresses]
  BY <1>0 DEF Redirect, FetcherInv, FetcherTypeOK
<1>2. CASE fetch' = Failed(f, "refused")
  BY <1>1, <1>2, FailureKeepsInv
<1>3. ASSUME NEW u \in URLs,
             fetch' = [fetch EXCEPT ![f] = [@ EXCEPT !.pc = "validate", !.url = u, !.conn = Nothing]]
      PROVE  FetcherInv'
  <2>1. PICK c : c = [fetch[f] EXCEPT !.pc = "validate", !.url = u, !.conn = Nothing]
    OBVIOUS
  <2>2. fetch' = [fetch EXCEPT ![f] = c]
    BY <1>3, <2>1
  <2>3. c \in FetchRecords /\ FetchOK(c)'
    BY <1>0, <2>1 DEF FetchRecords, FetchOK
  <2> QED
    BY <1>1, <2>2, <2>3, OneFetchMoves
<1> QED
  BY <1>2, <1>3 DEF Redirect

LEMMA FetcherInvRespond ==
    ASSUME FetcherInv, NEW f \in Fetches, Respond(f)
    PROVE  FetcherInv'
<1>0. FetcherTypeOK /\ fetch[f] \in FetchRecords /\ fetch[f].pc = "request" /\ FetchOK(fetch[f])
  BY DEF FetcherInv, FetcherTypeOK, Respond, At
<1>1. /\ idle' \subseteq Connections /\ \A d \in idle' : GoodConnection(d)
      /\ UNCHANGED <<pinnedIPs, looked>> /\ looked' \in [Hosts -> SUBSET Addresses]
  BY DEF Respond, FetcherInv, FetcherTypeOK
<1>2. CASE fetch' = Failed(f, "status")
  BY <1>1, <1>2, FailureKeepsInv
<1>3. ASSUME NEW n \in 0..MaxBody,
             fetch' = [fetch EXCEPT ![f] = [@ EXCEPT !.pc = "read", !.body = n]]
      PROVE  FetcherInv'
  <2>1. PICK c : c = [fetch[f] EXCEPT !.pc = "read", !.body = n]
    OBVIOUS
  <2>2. fetch' = [fetch EXCEPT ![f] = c]
    BY <1>3, <2>1
  <2>3. n \in Nat
    BY FetcherAssumption
  <2>4. c \in FetchRecords /\ c.pc = "read" /\ c.url = fetch[f].url /\ c.conn = fetch[f].conn
        /\ c.data = 0 /\ c.body = n
    BY <1>0, <2>1, <2>3 DEF FetchRecords, FetchOK
  <2>5. FetchOK(c)'
    BY <1>0, <1>1, <2>3, <2>4 DEF FetchOK, Validated, GoodConnection, Public
  <2> QED
    BY <1>1, <2>2, <2>4, <2>5, OneFetchMoves
<1> QED
  BY <1>2, <1>3 DEF Respond

LEMMA FetcherInvRead ==
    ASSUME FetcherInv, NEW f \in Fetches, Read(f)
    PROVE  FetcherInv'
<1>0. FetcherTypeOK /\ fetch[f] \in FetchRecords /\ fetch[f].pc = "read" /\ FetchOK(fetch[f])
  BY DEF FetcherInv, FetcherTypeOK, Read, At
<1>1. /\ idle' \subseteq Connections /\ \A d \in idle' : GoodConnection(d)
      /\ UNCHANGED <<pinnedIPs, looked>> /\ looked' \in [Hosts -> SUBSET Addresses]
  BY DEF Read, FetcherInv, FetcherTypeOK
<1>r. fetch[f].data \in Nat /\ fetch[f].body \in Nat /\ fetch[f].data < fetch[f].body
  BY <1>0 DEF Read, FetchRecords
<1>2. PICK n \in Nat : n = fetch[f].data + 1 /\ n <= fetch[f].body
  BY <1>r
<1>3. PICK c : c = [fetch[f] EXCEPT !.data = n]
  OBVIOUS
<1>4. fetch' = [fetch EXCEPT ![f] = c]
  BY <1>2, <1>3 DEF Read
<1>5. c \in FetchRecords /\ c.pc = "read" /\ c.url = fetch[f].url /\ c.conn = fetch[f].conn
      /\ c.body = fetch[f].body /\ c.data = n
  BY <1>0, <1>3 DEF FetchRecords
<1>6. FetchOK(c)'
  BY <1>0, <1>1, <1>2, <1>5 DEF FetchOK, Validated, GoodConnection, Public
<1> QED
  BY <1>1, <1>4, <1>5, <1>6, OneFetchMoves

(* A body that filled the limit is too large, because the limit is one     *)
(* more than is allowed; so what is returned ended by itself.              *)
LEMMA FetcherInvFinish ==
    ASSUME FetcherInv, NEW f \in Fetches, Finish(f)
    PROVE  FetcherInv'
<1>0. FetcherTypeOK /\ fetch[f] \in FetchRecords /\ fetch[f].pc = "read" /\ FetchOK(fetch[f])
      /\ GoodConnection(fetch[f].conn) /\ fetch[f].conn \in Connections
  BY DEF FetcherInv, FetcherTypeOK, Finish, At, FetchOK
<1>1. /\ idle' \subseteq Connections /\ \A d \in idle' : GoodConnection(d)
      /\ UNCHANGED <<pinnedIPs, looked>> /\ looked' \in [Hosts -> SUBSET Addresses]
  BY <1>0 DEF Finish, FetcherInv, FetcherTypeOK
<1>2. CASE fetch' = Failed(f, "too large")
  BY <1>1, <1>2, FailureKeepsInv
<1>3. CASE /\ fetch[f].data <= MaxCiphertextBytes
           /\ fetch' = [fetch EXCEPT ![f].pc = "done"]
  <2>1. PICK c : c = [fetch[f] EXCEPT !.pc = "done"]
    OBVIOUS
  <2>2. fetch' = [fetch EXCEPT ![f] = c]
    BY <1>3, <2>1
  <2>3. fetch[f].data = fetch[f].body
    <3>0. fetch[f].data \in Nat
      BY <1>0 DEF FetchRecords
    <3>1. fetch[f].data # MaxCiphertextBytes + 1
      BY <3>0, <1>3, FetcherAssumption
    <3> QED
      BY <3>1 DEF Finish, limit
  <2>4. c \in FetchRecords /\ c.pc = "done" /\ c.url = fetch[f].url /\ c.conn = fetch[f].conn
        /\ c.data = c.body
    BY <1>0, <2>1, <2>3 DEF FetchRecords
  <2>5. FetchOK(c)'
    BY <1>0, <1>1, <2>4 DEF FetchOK, Validated, GoodConnection, Public
  <2> QED
    BY <1>1, <2>2, <2>4, <2>5, OneFetchMoves
<1> QED
  BY <1>2, <1>3 DEF Finish

LEMMA FetcherInvTimeout ==
    ASSUME FetcherInv, NEW f \in Fetches, Timeout(f)
    PROVE  FetcherInv'
BY FailureKeepsInv DEF Timeout, FetcherInv, FetcherTypeOK

LEMMA FetcherInvCloseIdle ==
    ASSUME FetcherInv, CloseIdle
    PROVE  FetcherInv'
<1>1. idle' \subseteq idle /\ UNCHANGED <<pinnedIPs, fetch, looked>>
  BY DEF CloseIdle
<1> QED
  BY <1>1 DEF FetcherInv, FetcherTypeOK, FetchOK, Validated, GoodConnection, Public

LEMMA FetcherInvStep ==
    ASSUME FetcherInv, [FetcherNext]_fetcherVars
    PROVE  FetcherInv'
<1>1. CASE CloseIdle
  BY <1>1, FetcherInvCloseIdle
<1>2. ASSUME NEW f \in Fetches, Fetch(f)
      PROVE  FetcherInv'
  BY <1>2, FetcherInvStart, FetcherInvValidate, FetcherInvPin, FetcherInvDial, FetcherInvReuse,
     FetcherInvRedirect, FetcherInvRespond, FetcherInvRead, FetcherInvFinish, FetcherInvTimeout
     DEF Fetch
<1>3. CASE UNCHANGED fetcherVars
  BY <1>3 DEF fetcherVars, FetcherInv, FetcherTypeOK, FetchOK, Validated, GoodConnection, Public
<1> QED
  BY <1>1, <1>2, <1>3 DEF FetcherNext

LEMMA FetcherInvariant == FetcherSpec => []FetcherInv
BY FetcherInvInit, FetcherInvStep, PTL DEF FetcherSpec

(* Whatever the resolver answers from lookup to lookup, wherever gateways  *)
(* redirect to and whoever pinned an address or opened a connection first, *)
(* a request of ciphertext.go only goes over https, to an allowed host, at *)
(* a public address that a lookup of that host gave.                       *)
THEOREM FetcherConnectionsValidated == FetcherSpec => []ConnectionsAreValidated
<1>1. FetcherInv => ConnectionsAreValidated
  <2> SUFFICES ASSUME FetcherInv, NEW f \in Fetches, fetch[f].conn # Nothing
               PROVE  /\ fetch[f].url.scheme = "https" /\ HostOf(f) \in allowedHosts
                      /\ fetch[f].conn.host = fetch[f].url.host
                      /\ fetch[f].conn.address \in looked[HostOf(f)] \ Private
    BY DEF ConnectionsAreValidated
  <2>1. FetchOK(fetch[f])
    BY DEF FetcherInv
  <2>2. /\ Validated(fetch[f].url) /\ GoodConnection(fetch[f].conn)
        /\ fetch[f].conn.host = fetch[f].url.host
    BY <2>1 DEF FetchOK
  <2> QED
    BY <2>2 DEF Validated, GoodConnection, Public, HostOf
<1> QED
  BY <1>1, FetcherInvariant, PTL

(* Fetch returns a body whole or not at all, whatever the body's length    *)
(* and the limit are: io.LimitReader never cuts off what is returned.      *)
THEOREM FetcherNeverTruncates == FetcherSpec => []NeverTruncated
<1>1. FetcherInv => NeverTruncated
  BY DEF FetcherInv, FetchOK, NeverTruncated, At
<1> QED
  BY <1>1, FetcherInvariant, PTL

-----------------------------------------------------------------------------
(***************************************************************************)
(* Bundle.  Validate sees a document only through what Unmarshal made of   *)
(* it, and the comparison of hashes whether that is what the client wrote. *)
(***************************************************************************)
LEMMA DecodedClass ==
    ASSUME NEW f, NEW c \in Classes
    PROVE  /\ Decoded(f, c) \in Classes
           /\ c \in {"good", "bad", "other", "overCap", "leadingZero", "multibyte", "wrongType", "one", "two",
                     "absent"}
                 => Decoded(f, c) = c
           /\ c \in ZeroValue => Decoded(f, c) = "absent"
BY DEF Decoded, Classes, ZeroValue

(* What matches a field's pattern is decoded as it stands. *)
LEMMA DecodedMatch ==
    ASSUME NEW f, NEW c \in Classes, SchemaAdmits(f, c)
    PROVE  Decoded(f, c) = c
BY DecodedClass DEF SchemaAdmits, Matches, Positive

LEMMA DecodedVectorType ==
    ASSUME NEW v \in Vectors
    PROVE  /\ DecodedVector(v) \in Vectors
           /\ DecodedVector(v).id = v.id /\ DecodedVector(v).type = v.type
           /\ DecodedVector(v).extra = FALSE
           /\ \A f \in Fields : DecodedVector(v).field[f] = Decoded(f, v.field[f])
<1>1. v.field \in [Fields -> Classes]
  BY DEF Vectors
<1>2. [f \in Fields |-> Decoded(f, v.field[f])] \in [Fields -> Classes]
  BY <1>1, DecodedClass
<1> QED
  BY <1>2 DEF DecodedVector, Vectors

LEMMA DecodedBundleType ==
    ASSUME NEW d \in Documents
    PROVE  /\ DecodedBundle(d) \in Documents
           /\ \A h \in Header : DecodedBundle(d).header[h] = Decoded(h, d.header[h])
           /\ DecodedBundle(d).vectorCount = d.vectorCount
           /\ DecodedBundle(d).selectionCount = d.selectionCount
           /\ Len(DecodedBundle(d).vectors) = Len(d.vectors)
           /\ DOMAIN DecodedBundle(d).vectors = DOMAIN d.vectors
           /\ \A k \in DOMAIN d.vectors : DecodedBundle(d).vectors[k] = DecodedVector(d.vectors[k])
<1>1. d.header \in [Header -> Classes] /\ d.vectors \in Seq(Vectors)
  BY DEF Documents
<1>2. [h \in Header |-> Decoded(h, d.header[h])] \in [Header -> Classes]
  BY <1>1, DecodedClass
<1>v. \A k \in DOMAIN d.vectors : d.vectors[k] \in Vectors
  BY <1>1
<1>3. \A k \in DOMAIN d.vectors : DecodedVector(d.vectors[k]) \in Vectors
  BY <1>v, DecodedVectorType
<1> DEFINE vs == [k \in DOMAIN d.vectors |-> DecodedVector(d.vectors[k])]
<1>4. vs \in Seq(Vectors) /\ Len(vs) = Len(d.vectors) /\ DOMAIN vs = DOMAIN d.vectors
  BY <1>1, <1>3
<1>5. \A k \in DOMAIN d.vectors : vs[k] = DecodedVector(d.vectors[k])
  OBVIOUS
<1>6. DecodedBundle(d) = [d EXCEPT !.header = [h \in Header |-> Decoded(h, d.header[h])], !.vectors = vs]
  BY DEF DecodedBundle
<1> HIDE DEF vs
<1>7. /\ DecodedBundle(d) \in Documents /\ DecodedBundle(d).vectors = vs
      /\ DecodedBundle(d).header = [h \in Header |-> Decoded(h, d.header[h])]
      /\ DecodedBundle(d).vectorCount = d.vectorCount
      /\ DecodedBundle(d).selectionCount = d.selectionCount
  BY <1>2, <1>4, <1>6 DEF Documents
<1> QED
  BY <1>4, <1>5, <1>7

(* A valid bundle that is the very document is within schema and caps:     *)
(* unknown keys are gone from what Unmarshal made.                         *)
LEMMA ValidDocumentFitsSchema ==
    ASSUME NEW d \in Documents, DecodedBundle(d) = d, Valid(d)
    PROVE  SchemaValid(d) /\ WithinCaps(d)
<1>1. d.vectorCount \in 1..SchemaMaxCount /\ d.selectionCount \in 1..SchemaMaxCount
      /\ Len(d.vectors) \in 1..SchemaMaxCount
      /\ d.vectorCount <= MaxVectorCount /\ d.selectionCount <= MaxSelectionCount
  BY BundleAssumption DEF Valid, Documents
<1>2. ASSUME NEW k \in DOMAIN d.vectors
      PROVE  SchemaVector(d.vectors[k])
  <2>1. d.vectors[k] \in Vectors /\ d.vectors[k] = DecodedVector(d.vectors[k])
    BY DecodedBundleType DEF Documents
  <2>2. d.vectors[k].extra = FALSE
    BY <2>1, DecodedVectorType
  <2>3. validVector(d.vectors[k])
    BY DEF Valid
  <2> QED
    BY <2>2, <2>3 DEF validVector, SchemaVector, SchemaAdmits
<1>3. \A h \in Header : d.header[h] \in {"good", "other"}
  BY DEF Valid
<1> QED
  BY <1>1, <1>2, <1>3 DEF SchemaValid, WithinCaps

(* Conversely, what Unmarshal makes of a document within schema and caps   *)
(* whose fields agree, and whose texts are short enough in bytes, is valid.*)
LEMMA SchemaDocumentIsValid ==
    ASSUME NEW d \in Documents, SchemaValid(d), WithinCaps(d), FieldsAgree(d),
           BytesWithinLimits(d)
    PROVE  Valid(DecodedBundle(d))
<1> DEFINE b == DecodedBundle(d)
<1>1. \A h \in Header : b.header[h] \in {"good", "other"}
  <2>1. \A h \in Header : d.header[h] \in {"good", "other"} /\ d.header[h] \in Classes
    BY DEF SchemaValid, WithinCaps, BytesWithinLimits, Documents
  <2> QED
    BY <2>1, DecodedBundleType, DecodedClass
<1>2. b.vectorCount = d.vectorCount /\ b.selectionCount = d.selectionCount
      /\ Len(b.vectors) = Len(d.vectors) /\ DOMAIN b.vectors = DOMAIN d.vectors
      /\ \A k \in DOMAIN d.vectors : b.vectors[k] = DecodedVector(d.vectors[k])
  BY DecodedBundleType
<1> HIDE DEF b
<1>3. /\ b.vectorCount \in 1..MaxVectorCount
      /\ b.selectionCount \in 1..MaxSelectionCount /\ b.selectionCount <= b.vectorCount
      /\ Len(b.vectors) = b.vectorCount
  BY <1>2, BundleAssumption DEF SchemaValid, WithinCaps, FieldsAgree, Documents
<1>4. \A k \in DOMAIN d.vectors : d.vectors[k] \in Vectors
  BY DEF Documents
<1>5. ASSUME NEW k \in DOMAIN d.vectors
      PROVE  validVector(b.vectors[k])
  <2> DEFINE v == d.vectors[k]
             w == b.vectors[k]
  <2>1. v \in Vectors /\ SchemaVector(v) /\ w = DecodedVector(v)
    BY <1>2, <1>4 DEF SchemaValid
  <2>2. w.id = v.id /\ w.type = v.type /\ v.id \notin {"empty", "multibyte"} /\ v.type \in Types
        /\ v.field["expectedRevertPattern"] # "multibyte"
    BY <2>1, DecodedVectorType DEF SchemaVector, BytesWithinLimits
  <2>3. \A f \in Fields : v.field[f] \in Classes /\ w.field[f] = Decoded(f, v.field[f])
    BY <2>1, DecodedVectorType DEF Vectors
  <2>4. Required[v.type] \subseteq Fields /\ Optional[v.type] \subseteq Fields
        /\ Required[v.type] \cap Optional[v.type] = {}
    BY <2>2 DEF Required, Optional, Fields, Types
  <2>5. ~(v.field["minBytes"] = "two" /\ v.field["maxBytes"] = "one")
    BY DEF FieldsAgree
  <2>6. \A f \in Fields :
           \/ f \in Required[v.type] /\ Matches(f, v.field[f])
           \/ /\ f \in Optional[v.type]
              /\ Matches(f, v.field[f]) \/ v.field[f] = "empty"
           \/ f \notin Required[v.type] /\ v.field[f] = "absent"
    BY <2>1, <2>2 DEF SchemaVector, SchemaAdmits
  <2> HIDE DEF v, w
  <2>7. \A f \in Required[v.type] : Matches(f, v.field[f]) /\ w.field[f] = v.field[f]
    BY <2>3, <2>4, <2>6, DecodedMatch DEF SchemaAdmits
  <2>8. \A f \in Optional[v.type] : w.field[f] = "absent" \/ Matches(f, w.field[f])
    <3> SUFFICES ASSUME NEW f \in Optional[v.type]
                 PROVE  w.field[f] = "absent" \/ Matches(f, w.field[f])
      OBVIOUS
    <3>1. CASE Matches(f, v.field[f])
      BY <3>1, <2>3, <2>4, DecodedMatch DEF SchemaAdmits
    <3>2. CASE v.field[f] \in {"empty", "absent"}
      BY <3>2, <2>3, <2>4, DecodedClass DEF ZeroValue
    <3> QED
      BY <3>1, <3>2, <2>4, <2>6
  <2>9. \A f \in Fields \ (Required[v.type] \cup Optional[v.type]) : w.field[f] = "absent"
    BY <2>3, <2>6, DecodedClass DEF ZeroValue
  <2>10. ASSUME v.type = "CODE_SIZE_RANGE"
         PROVE  w.field["maxBytes"] = "one" => w.field["minBytes"] = "one"
    <3>1. Required[v.type] = {"minBytes", "maxBytes"}
      BY <2>10 DEF Required, Types
    <3>2. w.field["maxBytes"] = v.field["maxBytes"] /\ w.field["minBytes"] = v.field["minBytes"]
          /\ Matches("minBytes", v.field["minBytes"])
      BY <3>1, <2>7
    <3> QED
      BY <3>2, <2>5 DEF Matches, Positive, Bounds
  <2> QED
    BY <2>2, <2>7, <2>8, <2>9, <2>10 DEF validVector, w
<1>6. ASSUME NEW k \in DOMAIN d.vectors, NEW j \in 1..(k - 1)
      PROVE  b.vectors[j].id # b.vectors[k].id
  <2>1. j \in DOMAIN d.vectors
    BY DEF Documents
  <2>2. b.vectors[j].id = d.vectors[j].id /\ b.vectors[k].id = d.vectors[k].id
    BY <2>1, <1>2, <1>4, DecodedVectorType
  <2> QED
    BY <2>2 DEF FieldsAgree
<1> QED
  BY <1>1, <1>2, <1>3, <1>5, <1>6 DEF Valid, b

(* A document within the schema that has no empty revert pattern comes out *)
(* of Unmarshal as it went in.                                             *)
LEMMA SchemaDocumentIsCanonical ==
    ASSUME NEW d \in Documents, SchemaValid(d),
           \A k \in DOMAIN d.vectors : d.vectors[k].field["expectedRevertPattern"] # "empty"
    PROVE  DecodedBundle(d) = d
<1>1. DecodedBundle(d).header = d.header
  <2>1. \A h \in Header : d.header[h] \in Classes /\ d.header[h] \in {"good", "other", "overCap", "multibyte"}
    BY DEF SchemaValid, Documents
  <2>2. \A h \in Header : DecodedBundle(d).header[h] = d.header[h]
    BY <2>1, DecodedBundleType, DecodedClass
  <2> QED
    BY <2>2, DecodedBundleType DEF Documents
<1>2. ASSUME NEW k \in DOMAIN d.vectors
      PROVE  DecodedVector(d.vectors[k]) = d.vectors[k]
  <2> DEFINE v == d.vectors[k]
  <2>1. v \in Vectors /\ SchemaVector(v) /\ v.field["expectedRevertPattern"] # "empty"
    BY DEF SchemaValid, Documents
  <2> HIDE DEF v
  <2>2. ASSUME NEW f \in Fields
        PROVE  Decoded(f, v.field[f]) = v.field[f]
    <3>1. v.field[f] \in Classes
      BY <2>1 DEF Vectors
    <3>2. SchemaAdmits(f, v.field[f]) \/ v.field[f] = "absent"
      BY <2>1 DEF SchemaVector
    <3> QED
      BY <3>1, <3>2, DecodedMatch, DecodedClass
  <2> DEFINE w == DecodedVector(v)
  <2>w. /\ w \in Vectors /\ w.id = v.id /\ w.type = v.type /\ w.extra = FALSE
        /\ \A f \in Fields : w.field[f] = Decoded(f, v.field[f])
    BY <2>1, DecodedVectorType
  <2> HIDE DEF w
  <2>3. w.field = v.field
    <3>1. w.field \in [Fields -> Classes] /\ v.field \in [Fields -> Classes]
      BY <2>1, <2>w DEF Vectors
    <3> QED
      BY <3>1, <2>2, <2>w
  <2>4. v.extra = FALSE
    BY <2>1 DEF SchemaVector, Vectors
  <2>5. w = v
    BY <2>1, <2>3, <2>4, <2>w DEF Vectors
  <2> QED
    BY <2>5 DEF v, w
<1>3. DecodedBundle(d).vectors = d.vectors
  BY <1>2, DecodedBundleType DEF Documents
<1> QED
  BY <1>1, <1>3, DecodedBundleType DEF Documents

(* The stages of a bundle.  From Unmarshal on, the bundle is what it made  *)
(* of the document; the later stages record what was found of it.          *)
BundleInv ==
    /\ pc \in {"plaintext", "notJSON", "decoded", "invalid", "valid", "otherSpec", "bound",
               "otherHash", "accepted", "malformed"}
    /\ doc \in Documents
    /\ ran \in Nat
    /\ pc \notin {"plaintext", "notJSON"} => bundle = DecodedBundle(doc)
    /\ pc = "invalid" => ~Valid(bundle)
    /\ pc \in {"valid", "otherSpec", "bound", "otherHash", "accepted", "malformed"} => Valid(bundle)
    /\ pc = "otherHash" => bundle # doc
    /\ pc \in {"accepted", "malformed"} => bundle = doc
    /\ pc = "malformed" =>
          /\ ran + 1 \in DOMAIN bundle.vectors
          /\ \E f \in Required[bundle.vectors[ran + 1].type] :
                ~Parses(f, bundle.vectors[ran + 1].field[f])

(* Edits give documents again. *)
LEMMA EditType ==
    ASSUME doc \in Documents, Edit
    PROVE  doc' \in Documents
<1>1. doc.header \in [Header -> Classes] /\ doc.vectors \in Seq(Vectors)
  BY DEF Documents
<1>2. ASSUME NEW h \in Header, NEW c \in Written[h], doc' = [doc EXCEPT !.header[h] = c]
      PROVE  doc' \in Documents
  <2>1. c \in Classes
    BY BundleAssumption
  <2> QED
    BY <1>1, <1>2, <2>1 DEF Documents
<1>3. ASSUME NEW n \in 0..(SchemaMaxCount + 1),
             \/ doc' = [doc EXCEPT !.vectorCount = n]
             \/ doc' = [doc EXCEPT !.selectionCount = n]
      PROVE  doc' \in Documents
  <2>1. n \in Nat
    BY BundleAssumption
  <2> QED
    BY <1>3, <2>1 DEF Documents
<1>4. ASSUME NEW k \in DOMAIN doc.vectors, NEW v \in Vectors,
             doc' = [doc EXCEPT !.vectors[k] = v]
      PROVE  doc' \in Documents
  <2>1. [doc.vectors EXCEPT ![k] = v] \in Seq(Vectors)
    BY <1>1
  <2> QED
    BY <1>4, <2>1 DEF Documents
<1>5. ASSUME NEW k \in DOMAIN doc.vectors,
             \/ \E f \in Fields : \E c \in Written[f] :
                   doc' = [doc EXCEPT !.vectors[k].field[f] = c]
             \/ doc' = [doc EXCEPT !.vectors[k].extra = TRUE]
             \/ \E id \in {"empty", "multibyte", doc.vectors[1].id} : doc' = [doc EXCEPT !.vectors[k].id = id]
             \/ doc' = [doc EXCEPT !.vectors[k].type = "unknown"]
      PROVE  doc' \in Documents
  <2>1. doc.vectors[k] \in Vectors /\ doc.vectors[1] \in Vectors
    BY <1>1
  <2>2. ASSUME NEW f \in Fields, NEW c \in Written[f],
               doc' = [doc EXCEPT !.vectors[k].field[f] = c]
        PROVE  doc' \in Documents
    <3>1. c \in Classes
      BY BundleAssumption
    <3>2. PICK v \in Vectors : v = [doc.vectors[k] EXCEPT !.field[f] = c]
      BY <2>1, <3>1 DEF Vectors
    <3>3. doc' = [doc EXCEPT !.vectors[k] = v]
      BY <2>2, <3>2
    <3> QED
      BY <1>4, <3>3
  <2>3. CASE doc' = [doc EXCEPT !.vectors[k].extra = TRUE]
    <3>1. [doc.vectors[k] EXCEPT !.extra = TRUE] \in Vectors
      BY <2>1 DEF Vectors
    <3> QED
      BY <1>4, <2>3, <3>1
  <2>4. ASSUME NEW id \in {"empty", "multibyte", doc.vectors[1].id}, doc' = [doc EXCEPT !.vectors[k].id = id]
        PROVE  doc' \in Documents
    <3>1. id \in VectorIds
      BY <2>1, BundleAssumption DEF Vectors
    <3>2. [doc.vectors[k] EXCEPT !.id = id] \in Vectors
      BY <2>1, <3>1 DEF Vectors
    <3> QED
      BY <1>4, <2>4, <3>2
  <2>5. CASE doc' = [doc EXCEPT !.vectors[k].type = "unknown"]
    <3>1. [doc.vectors[k] EXCEPT !.type = "unknown"] \in Vectors
      BY <2>1 DEF Vectors
    <3> QED
      BY <1>4, <2>5, <3>1
  <2> QED
    BY <1>5, <2>2, <2>3, <2>4, <2>5
<1> QED
  BY <1>2, <1>3, <1>5 DEF Edit

LEMMA BundleInvInit == BundleInit => BundleInv
BY BundleAssumption DEF BundleInit, BundleInv

LEMMA BundleInvStep ==
    ASSUME BundleInv, [BundleNext]_bundleVars
    PROVE  BundleInv'
<1>1. CASE Edit
  BY <1>1, EditType DEF BundleInv, Edit
<1>2. CASE Unmarshal
  BY <1>2 DEF BundleInv, Unmarshal, Goes
<1>3. CASE Validate
  BY <1>3 DEF BundleInv, Validate, Goes
<1>4. CASE checkPublicSpecHash
  BY <1>4 DEF BundleInv, checkPublicSpecHash, Goes
<1>5. CASE CanonicalizeAndHash
  BY <1>5 DEF BundleInv, CanonicalizeAndHash, Goes, canonical
<1>6. CASE ExecuteVector
  <2>1. pc = "accepted" /\ ran < Len(bundle.vectors) /\ UNCHANGED <<doc, bundle, edits>>
        /\ bundle = doc /\ doc \in Documents /\ ran \in Nat
    BY <1>6 DEF ExecuteVector, BundleInv
  <2>2. ran + 1 \in DOMAIN bundle.vectors /\ ran + 1 \in Nat
    BY <2>1 DEF Documents
  <2>3. CASE \A f \in Required[bundle.vectors[ran + 1].type] :
               Parses(f, bundle.vectors[ran + 1].field[f])
    BY <1>6, <2>1, <2>2, <2>3 DEF ExecuteVector, BundleInv
  <2>4. CASE ~\A f \in Required[bundle.vectors[ran + 1].type] :
               Parses(f, bundle.vectors[ran + 1].field[f])
    BY <1>6, <2>1, <2>2, <2>4 DEF ExecuteVector, BundleInv
  <2> QED
    BY <2>3, <2>4
<1>7. CASE UNCHANGED bundleVars
  BY <1>7 DEF BundleInv, bundleVars
<1> QED
  BY <1>1, <1>2, <1>3, <1>4, <1>5, <1>6, <1>7 DEF BundleNext

LEMMA BundleInvariant == BundleSpec => []BundleInv
BY BundleInvInit, BundleInvStep, PTL DEF BundleSpec

(* Whatever the client wrote, a bundle that fetchAndDecryptBundle accepts  *)
(* is within the JSON schema and the caps: what Validate cannot see, the   *)
(* comparison of hashes keeps out.                                         *)
THEOREM AcceptedBundlesFitSchema == BundleSpec => []AcceptedMeansSchemaValid
<1>1. BundleInv => AcceptedMeansSchemaValid
  <2> SUFFICES ASSUME BundleInv, pc = "accepted" PROVE SchemaValid(doc) /\ WithinCaps(doc)
    BY DEF AcceptedMeansSchemaValid
  <2>1. doc \in Documents /\ DecodedBundle(doc) = doc /\ Valid(doc)
    BY DEF BundleInv
  <2> QED
    BY <2>1, ValidDocumentFitsSchema
<1> QED
  BY <1>1, BundleInvariant, PTL

(* The executors can parse every vector of an accepted bundle, except for  *)
(* a call value with leading zeros.                                        *)
THEOREM AcceptedBundlesRun == BundleSpec => []AcceptedVectorsRun
<1>1. BundleInv => AcceptedVectorsRun
  <2> SUFFICES ASSUME BundleInv, pc = "malformed"
               PROVE  doc.vectors[ran + 1].field["value"] = "leadingZero"
    BY DEF AcceptedVectorsRun
  <2> DEFINE v == doc.vectors[ran + 1]
  <2>1. bundle = doc /\ Valid(doc) /\ ran + 1 \in DOMAIN doc.vectors
        /\ \E f \in Required[v.type] : ~Parses(f, v.field[f])
    BY DEF BundleInv
  <2>2. PICK f \in Required[v.type] : ~Parses(f, v.field[f])
    BY <2>1
  <2>3. validVector(v)
    BY <2>1 DEF Valid
  <2>4. Matches(f, v.field[f])
    BY <2>2, <2>3 DEF validVector
  <2> QED
    BY <2>2, <2>4 DEF Parses, Matches, Bounds
<1> QED
  BY <1>1, BundleInvariant, PTL

(* Validate refuses nothing that is within the schema and the caps, unless *)
(* one of four relations between fields fails or a text is too long in     *)
(* bytes, though not in the characters that the schema counts.             *)
THEOREM ValidateEnforcesTheSchema == BundleSpec => []ValidateIsTheSchema
<1>1. BundleInv => ValidateIsTheSchema
  BY SchemaDocumentIsValid DEF BundleInv, ValidateIsTheSchema
<1> QED
  BY <1>1, BundleInvariant, PTL

(* The verifier's hash of a document within the schema is the client's,    *)
(* unless omitempty drops an empty revert pattern.                         *)
THEOREM CommitmentReproduced == BundleSpec => []CommitmentIsReproduced
<1>1. BundleInv => CommitmentIsReproduced
  BY SchemaDocumentIsCanonical DEF BundleInv, CommitmentIsReproduced
<1> QED
  BY <1>1, BundleInvariant, PTL

=============================================================================
