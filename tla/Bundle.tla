-------------------------------- MODULE Bundle --------------------------------
(***************************************************************************)
(* A bundle of tests on its way from the JSON document the client wrote    *)
(* and committed to, through json.Unmarshal, Validate and the second       *)
(* canonicalisation of fetchAndDecryptBundle, to the executors             *)
(* (go/internal/verifier: bundle.go, validate.go, verifier.go, vectors.go).*)
(*                                                                         *)
(* The JSON text of a field is abstracted to its class: "good" is what the *)
(* field's pattern or range admits, "bad" what it does not (for a revert   *)
(* pattern: too long), "overCap" what the schema admits and the engine's   *)
(* caps do not, "leadingZero" hex digits such as 0x01, "miscased" a good   *)
(* value under a key in other letters, which json.Unmarshal takes too, and *)
(* "multibyte" text that has as many characters as the schema's maxLength  *)
(* admits and more bytes than that.                                        *)
(* A hash is the canonical document that it is the hash of.                *)
(***************************************************************************)
EXTENDS Naturals, Sequences, FiniteSets

CONSTANTS
    VectorIds,          \* ids that clients give to vectors, "empty" and "multibyte" among them
    RightDocuments,     \* documents that are as they should be
    Written,            \* what clients may write for a field, by field
    MaxEdits,           \* bound: places in which a document differs from a right one
    SchemaMaxCount,     \* the schema's bound on the two counts
    MaxVectorCount, MaxSelectionCount   \* the engine's

VARIABLES
    pc,     \* where the bundle is
    doc,    \* the document, as committed to in privateBundleHash
    bundle, \* what Unmarshal made of it
    ran,    \* number of vectors whose fields the executors could parse
    edits   \* number of edits to a right document

bundleVars == <<pc, doc, bundle, ran, edits>>

Types == {"ETH_CALL_EQUALS", "ETH_CALL_REVERTS", "ERC165_SUPPORTS_INTERFACE",
          "CODE_SIZE_RANGE", "STORAGE_AT_EQUALS"}

(* Vector: the fields that depend on the type. *)
Fields == {"calldata", "caller", "value", "expectedReturn", "expectedRevertSelector",
           "expectedRevertPattern", "interfaceId", "expected", "minBytes", "maxBytes",
           "slot", "expectedValue"}

(* WorkProofBundle: the fields that have a pattern or range of their own.  *)
Header == {"formatVersion", "templateId", "templateVersion", "targetChainId",
           "publicSpecHash", "gasLimitPerCall", "timeoutMsPerCall", "maxResponseBytes"}

(* What can be written for a field, and the documents that result. *)
Classes == {"good", "bad", "other", "overCap", "leadingZero", "miscased", "multibyte", "wrongType",
            "absent", "null", "empty", "zero", "one", "two"}
Vectors == [id : VectorIds, type : Types \cup {"unknown"}, extra : BOOLEAN,
            field : [Fields -> Classes]]
Documents == [header : [Header -> Classes], vectors : Seq(Vectors),
              vectorCount : Nat, selectionCount : Nat]

ASSUME BundleAssumption ==
    /\ RightDocuments \subseteq Documents /\ {"empty", "multibyte"} \subseteq VectorIds
    /\ \A f \in Header \cup Fields : Written[f] \subseteq Classes
    /\ SchemaMaxCount \in Nat /\ MaxVectorCount \in Nat /\ MaxSelectionCount \in Nat
    /\ MaxVectorCount <= SchemaMaxCount /\ MaxSelectionCount <= SchemaMaxCount
    /\ MaxEdits \in Nat

Required == [t \in Types |->
    CASE t = "ETH_CALL_EQUALS" -> {"calldata", "caller", "value", "expectedReturn"}
      [] t = "ETH_CALL_REVERTS" -> {"calldata", "caller", "value"}
      [] t = "ERC165_SUPPORTS_INTERFACE" -> {"interfaceId", "expected"}
      [] t = "CODE_SIZE_RANGE" -> {"minBytes", "maxBytes"}
      [] t = "STORAGE_AT_EQUALS" -> {"slot", "expectedValue"}]

Optional == [t \in Types |->
    IF t = "ETH_CALL_REVERTS" THEN {"expectedRevertSelector", "expectedRevertPattern"} ELSE {}]

(* Sizes of code, as classes: zero is below every range, one < two.        *)
Bounds == {"minBytes", "maxBytes"}
Positive == {"one", "two"}

(* The values of a Go field that mean "nothing": nil, "" and 0.            *)
ZeroValue == {"absent", "null", "empty", "zero"}

\* Mutant: the pattern for a slot has no end, and admits one that is too long.
M_Matches(f, c) ==
    \/ c = "good" /\ f \notin Bounds
    \/ c = "bad" /\ f = "slot"
    \/ c = "leadingZero" /\ f = "value"
    \/ c \in Positive /\ f \in Bounds

(* What each pattern or range admits in validate.go, where a length is one *)
(* in bytes.                                                               *)
Matches(f, c) ==
    \/ c = "good" /\ f \notin Bounds
    \/ c = "leadingZero" /\ f = "value"
    \/ c \in Positive /\ f \in Bounds
-----------------------------------------------------------------------------
(* The JSON schema, workproof-bundle-v1.schema.json.  Its patterns and     *)
(* ranges are those of validate.go, but maxLength counts characters.       *)
SchemaAdmits(f, c) ==
    \/ Matches(f, c)
    \/ c = "multibyte" /\ f = "expectedRevertPattern"

(* No property that the type does not have, not even an empty one.         *)
SchemaVector(v) ==
    /\ v.id # "empty" /\ v.type \in Types /\ ~v.extra
    /\ \A f \in Fields :
          \/ f \in Required[v.type] /\ SchemaAdmits(f, v.field[f])
          \/ /\ f \in Optional[v.type]
             /\ SchemaAdmits(f, v.field[f]) \/ (f = "expectedRevertPattern" /\ v.field[f] = "empty")
          \/ f \notin Required[v.type] /\ v.field[f] = "absent"

SchemaValid(d) ==
    /\ \A h \in Header :
          \/ d.header[h] \in {"good", "other", "overCap"}
          \/ h = "templateId" /\ d.header[h] = "multibyte"
    /\ d.vectorCount \in 1..SchemaMaxCount /\ d.selectionCount \in 1..SchemaMaxCount
    /\ Len(d.vectors) \in 1..SchemaMaxCount
    /\ \A k \in DOMAIN d.vectors : SchemaVector(d.vectors[k])

(* The resource-limit caps of config.go. *)
WithinCaps(d) ==
    /\ \A h \in Header : d.header[h] # "overCap"
    /\ d.vectorCount <= MaxVectorCount /\ d.selectionCount <= MaxSelectionCount
-----------------------------------------------------------------------------
NoBundle == [header |-> [h \in Header |-> "absent"], vectors |-> << >>,
             vectorCount |-> 0, selectionCount |-> 0]

BundleInit ==
    /\ pc = "plaintext" /\ doc \in RightDocuments
    /\ bundle = NoBundle /\ ran = 0 /\ edits = 0

(* The client writes something else in one place. *)
Edit ==
    /\ pc = "plaintext" /\ edits < MaxEdits
    /\ edits' = edits + 1
    /\ \/ \E h \in Header : \E c \in Written[h] : doc' = [doc EXCEPT !.header[h] = c]
       \/ \E n \in 0..(SchemaMaxCount + 1) :
             \/ doc' = [doc EXCEPT !.vectorCount = n]
             \/ doc' = [doc EXCEPT !.selectionCount = n]
       \/ \E k \in DOMAIN doc.vectors :
             \/ \E f \in Fields : \E c \in Written[f] :
                   doc' = [doc EXCEPT !.vectors[k].field[f] = c]
             \/ doc' = [doc EXCEPT !.vectors[k].extra = TRUE]
             \/ \E id \in {"empty", "multibyte", doc.vectors[1].id} : doc' = [doc EXCEPT !.vectors[k].id = id]
             \/ doc' = [doc EXCEPT !.vectors[k].type = "unknown"]
    /\ UNCHANGED <<pc, bundle, ran>>

Goes(stage) == pc' = stage /\ UNCHANGED <<doc, bundle, ran, edits>>

(* Keys nobody knows are dropped, keys in other letters taken, and what is *)
(* missing, null or empty becomes the field's zero value.                  *)
Decoded(f, c) ==
    CASE c \in ZeroValue -> "absent"
      [] c = "miscased" -> IF f \in Bounds THEN "one" ELSE "good"
      [] OTHER -> c

DecodedVector(v) ==
    [v EXCEPT !.extra = FALSE, !.field = [f \in Fields |-> Decoded(f, v.field[f])]]

DecodedBundle(d) ==
    [d EXCEPT !.header = [h \in Header |-> Decoded(h, d.header[h])],
              !.vectors = [k \in DOMAIN d.vectors |-> DecodedVector(d.vectors[k])]]

Unmarshal ==
    /\ pc = "plaintext"
    /\ IF \E k \in DOMAIN doc.vectors, f \in Fields : doc.vectors[k].field[f] = "wrongType"
         THEN Goes("notJSON")
         ELSE /\ pc' = "decoded"
              /\ bundle' = DecodedBundle(doc)
              /\ UNCHANGED <<doc, ran, edits>>

\* Mutant: the optional fields of a revert are demanded.
M_validVector(v) ==
    /\ v.id \notin {"empty", "multibyte"} /\ v.type \in Types
    /\ \A f \in Required[v.type] \cup Optional[v.type] : Matches(f, v.field[f])
    /\ \A f \in Fields \ (Required[v.type] \cup Optional[v.type]) : v.field[f] = "absent"

(* Vector.validate *)
validVector(v) ==
    /\ v.id \notin {"empty", "multibyte"} /\ v.type \in Types
    /\ \A f \in Required[v.type] : Matches(f, v.field[f])
    /\ \A f \in Optional[v.type] : v.field[f] = "absent" \/ Matches(f, v.field[f])
    /\ \A f \in Fields \ (Required[v.type] \cup Optional[v.type]) : v.field[f] = "absent"
    /\ v.type = "CODE_SIZE_RANGE" =>
          (v.field["maxBytes"] = "one" => v.field["minBytes"] = "one")

(* WorkProofBundle.Validate *)
Valid(b) ==
    /\ \A h \in Header : b.header[h] \in {"good", "other"}
    /\ b.vectorCount \in 1..MaxVectorCount
    /\ b.selectionCount \in 1..MaxSelectionCount /\ b.selectionCount <= b.vectorCount
    /\ Len(b.vectors) = b.vectorCount
    /\ \A k \in DOMAIN b.vectors :
          /\ validVector(b.vectors[k])
          /\ \A j \in 1..(k - 1) : b.vectors[j].id # b.vectors[k].id

Validate ==
    /\ pc = "decoded"
    /\ Goes(IF Valid(bundle) THEN "valid" ELSE "invalid")

(* A well-formed hash that is "other" is not the job's. *)
checkPublicSpecHash ==
    /\ pc = "valid"
    /\ Goes(IF bundle.header["publicSpecHash"] = "good" THEN "bound" ELSE "otherSpec")

\* Mutant: the hash is taken of the plaintext instead of the decoded bundle.
M_canonical == doc

\* Mutant: the expected selector of a revert is not marshalled.
M_canonicalOmits ==
    [bundle EXCEPT !.vectors = [k \in DOMAIN @ |->
        [@[k] EXCEPT !.field["expectedRevertSelector"] = "absent"]]]

(* json.Marshal with omitempty, then JCS: fields with the zero value are   *)
(* not there any more, and neither are unknown keys.                       *)
canonical == bundle

CanonicalizeAndHash ==
    /\ pc = "bound"
    /\ Goes(IF canonical = doc THEN "accepted" ELSE "otherHash")

(* What the executors decode with hexutil: Decode takes all that the       *)
(* patterns admit, DecodeBig (parseCallValue) takes no leading zero.       *)
Parses(f, c) ==
    f \in {"calldata", "value", "expectedReturn", "interfaceId", "slot", "expectedValue"} =>
        c = "good"

(* The vectors are executed one after the other; one whose fields do not   *)
(* parse is skipped, and the attempt cannot be conclusive any more.        *)
ExecuteVector ==
    /\ pc = "accepted" /\ ran < Len(bundle.vectors)
    /\ LET v == bundle.vectors[ran + 1]
       IN IF \A f \in Required[v.type] : Parses(f, v.field[f])
            THEN ran' = ran + 1 /\ UNCHANGED pc
            ELSE pc' = "malformed" /\ UNCHANGED ran
    /\ UNCHANGED <<doc, bundle, edits>>

BundleNext ==
    \/ Edit \/ Unmarshal \/ Validate \/ checkPublicSpecHash \/ CanonicalizeAndHash \/ ExecuteVector

BundleSpec == BundleInit /\ [][BundleNext]_bundleVars
-----------------------------------------------------------------------------
(* A bundle that is accepted is, as the client wrote it, within the schema *)
(* and the caps: Validate cannot see unknown, empty or miscased keys, and  *)
(* it takes the comparison of hashes to keep them out.                     *)
AcceptedMeansSchemaValid == pc = "accepted" => SchemaValid(doc) /\ WithinCaps(doc)

(* No vector of an accepted bundle turns out to be malformed when it is    *)
(* executed, when the client's tokens are in the escrow and the work is    *)
(* delivered; with one exception, a call value with leading zeros, which   *)
(* the pattern of Validate admits and parseCallValue does not.             *)
AcceptedVectorsRun ==
    pc = "malformed" => doc.vectors[ran + 1].field["value"] = "leadingZero"

(* What the schema does not say about the fields of a document. *)
FieldsAgree(d) ==
    /\ d.selectionCount <= d.vectorCount /\ d.vectorCount = Len(d.vectors)
    /\ \A k \in DOMAIN d.vectors :
          /\ ~(d.vectors[k].field["minBytes"] = "two" /\ d.vectors[k].field["maxBytes"] = "one")
          /\ \A j \in 1..(k - 1) : d.vectors[j].id # d.vectors[k].id

(* Texts that are within the schema's lengths in bytes, too. *)
BytesWithinLimits(d) ==
    /\ d.header["templateId"] # "multibyte"
    /\ \A k \in DOMAIN d.vectors :
          /\ d.vectors[k].id # "multibyte"
          /\ d.vectors[k].field["expectedRevertPattern"] # "multibyte"

(* Validate refuses nothing that the schema and the caps admit, but for    *)
(* five things that it looks at and the schema does not: four relations    *)
(* between fields, and the lengths of texts in bytes.                      *)
ValidateIsTheSchema ==
    pc = "invalid" => ~(SchemaValid(doc) /\ WithinCaps(doc) /\ FieldsAgree(doc) /\ BytesWithinLimits(doc))

(* The commitment of a client who canonicalised a valid document with any  *)
(* implementation of RFC 8785 is the one the verifier computes, unless the *)
(* document has a revert pattern that is empty, which omitempty drops.     *)
CommitmentIsReproduced ==
    pc = "otherHash" /\ SchemaValid(doc) =>
        \E k \in DOMAIN doc.vectors : doc.vectors[k].field["expectedRevertPattern"] = "empty"
=============================================================================
