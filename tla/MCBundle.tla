------------------------------- MODULE MCBundle -------------------------------
(* Instances of Bundle for TLC. *)
EXTENDS Bundle

RightField(f) == IF f = "minBytes" THEN "one" ELSE IF f = "maxBytes" THEN "two" ELSE "good"

RightVector(t, id) ==
    [id |-> id, type |-> t, extra |-> FALSE,
     field |-> [f \in Fields |-> IF f \in Required[t] THEN RightField(f) ELSE "absent"]]

Document(vectors) ==
    [header |-> [h \in Header |-> "good"], vectors |-> vectors,
     vectorCount |-> Len(vectors), selectionCount |-> 1]

(* A document for every type of vector, and one with two vectors. *)
OneOfEach ==
    {Document(<<RightVector(t, "v1")>>) : t \in Types} \cup
    {Document(<<RightVector("CODE_SIZE_RANGE", "v1"), RightVector("ERC165_SUPPORTS_INTERFACE", "v2")>>)}

(* Everything that may be written for a field. *)
Anything ==
    [f \in Fields \cup Header |->
        CASE f \in Bounds -> {"absent", "null", "wrongType", "miscased", "zero", "one", "two"}
          [] f = "expected" -> {"absent", "null", "wrongType", "miscased", "good"}
          [] f = "publicSpecHash" -> {"bad", "miscased", "other"}
          [] f \in {"gasLimitPerCall", "maxResponseBytes"} -> {"bad", "miscased", "overCap"}
          [] f = "templateId" -> {"bad", "miscased", "multibyte"}
          [] f \in Header -> {"bad", "miscased"}
          [] f = "expectedRevertPattern" -> {"absent", "null", "wrongType", "miscased", "empty", "good", "bad", "multibyte"}
          [] f = "value" -> {"absent", "null", "wrongType", "miscased", "empty", "good", "bad", "leadingZero"}
          [] OTHER -> {"absent", "null", "wrongType", "miscased", "empty", "good", "bad"}]
=============================================================================
