----------------------------- MODULE JsonSchema -----------------------------
(***************************************************************************)
(* app/backend/llm/vertex.py, _parse_and_validate: what of JSON Schema the *)
(* wrapper checks an answer against.                                       *)
(***************************************************************************)
EXTENDS Naturals, Sequences

CONSTANT OutputSchema \* json_schema of the request: the agent's schema.json

\* _validate_against_schema: a type it does not know, or a list of types, it
\* lets pass; a boolean is no number although Python's bool is an int.
RECURSIVE validate_against_schema(_, _)
validate_against_schema(json, schema) ==
  CASE schema.type = "object" ->
         /\ json.type = "object"
         /\ schema.required \subseteq DOMAIN json.value
         /\ schema.closed => DOMAIN json.value \subseteq DOMAIN schema.properties
         /\ \A key \in DOMAIN schema.properties \cap DOMAIN json.value :
              validate_against_schema(json.value[key], schema.properties[key])
    [] schema.type = "array" ->
         /\ json.type = "array"
         /\ \A i \in DOMAIN json.value : validate_against_schema(json.value[i], schema.items)
    [] schema.type = "number" -> json.type \in {"integer", "number"}
    [] schema.type \in {"string", "boolean", "integer"} -> json.type = schema.type
    [] OTHER -> TRUE

\* A text is a JSON value, or of type "not JSON".
parse_and_validate(text) ==
  text.type = "object" /\ validate_against_schema(text, OutputSchema)
=============================================================================
