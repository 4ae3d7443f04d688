---------------------------- MODULE MCCallModel ----------------------------
(* Instances of CallModel for TLC. *)
EXTENDS CallModel, JsonSchema, TLC

CONSTANTS t1, t2   \* the interviewer's task, the background assessor's

Codes == {0, 400, 403, 404, 429, 499, 500, 504, 505, 599, 600}

\* A piece of prompts/assessor's schema.json with every construct it has.
Of(type) == [type |-> type]
Object(required, properties) ==
  [type |-> "object", required |-> required, closed |-> TRUE, properties |-> properties]
Item == Object({"level", "confidence"}, "level" :> Of("integer") @@ "confidence" :> Of("number"))
AssessorSchema ==
  Object({"focus", "items", "review"},
         "focus" :> Of("string") @@ "items" :> [type |-> "array", items |-> Item]
           @@ "review" :> Of("boolean") @@ "reason" :> Of("string or null"))

Value(type) == [type |-> type, value |-> <<>>]
Fields(f) == [type |-> "object", value |-> f]
Items(s) == [type |-> "array", value |-> s]
Scored(level, confidence) ==
  Fields("level" :> Value(level) @@ "confidence" :> Value(confidence))
Output(items) ==
  "focus" :> Value("string") @@ "items" :> Items(items) @@ "review" :> Value("boolean")

NotJson == Value("not JSON")
Right == {Fields(Output(<<>>)), Fields(Output(<<Scored("integer", "number"), Scored("integer", "integer")>>)),
          Fields(Output(<<>>) @@ "reason" :> Value("null"))}
Wrong == {NotJson, Items(<<>>), Value("string"), Fields("items" :> Items(<<>>)),
          Fields(Output(<<>>) @@ "note" :> Value("string")),
          Fields(Output(<<Scored("integer", "number"), Scored("boolean", "number")>>)),
          Fields(Output(<<Scored("number", "number")>>)), Fields(Output(<<Value("integer")>>)),
          Fields("items" :> Fields(<<>>) @@ Output(<<>>))}
AllTexts == Right \cup Wrong

ASSUME TextsAreJudged == \A text \in AllTexts : parse_and_validate(text) <=> text \in Right
=============================================================================
