---------------------------- MODULE StreamNodes ----------------------------
(***************************************************************************)
(* The node types that handle their input item by item: what each emits    *)
(* for one item, on which ports, in which form.                            *)
(*                                                                         *)
(* Forms: "result", what the node makes of the item; "input", the item as  *)
(* it came; "error", a record that says what failed; "text", the item's    *)
(* str(); "record", an entry in the node's live view and no emission.      *)
(* An item is ok when it converts, matches or can be written.              *)
(*                                                                         *)
(* A definition marked "Defect" is a wrong version of the one after it, to *)
(* check that the properties would notice; no specification uses it.       *)
(***************************************************************************)
EXTENDS NodeLoop

StreamType(t, ports, polls, opt) ==
  [type |-> t, ports |-> ports, polls |-> polls, opt |-> opt, varies |-> ToSet(ports)]

Outs == <<"out0", "out1", "out2">>

\* What a splitter compares its items with: nothing, one value twice, or both.
SplitValues == {<<>>, <<TRUE, TRUE>>, <<FALSE, TRUE>>}

StreamTypes ==
  {StreamType(t, <<"in">>, "named", <<>>) :
     t \in {"transform", "template", "json_extract", "math", "not", "json_modify",
            "tokenizer", "encoding_convert", "trim_string", "json_output",
            "file_output", "log_output"}}
  \cup {StreamType("grep", <<"in">>, "once", <<>>)}
  \cup {StreamType(t, <<"in">>, "kept", [allowed |-> a]) :
          t \in {"script", "scripted_output"}, a \in BOOLEAN}
  \cup {StreamType("compare", <<"in">>, "named", [branch |-> b]) : b \in BOOLEAN}
  \cup {StreamType("fork", <<"in">>, "named", [outs |-> o]) : o \in {<<>>, <<"out0", "out1">>}}
  \cup {StreamType("split_by_value", <<"in">>, "named", [values |-> v]) : v \in SplitValues}
  \cup {StreamType("round_robin", <<"in">>, "named", [count |-> n]) : n \in {1, 2, 3}}
  \cup {StreamType(t, <<"in", "in2">>, "first", <<>>) :
          t \in {"base64_encode", "base64_decode", "html_scraper", "display"}}
  \cup {StreamType(t, <<"in", "in2">>, "all", <<>>) : t \in {"merge", "led_activity"}}

-----------------------------------------------------------------------------

\* The common case: one emission on 'out'; what fails takes another form.
OnOut(type, otherwise) ==
  Each(type, LAMBDA s, p, i :
    Give(s, i, <<"out">>, IF i.ok THEN "result" ELSE otherwise))

\* Transforms (numeric_*, text_*), path extraction and arithmetic hand on
\* what they cannot convert.
Transform       == OnOut("transform", "input")
JSONExtract     == OnOut("json_extract", "input")
Math            == OnOut("math", "input")
EncodingConvert == OnOut("encoding_convert", "input")

\* These convert whatever str() or bool() gives.
Template        == OnOut("template", "result")
Not             == OnOut("not", "result")
TrimString      == OnOut("trim_string", "result")
HTMLScraper     == OnOut("html_scraper", "result")
Display         == OnOut("display", "result")
LogOutput       == OnOut("log_output", "result")

\* An operation that fails is noted in _last_error; the rest still apply.
JSONModify      == OnOut("json_modify", "result")

JSONOutput      == OnOut("json_output", "text")
Base64Encode    == OnOut("base64_encode", "error")
Base64Decode    == OnOut("base64_decode", "error")

\* Defect: a script that fails emits nothing.
RunScriptSilent(type) ==
  Each(type, LAMBDA s, p, i :
    IF node.opt.allowed /\ i.ok THEN Give(s, i, <<"out">>, "result") ELSE s)

\* Both run a script for each item, unless the deployment forbids it.
RunScript(type) ==
  Each(type, LAMBDA s, p, i :
    Give(s, i, <<"out">>, IF node.opt.allowed /\ i.ok THEN "result" ELSE "error"))
Script         == RunScript("script")
ScriptedOutput == RunScript("scripted_output")

Grep ==
  Each("grep", LAMBDA s, p, i : IF i.ok THEN Give(s, i, <<"out">>, "input") ELSE s)

Tokenizer ==
  Each("tokenizer", LAMBDA s, p, i :
    IF i.ok THEN Give(s, i, <<"out", "out">>, "result") ELSE s)

Compare ==
  Each("compare", LAMBDA s, p, i :
    Give(s, i, IF ~node.opt.branch THEN <<"out">>
               ELSE <<"out", IF i.ok THEN "true" ELSE "false">>, "result"))

\* Every output with a wire.
Fork == Each("fork", LAMBDA s, p, i : Give(s, i, node.opt.outs, "input"))

Merge == Each("merge", LAMBDA s, p, i : Give(s, i, <<"out">>, "input"))

\* inN goes to outN, and any other port to the output of its own name.
LedActivity ==
  Each("led_activity", LAMBDA s, p, i :
    Give(s, i, <<IF p = "in2" THEN "out2" ELSE p>>, "input"))

\* The first of the configured values that the item has, else 'default'.
\* (An item of this type has the value i.ok.)
SplitByValue ==
  Each("split_by_value", LAMBDA s, p, i :
    LET k == SelectInSeq(node.opt.values, LAMBDA v : v = i.ok)
    IN Give(s, i, <<IF k = 0 THEN "default" ELSE Outs[k]>>, "input"))

RoundRobin ==
  Each("round_robin", LAMBDA s, p, i :
    [Give(s, i, <<Outs[s.mem.next + 1]>>, "input") EXCEPT
       !.mem.next = (@ + 1) % node.opt.count])

\* A failed write is recorded too, and the node goes on.
FileOutput ==
  Each("file_output", LAMBDA s, p, i :
    Give(s, i, <<>>, IF i.ok THEN "record" ELSE "error"))

StreamStep ==
  \/ Transform \/ JSONExtract \/ Math \/ EncodingConvert
  \/ Template \/ Not \/ TrimString \/ HTMLScraper \/ Display \/ LogOutput
  \/ JSONModify \/ JSONOutput \/ Base64Encode \/ Base64Decode
  \/ Script \/ ScriptedOutput
  \/ Grep \/ Tokenizer \/ Compare
  \/ Fork \/ Merge \/ LedActivity \/ SplitByValue \/ RoundRobin
  \/ FileOutput

\* What init() sets, and what the reset() of the round robin sets again.
StreamMem == IF node.type = "round_robin" THEN [next |-> 0] ELSE <<>>

-----------------------------------------------------------------------------
(* Properties.                                                             *)

\* The outputs of a round robin take turns from the first item after init()
\* or reset() on, with no turn skipped or repeated by a pause in between.
TakesTurns ==
  node.type = "round_robin" /\ Fresh # <<>> =>
    Last(out).to = <<Outs[((Len(Fresh) - 1) % node.opt.count) + 1]>>
=============================================================================
