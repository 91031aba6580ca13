------------------------------ MODULE Catalogue ------------------------------
(* The translation of the pages (internal/webui/i18n.js) and its catalogue    *)
(* (i18n-ko.js).  A text is a sequence of words; a template is one with       *)
(* holes.  The rest of a long sentence is a word of its own ("..").           *)
EXTENDS Integers, Sequences, FiniteSetsExt, SequencesExt

Hole == "*"

UsageTemplates == <<
  <<"Last", "read", Hole, "- updates every ..">>, <<Hole, "of", Hole, "requests", "unpriced">>,
  <<Hole, "input tokens processed ..">>, <<Hole, "responses", "-", Hole, "sessions">>,
  <<Hole, "tokens">>, <<Hole, "observed Claude ..">>, <<Hole, "responses", "per user turn">>,
  <<Hole, "input", "to", Hole, "output">>, <<Hole, "% of input was cached">>,
  <<Hole, "Claude tool calls", "-", Hole, "repeated identical calls. Codex ..">>,
  <<Hole, "observed main ..", Hole, "tool calls", "-", Hole, "repeated identical calls. Tool ..">>,
  <<Hole, "observed serialized ..", Hole, "from MCP", "-", Hole, "results ..">>,
  <<Hole, "large results ..">>, <<Hole, "observed MCP result ..">>,
  <<Hole, "repeated identical calls. Batch ..">>,
  <<Hole, "legacy estimates", "-", Hole, "unresolved events", "-", Hole, "shared copies ..">>,
  <<Hole, "recorded reasoning tokens ..">>, <<"Hour", Hole>>,
  <<"MCP", "packing:", Hole, "archived", "results">>, <<Hole, "-", "request", "by", "request">>,
  <<"Latest", Hole, "displayed ..">>, <<Hole, "/", "5">>,
  <<"Satisfaction", "fell", "from", Hole, "/5", "to", Hole, "/5. Stop ..">>,
  <<"Satisfaction", Hole, "/5", "to", Hole, "/5. Check matched ..">>,
  <<"Your", "satisfaction", "fell:", Hole, "/5", "to", Hole, "/5. Consider ..">>,
  <<"Your", "satisfaction:", Hole, "/5", "to", Hole, "/5. Check similar ..">>,
  <<"Started", Hole, "-", Hole, "instruction bytes ..">>, <<Hole, "% lower input ..">>,
  <<Hole, "% higher input ..">>, <<"Removed", Hole, ". Start a fresh ..">>,
  <<Hole, "responses">>, <<"Hourly", "buckets ..">>, <<"Daily", "buckets ..">>,
  <<"Session", Hole>>, <<"Last", "activity:", Hole>> >>

EvidenceTemplates == <<
  <<"Anthropic ..", "checked", Hole, "-", "USD estimate">>, <<"First", "baseline:", Hole>>,
  <<"Trial", Hole, "baseline", ":", Hole>>, <<"Trial", Hole, "-", "applied", ":", Hole>>,
  <<"Trial", Hole, "-", "rejected", ":", Hole>>, <<"Previous evaluation ..", Hole>>,
  <<Hole, "of", "24 complete hours ..">>,
  <<"Before:", "24", "hours.", "After:", Hole, "hours", ". This ..">>,
  <<"Before:", "24", "hours.", "After:", Hole, "hours", "-", "partial. This ..">>,
  <<"Expired", "-", "future ..", Hole, "; expires", Hole, ". Scope:", Hole, "through ..">>,
  <<"Stopped", "-", "future ..", Hole, "; expires", Hole, ". Scope:", Hole, "through ..">>,
  <<Hole, "responses", "-", "Observed">>, <<Hole, "known">>, <<Hole, "-", "Sample cache ratio">>,
  <<Hole, "-", "Sample payload sizes">>, <<Hole, "-", "Host capability required">>,
  <<Hole, "-", "Observed usage; ..">>, <<Hole, "-", "Observed cache ratio">>,
  <<Hole, "-", "Observed payload sizes">>, <<Hole, "-", "Observed repeats; ..">>,
  <<Hole, "-", "Capability-dependent; ..">>, <<"-", Hole, "transformations", "-", Hole, "recalls">>,
  <<"Raw result ..", Hole, "Excerpts:", Hole, "Recall:", Hole, ".", Hole, "% fewer ..">>,
  <<"Raw result ..", Hole, "Excerpts:", Hole, "Recall:", Hole, ".", Hole, "% more ..">>,
  <<Hole, "local transcript files", "-", Hole, "repeated ..", Hole, "invalid ..", Hole,
    "incomplete ..", Hole, "unreadable ..", Hole, "conflicting ..", Hole, ". Special ..">> >>

ExperimentTemplates == <<
  <<"Output", "limit:", Hole, "to", Hole, "tokens">>,
  <<"The response limit ..", Hole, "to", Hole, "tokens.">>,
  <<Hole, "before">>, <<Hole, "after">>, <<"Trial", Hole, "baseline">>,
  <<"Trial", Hole, "-", "applied">>, <<"Trial", Hole, "-", "rejected">>,
  <<Hole, "/", "success">>, <<Hole, "results", "missing">>,
  <<Hole, "recorded", "events", "-", "allowed", "-", "Demo resets ..">>,
  <<Hole, "recorded", "events", "-", "paused", "-", "Demo resets ..">>,
  <<Hole, "recorded", "events", "-", "allowed", "-", "Scheduling ..">>,
  <<Hole, "recorded", "events", "-", "paused", "-", "Scheduling ..">> >>

\* The catalogue's parts are appended as the scripts are loaded.
Templates == UsageTemplates \o EvidenceTemplates \o ExperimentTemplates

Nothing == <<"Usage", "over", "time">>
Saved == <<"Session", "name", "saved ..">>
NotSaved == <<"Browser", "storage", "is ..">>
Session == <<"Session">>

(* The whole texts of the catalogue that the model uses, in its order. *)

UnitStrings == {"Tokens", "Est. cost"}
LegendStrings == {"Back to all sessions", "New input + cache writes", "Cached input", "Output"}
HeadlineStrings ==
    {"Estimated token cost", "Standard list rates ..", "Input / response", "Input from cache",
     "Cached input costs less ..", "Output / response"}

TrialStrings ==
    {"Recorded responses", "Total processed tokens", "Cache reads / response",
     "Input / user turn", "Responses / user turn", "Tool-result bytes / response",
     "Est. cost / response", "Unpriced / no usage", "Answer & reasoning satisfaction",
     "Not rated", "Rate the usefulness ..", "Rule removed", "24 hours ready", "Observing",
     "Measure"}

PriceStrings == {"Category", "Recorded tokens", "USD / 1M tokens", "Estimated USD", "New input"}
ChoiceStrings == {"Choose a comparison"}
ProjectStrings == {"Project"}

InspectorStrings ==
    {"SESSION INSPECTOR", "Session ID", "Models", "Log stores", "Observed activity",
     "Local session name", "For example: payment ..", "Save name", "Stored only in ..",
     "Export aggregate JSON", "Input P50", "Input P95", "Largest input", "Main responses",
     "Subagent responses", "P50 is the median ..", "Responses include tool ..",
     "How this cost was calculated", "For each response: ..", "Standard list-price ..",
     "Price source", "Cache reads", "Cache writes", "Cache writes - 5 min",
     "Cache writes - 1 hour", "Subtotal", "Est. USD", "Incomplete price coverage",
     "Native Codex pricing ..", "This model is not ..", "The cache-write lifetime ..",
     "This speed mode ..", "This geography ..", "This long-context tier ..",
     "The source does not ..", "These tokens are counted ..", "Compare another session",
     "Different sessions can ..", "Find a session", "Search by name ..", "No matching sessions."}

Phrases == UnitStrings \cup HeadlineStrings \cup LegendStrings \cup TrialStrings \cup PriceStrings
             \cup ChoiceStrings \cup ProjectStrings \cup InspectorStrings

Strings == {Nothing, Saved, NotSaved, Session} \cup {<<phrase>> : phrase \in Phrases}
-----------------------------------------------------------------------------
(* i18n.js: the first template that matches the whole text *)

\* Mutant: a template need not match the text to its end.
FitsStart(template, text) ==
    LET ends[i \in 0 .. Len(template)] ==
          IF i = 0 THEN 0 .. Len(text)
          ELSE LET word == template[Len(template) + 1 - i]
                   after == ends[i - 1]
               IN IF word = Hole THEN {n \in 0 .. Len(text) : \E k \in after : n <= k}
                  ELSE {n \in 0 .. Len(text) - 1 : text[n + 1] = word /\ n + 1 \in after}
    IN ends

\* Where in the text the rest of it is matched by the last i words of the
\* template: behind these many words.
Fits(template, text) ==
    LET ends[i \in 0 .. Len(template)] ==
          IF i = 0 THEN {Len(text)}
          ELSE LET word == template[Len(template) + 1 - i]
                   after == ends[i - 1]
               IN IF word = Hole THEN {n \in 0 .. Len(text) : \E k \in after : n <= k}
                  ELSE {n \in 0 .. Len(text) - 1 : text[n + 1] = word /\ n + 1 \in after}
    IN ends

Matches(template, text) == 0 \in Fits(template, text)[Len(template)]

\* The words that the holes stand for; each hole takes as few as it can.
Found(template, text) ==
    LET fits == Fits(template, text)
        upTo[i \in 0 .. Len(template)] ==
          IF i = 0 THEN [at |-> 0, words |-> <<>>]
          ELSE LET before == upTo[i - 1]
                   to == Min({n \in fits[Len(template) - i] : before.at <= n})
               IN IF template[i] # Hole THEN [before EXCEPT !.at = @ + 1]
                  ELSE [at |-> to, words |-> before.words \o SubSeq(text, before.at + 1, to)]
    IN upTo[Len(template)].words

Matching(text) == {i \in DOMAIN Templates : Matches(Templates[i], text)}

\* The Korean sentence of a template, with the values in it.
Korean(i, values) == <<"ko", ToString(i)>> \o values

Translation(text) ==
    IF text \in Strings THEN <<"ko">> \o text
    ELSE IF Matching(text) = {} THEN text
    ELSE LET i == Min(Matching(text)) IN Korean(i, Found(Templates[i], text))
=============================================================================
