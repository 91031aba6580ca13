---------------------------- MODULE SessionLabels ----------------------------
(* The names and the language of the usage page: internal/webui/i18n.js,      *)
(* inspector.js and the parts of claude.js that show them.  A step is a task  *)
(* of the browser: the mutation observer runs before the next one, so the     *)
(* texts a step writes are translated within it.                              *)
EXTENDS Catalogue

CONSTANTS
    Sessions,       \* the sessions of the report
    Names,          \* the names a user types: sequences of words
    Prices,         \* the price groups of each session: "priced", or why they are not
    MaxClicks       \* bound on what the user does

NoSession == ""
NoName == <<>>
Languages == {"en", "ko"}

ASSUME LabelsAssumption ==
    /\ IsFiniteSet(Sessions) /\ NoSession \notin Sessions
    /\ MaxClicks \in Nat /\ Names \subseteq Seq(STRING) \ {NoName}
    /\ DOMAIN Prices = Sessions

VARIABLES
    opened,     \* how the page is opened: ?lang= of the URL, the browser's language
    browser,    \* its storage: does it work, the language and the names in it
    page,       \* the variables of the scripts
    drawn,      \* what is on the screen
    clicks      \* used up

vars == <<opened, browser, page, drawn, clicks>>
-----------------------------------------------------------------------------
(* Texts on the page *)

TitleOf(label) == label \o <<"-", "request", "by", "request">>

Frame ==
    {"SESSION INSPECTOR", "Export aggregate JSON", "Observed activity", "Session ID", "Models",
     "Log stores", "P50 is the median ..", "Responses include tool ..",
     "How this cost was calculated", "For each response: ..", "Standard list-price ..",
     "Price source", "Compare another session", "Choose a comparison"}

Facts == {"Input P50", "Input P95", "Largest input", "Main responses", "Subagent responses"}

NameForm == {"Project", "Local session name", "For example: payment ..", "Save name",
             "Stored only in .."}

Categories == {"New input", "Cache reads", "Cache writes - 5 min", "Cache writes - 1 hour", "Output"}

Measures == {"Measure", "Recorded responses", "Input / response", "Input P95",
             "Cache reads / response", "Output / response", "Estimated token cost",
             "Different sessions can .."}

Reasons ==
    [native_codex_unpriced |-> "Native Codex pricing ..",
     model_not_in_price_book |-> "This model is not ..",
     cache_lifetime_unknown |-> "The cache-write lifetime ..",
     unsupported_speed |-> "This speed mode ..", unsupported_geography |-> "This geography ..",
     unsupported_long_context_tier |-> "This long-context tier ..",
     price_breakdown_unavailable |-> "The source does not .."]

\* A reason the page does not know is told in general words.
Reason(reason) ==
    IF reason \in DOMAIN Reasons THEN Reasons[reason] ELSE Reasons.price_breakdown_unavailable

\* The texts around the prices of a session, in groups with rates and without.
PriceLabels(groups) ==
    LET gaps == groups \ {"priced"} IN
    IF groups = {} THEN {"The source does not .."}
    ELSE {"Recorded responses"}
      \cup (IF "priced" \in groups
            THEN {"Category", "Tokens", "USD / 1M tokens", "Estimated USD", "Subtotal"} \cup Categories
            ELSE {})
      \cup {Reason(gap) : gap \in gaps}
      \cup (IF gaps # {} THEN {"These tokens are counted .."} ELSE {})

\* A cost in the comparison, where every response has a price.
CostLabels(groups) == IF groups = {"priced"} THEN {} ELSE {"Incomplete price coverage"}

PanelLabels(panel) ==
    Frame \cup Facts \cup PriceLabels(Prices[panel.session])
      \cup (IF panel.project THEN NameForm ELSE {})
      \cup (IF panel.compared = NoSession THEN {}
            ELSE Measures \cup CostLabels(Prices[panel.session]) \cup CostLabels(Prices[panel.compared]))

\* The texts that occur on this page, each translated once.
PageTexts ==
    LET labels == Names \cup {Session \o <<id>> : id \in Sessions}
                        \cup {Translation(Session) \o <<id>> : id \in Sessions}
        words == {<<phrase>> : phrase \in Phrases \cup UNION {Prices[id] : id \in Sessions}}
    IN {<<>>, Nothing, Saved, NotSaved, Session} \cup {TitleOf(label) : label \in labels} \cup words

Translations ==
    LET texts == PageTexts \cup {Translation(text) : text \in PageTexts}
    IN [text \in texts |-> Translation(text)]

Shown(text, language) == IF language = "ko" THEN Translations[text] ELSE text

\* Mutant: the record keeps the text that was on the page before.
LocalizedOnce(node, language) ==
    LET next == Shown(node.value, language)
    IN [node EXCEPT !.value = next, !.record = <<[source |-> node.value, last |-> next]>>]

\* A text of the page remembers what it was translated from, unless the page
\* has written it again since.
Localized(node, language) ==
    LET source == IF node.record = <<>> \/ node.value # node.record[1].last THEN node.value
                  ELSE node.record[1].source
        next == Shown(source, language)
    IN [node EXCEPT !.value = next, !.record = <<[source |-> source, last |-> next]>>]

\* The page writes a text; the observer translates it.
Written(text, language) ==
    Localized([written |-> text, value |-> text, record |-> <<>>], language)

\* localize: every text that does not opt out (names, code, model IDs do).
LocalizedPage(d, language) ==
    [d EXCEPT !.title = Localized(@, language), !.notice = Localized(@, language)]

\* The name a session is shown by, in texts the observer leaves alone.
Label(p, id) == IF ~p.hidden /\ p.names[id] # NoName THEN p.names[id]
                ELSE Shown(Session, p.language) \o <<id>>
-----------------------------------------------------------------------------
(* Drawing: renderChart's title, renderSessions, renderInspector *)

Title(p) == IF p.selected = NoSession THEN Nothing
            ELSE TitleOf(Label(p, p.selected))

\* The list shows the sessions in whose texts the search is found.
FoundIn(p, id) ==
    p.search = NoName \/ p.search = Label(p, id) \/ (~p.hidden /\ p.search = <<"project">>)

Rows(p) == [id \in {s \in Sessions : FoundIn(p, s)} |-> Label(p, id)]

NoField == [session |-> NoSession, value |-> NoName]

\* Mutant: a new panel comes with the saved name in its field.
FieldReset(p, panel) == [session |-> p.selected, value |-> p.names[p.selected]]

\* A name that is being typed stays in the field of its session.
Field(p, panel) ==
    IF panel.field.session = p.selected THEN panel.field
    ELSE [session |-> p.selected, value |-> p.names[p.selected]]

\* The inspector of a session: its names, its project, the session it is
\* compared with, and the field for its name.  Its figures are UsageView's.
Panel(p, panel) ==
    [shown |-> TRUE, session |-> p.selected, language |-> p.language, project |-> ~p.hidden,
     labels |-> [id \in Sessions |-> Label(p, id)],
     compared |-> IF p.compare = p.selected THEN NoSession ELSE p.compare,
     field |-> IF p.hidden THEN NoField ELSE Field(p, panel)]

\* The panel is hidden, as it was, when no session is selected.
Inspector(p, panel) ==
    IF p.selected = NoSession THEN [panel EXCEPT !.shown = FALSE] ELSE Panel(p, panel)

\* render: nothing while the report of another source is awaited.
Render(p, d) ==
    IF ~p.loaded THEN d
    ELSE [d EXCEPT !.title = Written(Title(p), p.language), !.rows = Rows(p),
                   !.projects = ~p.hidden, !.inspector = Inspector(p, d.inspector)]

Redrawn(p) == page' = p /\ drawn' = Render(p, drawn)
-----------------------------------------------------------------------------
\* ?lang= first, then the saved choice, then the browser's language.
Language(o, b) ==
    IF o.requested \in Languages THEN o.requested
    ELSE IF b.storage # "blocked" /\ b.language \in Languages THEN b.language
    ELSE o.navigator

Loaded(o, b) ==
    [language |-> Language(o, b), hidden |-> FALSE, selected |-> NoSession, compare |-> NoSession,
     names |-> IF b.storage = "blocked" THEN [id \in Sessions \cup {NoSession} |-> NoName] ELSE b.names,
     search |-> NoName, loaded |-> FALSE]

Blank(language) ==
    [title |-> Written(Nothing, language), notice |-> Written(<<>>, language),
     rows |-> [id \in {} |-> NoName], projects |-> FALSE,
     inspector |-> [shown |-> FALSE, session |-> NoSession, language |-> language, project |-> FALSE,
                    labels |-> [id \in Sessions |-> NoName], compared |-> NoSession,
                    field |-> NoField]]

Init ==
    /\ opened \in [requested : Languages \cup {"fr", "none"}, navigator : Languages]
    /\ browser \in [storage : {"works", "full", "blocked"}, language : Languages \cup {"none"},
                    names : {[id \in Sessions \cup {NoSession} |-> NoName]}]
    /\ page = Loaded(opened, browser)
    /\ drawn = Blank(page.language)
    /\ clicks = 0

Click == clicks < MaxClicks /\ clicks' = clicks + 1

Reload ==
    /\ Click
    /\ page' = Loaded(opened, browser)
    /\ drawn' = Blank(page'.language)
    /\ UNCHANGED <<opened, browser>>

\* The parts that hold translated words are drawn again, the rest is
\* translated where it stands.
SetLanguage(language) ==
    LET p == [page EXCEPT !.language = language]
    IN page' = p /\ drawn' = LocalizedPage(Render(p, drawn), language)

ChooseLanguage ==
    /\ Click
    /\ \E language \in Languages \ {page.language} :
         /\ SetLanguage(language)
         /\ browser' = IF browser.storage = "works" THEN [browser EXCEPT !.language = language]
                       ELSE browser
    /\ UNCHANGED opened

\* A read is answered: the sessions are those of the chosen source.
Answered == Redrawn([page EXCEPT !.loaded = TRUE]) /\ UNCHANGED <<opened, browser, clicks>>

\* Another source is read, or another range: the page stays as it is drawn.
ChooseSource ==
    /\ Click
    /\ page' = [page EXCEPT !.selected = NoSession, !.loaded = FALSE]
    /\ UNCHANGED <<opened, browser, drawn>>

ChooseRange ==
    /\ Click
    /\ page' = [page EXCEPT !.selected = NoSession]
    /\ UNCHANGED <<opened, browser, drawn>>

Select ==
    /\ Click
    /\ \E id \in DOMAIN drawn.rows \cup {NoSession} : Redrawn([page EXCEPT !.selected = id])
    /\ UNCHANGED <<opened, browser>>

HideNames ==
    /\ Click
    /\ Redrawn([page EXCEPT !.hidden = ~@])
    /\ UNCHANGED <<opened, browser>>

Search ==
    /\ Click
    /\ \E text \in Names \cup {NoName, <<"project">>} : page' = [page EXCEPT !.search = text]
    /\ drawn' = IF page.loaded THEN [drawn EXCEPT !.rows = Rows(page')] ELSE drawn
    /\ UNCHANGED <<opened, browser>>

Compare ==
    /\ Click
    /\ drawn.inspector.shown
    /\ \E id \in Sessions \cup {NoSession} : page' = [page EXCEPT !.compare = id]
    /\ drawn' = IF page.loaded THEN [drawn EXCEPT !.inspector = Inspector(page', @)] ELSE drawn
    /\ UNCHANGED <<opened, browser>>

HasField == drawn.inspector.shown /\ drawn.inspector.field # NoField

TypeName ==
    /\ Click /\ HasField
    /\ \E name \in Names \cup {NoName} : drawn' = [drawn EXCEPT !.inspector.field.value = name]
    /\ UNCHANGED <<opened, browser, page>>

\* Mutant: the names are changed before they are stored.
NamesSavedFirst(names, stored) == names
NamesSaved(names, stored) == IF stored THEN names ELSE page.names

\* The name in the field is saved for the session that is selected now, which
\* need not be the one on the panel.  The chart's title is not drawn again.
SaveName ==
    /\ Click /\ HasField
    /\ LET names == [page.names EXCEPT ![page.selected] = drawn.inspector.field.value]
           stored == browser.storage = "works"
           p == [page EXCEPT !.names = NamesSaved(names, stored)]
       IN /\ page' = p
          /\ browser' = IF stored THEN [browser EXCEPT !.names = names] ELSE browser
          /\ drawn' = [drawn EXCEPT
               !.notice = Written(IF stored THEN Saved ELSE NotSaved, p.language),
               !.rows = IF p.loaded THEN Rows(p) ELSE @,
               !.inspector = IF p.loaded THEN Inspector(p, @) ELSE @]
    /\ UNCHANGED opened

Next ==
    \/ Reload \/ Answered \/ ChooseLanguage \/ ChooseSource \/ ChooseRange \/ Select
    \/ HideNames \/ Search \/ Compare \/ TypeName \/ SaveName

Spec == Init /\ [][Next]_vars
-----------------------------------------------------------------------------
TypeOK ==
    /\ page.language \in Languages /\ page.selected \in Sessions \cup {NoSession}
    /\ page.names \in [Sessions \cup {NoSession} -> Names \cup {NoName}]
    /\ page.search \in Names \cup {NoName, <<"project">>}
    /\ DOMAIN drawn.rows \subseteq Sessions
    /\ drawn.inspector.field.value \in Names \cup {NoName}

\* No text of the inspector stays English in the Korean page, whichever reasons
\* the report gives for a missing price: every label has its entry.
LabelsTranslated ==
    drawn.inspector.shown =>
      \A label \in PanelLabels(drawn.inspector) :
        Shown(<<label>>, drawn.inspector.language) = <<label>> <=> drawn.inspector.language = "en"

\* Every text that the observer translates is in the chosen language, however
\* often it was switched, and is what the page wrote last: English comes back
\* as it was.  The words the page translates itself follow, too, and no label
\* of the inspector is without its entry.
OneLanguage ==
    /\ LabelsTranslated
    /\ drawn.notice.value = Shown(drawn.notice.written, page.language)
    /\ drawn.title.value = Shown(drawn.title.written, page.language)
    /\ page.loaded =>
         /\ drawn.inspector.shown => drawn.inspector.language = page.language
         /\ \A id \in DOMAIN drawn.rows : drawn.rows[id] = Label(page, id)
         /\ page.selected # NoSession => drawn.title.written \in
              {TitleOf(Shown(Session, page.language) \o <<page.selected>>)}
                \cup {TitleOf(name) : name \in Names}

\* "Hide project names hides names and aliases in the session views": while they
\* are hidden, the title has no name but perhaps a session's ID, the list is
\* labelled and searched without names and has no column of projects, and the
\* open panel has neither a name, nor a project, nor the field for a name.
HiddenKept ==
    page.hidden /\ page.loaded =>
      LET nameless == [page EXCEPT !.names = [id \in DOMAIN @ |-> NoName]] IN
      /\ drawn.title.written \in {Title([nameless EXCEPT !.selected = s]) : s \in DOMAIN page.names}
      /\ drawn.rows = [id \in {s \in Sessions : FoundIn(nameless, s)} |-> Label(nameless, id)]
      /\ ~drawn.projects
      /\ drawn.inspector.shown =>
           /\ drawn.inspector.labels = [id \in Sessions |-> Label(nameless, id)]
           /\ ~drawn.inspector.project /\ drawn.inspector.field = NoField

\* The names on the page are those the storage has, unless it cannot be read:
\* a name that could not be stored is not shown either.
NamesStored == browser.storage # "blocked" => page.names = browser.names

\* "Code, model/tool IDs and user names stay literal": the Korean title has
\* the user's name as it was typed.  A name that begins like a template with a
\* hole at its end does not: "Hour" is the only one that comes first.
NamesLiteral ==
    \A name \in Names :
      drawn.title.written = TitleOf(name) /\ name[1] # "Hour" =>
        IF page.language = "ko" THEN IsSuffix(name, drawn.title.value)
        ELSE drawn.title.value = TitleOf(name)

\* Every message is translated by its own template, whatever comes before it
\* in the catalogue.  The one exception is "Output limit", which ends like
\* "{{n}} tokens".
Instance(i) == [k \in DOMAIN Templates[i] |-> IF Templates[i][k] = Hole THEN "7" ELSE Templates[i][k]]
Owners == [i \in DOMAIN Templates |-> Matching(Instance(i))]
CatalogueSound ==
    page.language = "ko" =>
      \A i \in DOMAIN Templates :
        Owners[i] = IF Templates[i][1] = "Output" THEN {5, i} ELSE {i}

\* A name that is being typed is never replaced by a read, a language, a
\* search or a comparison, only by another session, Hide, or the user.
TypingKept ==
    [][LET old == drawn.inspector
           new == drawn'.inspector
       IN /\ old.shown /\ new.shown /\ old.field # NoField
          /\ page.selected = page'.selected /\ ~page.hidden /\ ~page'.hidden
          /\ old.field.session = page.selected
          => new.field = old.field \/ TypeName]_vars

\* A reload comes up in the language that was chosen, unless the URL asks for
\* another one or nothing could be stored.
LanguageKept ==
    [][Reload /\ opened.requested = "none" /\ browser.storage = "works"
         => page'.language = page.language]_vars

\* Names are stored, hidden and shown literally, wherever the page has them.
NamesKept == TypeOK /\ HiddenKept /\ NamesStored /\ NamesLiteral

\* What the user typed or chose is not lost by drawing or loading the page again.
InputKept == TypingKept /\ LanguageKept
=============================================================================
