------------------------- MODULE SessionLabelsProofs -------------------------
(* Proofs about SessionLabels, for any sessions, names, price groups and      *)
(* number of clicks: the page is in one language, names are stored and hidden *)
(* as the user asked, and what was typed or chosen is kept.                   *)
EXTENDS SessionLabels, TotalsProofs, SequenceTheorems

-----------------------------------------------------------------------------
(* What is invariant.                                                         *)

AnySession == Sessions \cup {NoSession}
AnyName == Names \cup {NoName}

IsPage(p) ==
  /\ p = [language |-> p.language, hidden |-> p.hidden, selected |-> p.selected,
          compare |-> p.compare, names |-> p.names, search |-> p.search, loaded |-> p.loaded]
  /\ p.language \in Languages /\ p.hidden \in BOOLEAN /\ p.loaded \in BOOLEAN
  /\ p.selected \in AnySession /\ p.compare \in AnySession
  /\ p.names \in [AnySession -> AnyName]
  /\ p.search \in AnyName \cup {<<"project">>}

IsBrowser(b) ==
  /\ b = [storage |-> b.storage, language |-> b.language, names |-> b.names]
  /\ b.names \in [AnySession -> AnyName]

IsOpened(o) == o.navigator \in Languages

IsField(f) == f = [session |-> f.session, value |-> f.value] /\ f.value \in AnyName

IsPanel(q) ==
  /\ q = [shown |-> q.shown, session |-> q.session, language |-> q.language,
          project |-> q.project, labels |-> q.labels, compared |-> q.compared, field |-> q.field]
  /\ q.shown \in BOOLEAN /\ (q.shown => q.session \in Sessions)
  /\ q.language \in Languages /\ q.compared \in AnySession
  /\ IsField(q.field)

IsScreen(d) ==
  /\ d = [title |-> d.title, notice |-> d.notice, rows |-> d.rows, projects |-> d.projects,
          inspector |-> d.inspector]
  /\ DOMAIN d.rows \subseteq Sessions
  /\ IsPanel(d.inspector)

\* A text that the observer has translated, and what it remembers of it.
Drawing(text, language) ==
  [written |-> text, value |-> Shown(text, language),
   record |-> <<[source |-> text, last |-> Shown(text, language)]>>]

InLanguage(d, language) ==
  d.title = Drawing(d.title.written, language) /\ d.notice = Drawing(d.notice.written, language)

\* The title is of the selected session; a name in it may be an older one.
TitleOK(p, text) ==
  \E id \in AnySession :
    /\ p.selected # NoSession => id = p.selected
    /\ \/ id = NoSession /\ text = Nothing
       \/ id # NoSession /\ text = TitleOf(Shown(Session, p.language) \o <<id>>)
       \/ id # NoSession /\ ~p.hidden /\ \E name \in Names : text = TitleOf(name)

PanelOK(p, q) ==
  /\ q.language = p.language /\ q.labels = [id \in Sessions |-> Label(p, id)]
  /\ q.project = ~p.hidden /\ (p.hidden => q.field = NoField)

\* The screen is of this page.
Shows(p, d) ==
  /\ d.rows = Rows(p) /\ d.projects = ~p.hidden
  /\ TitleOK(p, d.title.written)
  /\ d.inspector.shown => PanelOK(p, d.inspector)

\* What would be read again is what the page has.
Stored(o, b, p) ==
  /\ b.storage # "blocked" => p.names = b.names
  /\ o.requested = "none" /\ b.storage = "works" => p.language = Language(o, b)

Consistent(o, b, p, d) ==
  /\ IsOpened(o) /\ IsBrowser(b) /\ IsPage(p) /\ IsScreen(d) /\ InLanguage(d, p.language)
  /\ p.loaded => Shows(p, d)
  /\ Stored(o, b, p)

IInv == Consistent(opened, browser, page, drawn)
-----------------------------------------------------------------------------
(* Texts and drawing.                                                         *)

\* A text that the page writes is translated, and remembered, once.
LEMMA WrittenIs ==
  ASSUME NEW text, NEW language
  PROVE  Written(text, language) = Drawing(text, language)
<1> DEFINE node == [written |-> text, value |-> text, record |-> <<>>]
<1>1. node.record = <<>> /\ node.value = text
  OBVIOUS
<1>2. Written(text, language)
        = [node EXCEPT !.value = Shown(text, language),
             !.record = <<[source |-> text, last |-> Shown(text, language)]>>]
  <2> HIDE DEF node
  <2>1. Localized(node, language)
          = [node EXCEPT !.value = Shown(text, language),
               !.record = <<[source |-> text, last |-> Shown(text, language)]>>]
    BY <1>1 DEF Localized
  <2> QED
    BY <2>1 DEF Written, node
<1> QED
  BY <1>2 DEF Drawing

\* However often it is translated again, it is what the page wrote.
LEMMA LocalizedIs ==
  ASSUME NEW text, NEW old, NEW language
  PROVE  Localized(Drawing(text, old), language) = Drawing(text, language)
<1> DEFINE record == [source |-> text, last |-> Shown(text, old)]
<1>1. Drawing(text, old).record = <<record>> /\ Drawing(text, old).value = record.last
  BY DEF Drawing
<1>2. <<record>> # <<>> /\ <<record>>[1] = record
  OBVIOUS
<1>3. record.source = text
  OBVIOUS
<1> HIDE DEF record
<1>4. Localized(Drawing(text, old), language)
        = [Drawing(text, old) EXCEPT !.value = Shown(text, language),
             !.record = <<[source |-> text, last |-> Shown(text, language)]>>]
  BY <1>1, <1>2, <1>3 DEF Localized
<1> QED
  BY <1>4 DEF Drawing

LEMMA NothingNamed == NoField = [session |-> NoSession, value |-> NoName] /\ IsField(NoField)
BY DEF NoField, IsField, AnyName

\* A panel that is drawn is of this page.
LEMMA InspectorIs ==
  ASSUME NEW p, IsPage(p), NEW q, IsPanel(q)
  PROVE  LET new == Inspector(p, q) IN
         /\ IsPanel(new)
         /\ new.shown => PanelOK(p, new)
         /\ new.shown = (p.selected # NoSession)
         /\ new.shown /\ ~p.hidden /\ q.field.session = p.selected => new.field = q.field
<1> DEFINE new == Inspector(p, q)
<1>1. CASE p.selected = NoSession
  <2>1. new = [q EXCEPT !.shown = FALSE]
    BY <1>1 DEF Inspector
  <2>2. new = [shown |-> FALSE, session |-> q.session, language |-> q.language,
               project |-> q.project, labels |-> q.labels, compared |-> q.compared, field |-> q.field]
    BY <2>1 DEF IsPanel
  <2>3. IsPanel(new) /\ new.shown = FALSE
    BY <2>2 DEF IsPanel
  <2> QED
    BY <1>1, <2>3
<1>2. CASE p.selected # NoSession
  <2> DEFINE field == IF p.hidden THEN NoField ELSE Field(p, q)
             labels == [id \in Sessions |-> Label(p, id)]
             compared == IF p.compare = p.selected THEN NoSession ELSE p.compare
  <2>1. new = [shown |-> TRUE, session |-> p.selected, language |-> p.language,
               project |-> ~p.hidden, labels |-> labels, compared |-> compared, field |-> field]
    BY <1>2 DEF Inspector, Panel
  <2>2. p.names[p.selected] \in AnyName
    BY DEF IsPage
  <2>3. IsField(field)
    <3>1. IsField(q.field)
      BY DEF IsPanel
    <3>2. IsField([session |-> p.selected, value |-> p.names[p.selected]])
      BY <2>2 DEF IsField
    <3> QED
      BY <3>1, <3>2, NothingNamed DEF Field
  <2>4. p.hidden => field = NoField
    OBVIOUS
  <2>5. ~p.hidden /\ q.field.session = p.selected => field = q.field
    BY DEF Field
  <2>6. compared \in AnySession /\ p.selected \in Sessions /\ p.language \in Languages
    BY <1>2 DEF IsPage, AnySession
  <2> HIDE DEF field, compared
  <2>7. IsPanel(new)
    BY <2>1, <2>3, <2>6 DEF IsPanel
  <2>8. PanelOK(p, new)
    BY <2>1, <2>4 DEF PanelOK
  <2>9. new.shown /\ new.field = field
    BY <2>1
  <2> QED
    BY <1>2, <2>5, <2>7, <2>8, <2>9
<1> QED
  BY <1>1, <1>2

\* The title of a page is one that the page may have.
LEMMA TitleIs ==
  ASSUME NEW p, IsPage(p)
  PROVE  TitleOK(p, Title(p))
<1>1. CASE p.selected = NoSession
  BY <1>1 DEF TitleOK, Title, AnySession
<1>2. CASE p.selected # NoSession
  <2>1. Title(p) = TitleOf(Label(p, p.selected)) /\ p.selected \in AnySession
    BY <1>2 DEF Title, IsPage
  <2>2. CASE ~p.hidden /\ p.names[p.selected] # NoName
    <3>1. Label(p, p.selected) = p.names[p.selected] /\ p.names[p.selected] \in Names
      BY <2>1, <2>2 DEF Label, IsPage, AnyName
    <3> QED
      BY <1>2, <2>1, <2>2, <3>1 DEF TitleOK
  <2>3. CASE ~(~p.hidden /\ p.names[p.selected] # NoName)
    <3>1. Label(p, p.selected) = Shown(Session, p.language) \o <<p.selected>>
      BY <2>3 DEF Label
    <3> QED
      BY <1>2, <2>1, <3>1 DEF TitleOK
  <2> QED
    BY <2>2, <2>3
<1> QED
  BY <1>1, <1>2

LEMMA RowsOf == ASSUME NEW p PROVE DOMAIN Rows(p) \subseteq Sessions
BY DEF Rows

\* After a drawing of the whole page it is shown, and nothing else has changed.
LEMMA RenderShows ==
  ASSUME NEW p, IsPage(p), NEW d, IsScreen(d)
  PROVE  LET new == Render(p, d) IN
         /\ IsScreen(new)
         /\ p.loaded => Shows(p, new) /\ new.title = Drawing(new.title.written, p.language)
         /\ ~p.loaded => new = d
         /\ new.notice = d.notice
<1> DEFINE new == Render(p, d)
<1>1. CASE ~p.loaded
  BY <1>1 DEF Render
<1>2. CASE p.loaded
  <2> DEFINE title == Written(Title(p), p.language)
             rows == Rows(p)
             inspector == Inspector(p, d.inspector)
  <2>1. new = [d EXCEPT !.title = title, !.rows = rows, !.projects = ~p.hidden,
                        !.inspector = inspector]
    BY <1>2 DEF Render
  <2>2. IsPanel(inspector) /\ (inspector.shown => PanelOK(p, inspector))
    BY InspectorIs DEF IsScreen
  <2>3. title = Drawing(title.written, p.language) /\ title.written = Title(p)
    <3>1. title = Drawing(Title(p), p.language)
      BY WrittenIs
    <3> QED
      BY <3>1 DEF Drawing
  <2>4. DOMAIN rows \subseteq Sessions
    BY RowsOf
  <2>5. rows = Rows(p)
    OBVIOUS
  <2> HIDE DEF title, rows, inspector
  <2>6. new = [title |-> title, notice |-> d.notice, rows |-> rows, projects |-> ~p.hidden,
               inspector |-> inspector]
    BY <2>1 DEF IsScreen
  <2>7. IsScreen(new)
    BY <2>6, <2>2, <2>4 DEF IsScreen
  <2>8. Shows(p, new)
    BY <2>6, <2>2, <2>3, <2>5, TitleIs DEF Shows
  <2> QED
    BY <1>2, <2>3, <2>6, <2>7, <2>8
<1>3. p.loaded \in BOOLEAN
  BY DEF IsPage
<1> QED
  BY <1>1, <1>2, <1>3

\* What depends on the names, the language, Hide and the search alone.
LEMMA SameLabels ==
  ASSUME NEW p, NEW new, new.names = p.names, new.language = p.language, new.hidden = p.hidden
  PROVE  /\ \A id : Label(new, id) = Label(p, id)
         /\ new.search = p.search => Rows(new) = Rows(p)
<1>1. \A id : Label(new, id) = Label(p, id)
  BY DEF Label
<1>2. ASSUME new.search = p.search PROVE Rows(new) = Rows(p)
  <2>1. \A id : FoundIn(new, id) = FoundIn(p, id)
    BY <1>1, <1>2 DEF FoundIn
  <2>2. {id \in Sessions : FoundIn(new, id)} = {id \in Sessions : FoundIn(p, id)}
    BY <2>1
  <2> QED
    BY <1>1, <2>2 DEF Rows
<1> QED
  BY <1>1, <1>2

\* A step that draws the page again leaves a consistent one.
LEMMA RedrawnIs ==
  ASSUME NEW o, NEW b, NEW p, NEW d, Consistent(o, b, p, d),
         NEW new, IsPage(new), new.language = p.language, Stored(o, b, new)
  PROVE  Consistent(o, b, new, Render(new, d))
<1> DEFINE e == Render(new, d)
<1>1. IsScreen(e) /\ e.notice = d.notice
      /\ (new.loaded => Shows(new, e) /\ e.title = Drawing(e.title.written, new.language))
      /\ (~new.loaded => e = d)
  BY RenderShows DEF Consistent
<1> HIDE DEF e
<1>2. InLanguage(e, new.language)
  BY <1>1 DEF Consistent, InLanguage
<1>3. Consistent(o, b, new, e)
  BY <1>1, <1>2 DEF Consistent
<1> QED
  BY <1>3 DEF e
-----------------------------------------------------------------------------
(* The steps.                                                                 *)

LEMMA NoNames == [id \in AnySession |-> NoName] \in [AnySession -> AnyName]
BY DEF AnyName

\* A page that is loaded is blank, in the language that is stored.
LEMMA LoadedIs ==
  ASSUME NEW o, IsOpened(o), NEW b, IsBrowser(b)
  PROVE  LET p == Loaded(o, b) IN
         /\ Consistent(o, b, p, Blank(p.language))
         /\ p.language = Language(o, b)
         /\ ~Blank(p.language).inspector.shown
<1> DEFINE language == Language(o, b)
           names == IF b.storage = "blocked" THEN [id \in Sessions \cup {NoSession} |-> NoName]
                    ELSE b.names
<1>1. language \in Languages
  BY DEF Language, IsOpened
<1>2. names \in [AnySession -> AnyName] /\ (b.storage # "blocked" => names = b.names)
  BY NoNames DEF IsBrowser, AnySession
<1> HIDE DEF language, names
<1> DEFINE p == [language |-> language, hidden |-> FALSE, selected |-> NoSession,
                 compare |-> NoSession, names |-> names, search |-> NoName, loaded |-> FALSE]
<1>3. Loaded(o, b) = p
  BY DEF Loaded, language, names
<1>4. IsPage(p) /\ p.language = language /\ ~p.loaded
  BY <1>1, <1>2 DEF IsPage, AnySession, AnyName
<1>5. Stored(o, b, p)
  BY <1>2 DEF Stored, language
<1> HIDE DEF p
<1> DEFINE d == Blank(language)
           title == Written(Nothing, language)
           notice == Written(<<>>, language)
           rows == [id \in {} |-> NoName]
           labels == [id \in Sessions |-> NoName]
           panel0 == [shown |-> FALSE, session |-> NoSession, language |-> language,
                      project |-> FALSE, labels |-> labels, compared |-> NoSession,
                      field |-> NoField]
<1>6. IsPanel(panel0) /\ ~panel0.shown
  BY <1>1, NothingNamed DEF IsPanel, AnySession
<1>7. title = Drawing(title.written, language) /\ notice = Drawing(notice.written, language)
  <2>1. title = Drawing(Nothing, language) /\ notice = Drawing(<<>>, language)
    BY WrittenIs
  <2> QED
    BY <2>1 DEF Drawing
<1>8. DOMAIN rows \subseteq Sessions
  OBVIOUS
<1>9. d = [title |-> title, notice |-> notice, rows |-> rows, projects |-> FALSE,
           inspector |-> panel0]
  BY DEF Blank
<1> HIDE DEF d, title, notice, rows, panel0
<1>10. IsScreen(d) /\ InLanguage(d, language) /\ ~d.inspector.shown
  BY <1>6, <1>7, <1>8, <1>9 DEF IsScreen, InLanguage
<1>11. Consistent(o, b, p, d)
  BY <1>4, <1>5, <1>10 DEF Consistent
<1> QED
  BY <1>3, <1>4, <1>10, <1>11 DEF d, language

\* Another language: what is drawn again, and what is translated where it is.
LEMMA LanguageSteps == ASSUME IInv, ChooseLanguage PROVE IInv'
<1>1. PICK language \in Languages \ {page.language} :
        /\ SetLanguage(language)
        /\ browser' = IF browser.storage = "works" THEN [browser EXCEPT !.language = language]
                      ELSE browser
  BY DEF ChooseLanguage
<1> DEFINE p == [page EXCEPT !.language = language]
           d == Render(p, drawn)
           e == LocalizedPage(d, language)
<1>2. page' = p /\ drawn' = e /\ opened' = opened
  BY <1>1 DEF SetLanguage, ChooseLanguage
<1>3. IsPage(p) /\ p.language = language /\ p.names = page.names
  BY DEF IInv, Consistent, IsPage
<1> HIDE DEF p
<1>4. IsScreen(d) /\ d.notice = drawn.notice
      /\ (p.loaded => Shows(p, d) /\ d.title = Drawing(d.title.written, language))
      /\ (~p.loaded => d = drawn)
  BY <1>3, RenderShows DEF IInv, Consistent
<1> HIDE DEF d
<1>5. \E old : d.title = Drawing(d.title.written, old)
  BY <1>4, <1>3 DEF IInv, Consistent, InLanguage, IsPage
<1>6. \E old : d.notice = Drawing(d.notice.written, old)
  BY <1>4 DEF IInv, Consistent, InLanguage
<1> DEFINE title == Localized(d.title, language)
           notice == Localized(d.notice, language)
<1>7. title = Drawing(d.title.written, language) /\ notice = Drawing(d.notice.written, language)
  BY <1>5, <1>6, LocalizedIs
<1>8. title.written = d.title.written /\ notice.written = d.notice.written
  BY <1>7 DEF Drawing
<1>9. e = [d EXCEPT !.title = title, !.notice = notice]
  BY DEF LocalizedPage
<1> HIDE DEF title, notice
<1>10. e = [title |-> title, notice |-> notice, rows |-> d.rows, projects |-> d.projects,
            inspector |-> d.inspector]
  BY <1>4, <1>9 DEF IsScreen
<1> HIDE DEF e
<1>11. IsScreen(e) /\ InLanguage(e, language)
  BY <1>4, <1>7, <1>8, <1>10 DEF IsScreen, InLanguage
<1>12. p.loaded => Shows(p, e)
  BY <1>4, <1>8, <1>10 DEF Shows
<1>13. IsBrowser(browser') /\ Stored(opened, browser', p)
  <2>1. CASE browser.storage = "works"
    <3>1. browser' = [storage |-> "works", language |-> language, names |-> browser.names]
      BY <1>1, <2>1 DEF IInv, Consistent, IsBrowser
    <3>2. Language(opened, browser') = IF opened.requested \in Languages THEN opened.requested
                                       ELSE language
      BY <3>1 DEF Language
    <3>3. "none" \notin Languages
      BY DEF Languages
    <3>4. page.names = browser.names /\ browser.names \in [AnySession -> AnyName]
      BY <2>1 DEF IInv, Consistent, Stored, IsBrowser
    <3>5. IsBrowser(browser')
      BY <3>1, <3>4 DEF IsBrowser
    <3> QED
      BY <1>3, <3>1, <3>2, <3>3, <3>4, <3>5 DEF Stored
  <2>2. CASE browser.storage # "works"
    BY <1>1, <1>3, <2>2 DEF IInv, Consistent, Stored
  <2> QED
    BY <2>1, <2>2
<1>14. Consistent(opened, browser', p, e)
  BY <1>3, <1>11, <1>12, <1>13 DEF IInv, Consistent
<1> QED
  BY <1>2, <1>14 DEF IInv

LEMMA ReloadStep == ASSUME IInv, Reload PROVE IInv'
<1>1. page' = Loaded(opened, browser) /\ drawn' = Blank(page'.language)
      /\ opened' = opened /\ browser' = browser
  BY DEF Reload
<1>2. Consistent(opened, browser, page', drawn')
  BY <1>1, LoadedIs DEF IInv, Consistent
<1> QED
  BY <1>1, <1>2 DEF IInv

\* A step that draws the page again with the names and the language it has.
LEMMA DrawingSteps ==
  ASSUME IInv, Answered \/ Select \/ HideNames
  PROVE  /\ IInv'
         /\ page'.language = page.language /\ drawn' = Render(page', drawn)
<1>1. opened' = opened /\ browser' = browser /\ drawn' = Render(page', drawn)
  BY DEF Answered, Select, HideNames, Redrawn
<1>2. /\ IsPage(page') /\ page'.language = page.language /\ page'.names = page.names
  <2>1. CASE Answered
    <3>1. page' = [page EXCEPT !.loaded = TRUE]
      BY <2>1 DEF Answered, Redrawn
    <3> QED
      BY <3>1 DEF IInv, Consistent, IsPage
  <2>2. CASE Select
    <3>1. PICK id \in DOMAIN drawn.rows \cup {NoSession} : page' = [page EXCEPT !.selected = id]
      BY <2>2 DEF Select, Redrawn
    <3>2. id \in AnySession
      BY DEF IInv, Consistent, IsScreen, AnySession
    <3> QED
      BY <3>1, <3>2 DEF IInv, Consistent, IsPage
  <2>3. CASE HideNames
    <3>1. page' = [page EXCEPT !.hidden = ~page.hidden]
      BY <2>3 DEF HideNames, Redrawn
    <3> QED
      BY <3>1 DEF IInv, Consistent, IsPage
  <2> QED
    BY <2>1, <2>2, <2>3
<1>3. Stored(opened, browser, page')
  BY <1>2 DEF IInv, Consistent, Stored
<1>4. Consistent(opened, browser, page', Render(page', drawn))
  BY <1>2, <1>3, RedrawnIs DEF IInv
<1> QED
  BY <1>1, <1>2, <1>4 DEF IInv

\* The screen stays as it is drawn: it is not of the new source, and the title
\* is of the session that was selected.
LEMMA ChoosingSteps == ASSUME IInv, ChooseSource \/ ChooseRange PROVE IInv'
<1>1. opened' = opened /\ browser' = browser /\ drawn' = drawn
  BY DEF ChooseSource, ChooseRange
<1> DEFINE loaded == page'.loaded
<1>2. page' = [language |-> page.language, hidden |-> page.hidden, selected |-> NoSession,
               compare |-> page.compare, names |-> page.names, search |-> page.search,
               loaded |-> loaded]
      /\ loaded \in BOOLEAN /\ (loaded => page.loaded)
  <2>1. CASE ChooseSource
    <3>1. page' = [page EXCEPT !.selected = NoSession, !.loaded = FALSE]
      BY <2>1 DEF ChooseSource
    <3> QED
      BY <3>1 DEF IInv, Consistent, IsPage
  <2>2. CASE ChooseRange
    <3>1. page' = [page EXCEPT !.selected = NoSession]
      BY <2>2 DEF ChooseRange
    <3> QED
      BY <3>1 DEF IInv, Consistent, IsPage
  <2> QED
    BY <2>1, <2>2
<1>3. IsPage(page')
  BY <1>2 DEF IInv, Consistent, IsPage, AnySession
<1>4. Stored(opened, browser, page')
  BY <1>2 DEF IInv, Consistent, Stored
<1>5. page'.loaded => Shows(page', drawn)
  <2> SUFFICES ASSUME page'.loaded PROVE Shows(page', drawn)
    OBVIOUS
  <2>1. Shows(page, drawn)
    BY <1>2 DEF IInv, Consistent
  <2>2. (\A id : Label(page', id) = Label(page, id)) /\ Rows(page') = Rows(page)
    BY <1>2, SameLabels
  <2>3. TitleOK(page', drawn.title.written)
    BY <2>1, <1>2 DEF Shows, TitleOK
  <2>4. drawn.inspector.shown => PanelOK(page', drawn.inspector)
    BY <2>1, <2>2, <1>2 DEF Shows, PanelOK
  <2> QED
    BY <2>1, <2>2, <2>3, <2>4, <1>2 DEF Shows
<1>6. Consistent(opened, browser, page', drawn)
  BY <1>2, <1>3, <1>4, <1>5 DEF IInv, Consistent
<1> QED
  BY <1>1, <1>6 DEF IInv

\* Only the list is drawn again.
LEMMA SearchStep == ASSUME IInv, Search PROVE IInv'
<1>1. PICK text \in AnyName \cup {<<"project">>} : page' = [page EXCEPT !.search = text]
  BY DEF Search, AnyName
<1>2. opened' = opened /\ browser' = browser
      /\ drawn' = IF page.loaded THEN [drawn EXCEPT !.rows = Rows(page')] ELSE drawn
  BY DEF Search
<1>3. /\ IsPage(page') /\ page'.language = page.language /\ page'.names = page.names
      /\ page'.hidden = page.hidden /\ page'.selected = page.selected /\ page'.loaded = page.loaded
  BY <1>1 DEF IInv, Consistent, IsPage
<1>4. Stored(opened, browser, page')
  BY <1>3 DEF IInv, Consistent, Stored
<1>5. CASE ~page.loaded
  BY <1>2, <1>3, <1>4, <1>5 DEF IInv, Consistent
<1>6. CASE page.loaded
  <2> DEFINE rows == Rows(page')
  <2>1. DOMAIN rows \subseteq Sessions /\ rows = Rows(page')
    BY RowsOf
  <2> HIDE DEF rows
  <2>2. drawn' = [title |-> drawn.title, notice |-> drawn.notice, rows |-> rows,
                  projects |-> drawn.projects, inspector |-> drawn.inspector]
    BY <1>2, <1>6, <2>1 DEF IInv, Consistent, IsScreen
  <2>3. IsScreen(drawn') /\ InLanguage(drawn', page'.language)
    BY <2>1, <2>2, <1>3 DEF IInv, Consistent, IsScreen, InLanguage
  <2>4. Shows(page, drawn) /\ \A id : Label(page', id) = Label(page, id)
    BY <1>3, <1>6, SameLabels DEF IInv, Consistent
  <2>5. TitleOK(page', drawn'.title.written)
    BY <2>2, <2>4, <1>3 DEF Shows, TitleOK
  <2>6. drawn'.inspector.shown => PanelOK(page', drawn'.inspector)
    BY <2>2, <2>4, <1>3 DEF Shows, PanelOK
  <2>7. Shows(page', drawn')
    BY <2>1, <2>2, <2>4, <2>5, <2>6, <1>3 DEF Shows
  <2> QED
    BY <1>2, <1>3, <1>4, <2>3, <2>7 DEF IInv, Consistent
<1> QED
  BY <1>5, <1>6 DEF IInv, Consistent, IsPage

\* Only the panel is drawn again.
LEMMA CompareStep ==
  ASSUME IInv, Compare
  PROVE  /\ IInv'
         /\ IsPage(page') /\ page'.selected = page.selected
         /\ page'.language = page.language
         /\ drawn'.inspector = IF page.loaded THEN Inspector(page', drawn.inspector)
                               ELSE drawn.inspector
<1>1. PICK id \in AnySession : page' = [page EXCEPT !.compare = id]
  BY DEF Compare, AnySession
<1>2. opened' = opened /\ browser' = browser
      /\ drawn' = IF page.loaded
                  THEN [drawn EXCEPT !.inspector = Inspector(page', drawn.inspector)] ELSE drawn
  BY DEF Compare
<1>3. /\ IsPage(page') /\ page'.language = page.language /\ page'.names = page.names
      /\ page'.hidden = page.hidden /\ page'.selected = page.selected
      /\ page'.search = page.search /\ page'.loaded = page.loaded
  BY <1>1 DEF IInv, Consistent, IsPage
<1>4. Stored(opened, browser, page')
  BY <1>3 DEF IInv, Consistent, Stored
<1>5. CASE ~page.loaded
  BY <1>2, <1>3, <1>4, <1>5 DEF IInv, Consistent
<1>6. CASE page.loaded
  <2> DEFINE inspector == Inspector(page', drawn.inspector)
  <2>1. IsPanel(inspector) /\ (inspector.shown => PanelOK(page', inspector))
    BY <1>3, InspectorIs DEF IInv, Consistent, IsScreen
  <2>2. inspector = Inspector(page', drawn.inspector)
    OBVIOUS
  <2> HIDE DEF inspector
  <2>3. drawn' = [title |-> drawn.title, notice |-> drawn.notice, rows |-> drawn.rows,
                  projects |-> drawn.projects, inspector |-> inspector]
    BY <1>2, <1>6, <2>2 DEF IInv, Consistent, IsScreen
  <2>4. IsScreen(drawn') /\ InLanguage(drawn', page'.language)
    BY <2>1, <2>3, <1>3 DEF IInv, Consistent, IsScreen, InLanguage
  <2>5. Shows(page, drawn) /\ Rows(page') = Rows(page)
    BY <1>3, <1>6, SameLabels DEF IInv, Consistent
  <2>6. TitleOK(page', drawn'.title.written)
    BY <2>3, <2>5, <1>3 DEF Shows, TitleOK
  <2>7. Shows(page', drawn')
    BY <2>1, <2>3, <2>5, <2>6, <1>3 DEF Shows
  <2>8. drawn'.inspector = inspector
    BY <2>3
  <2> QED
    BY <1>2, <1>3, <1>4, <1>6, <2>2, <2>4, <2>7, <2>8 DEF IInv, Consistent
<1> QED
  BY <1>5, <1>6 DEF IInv, Consistent, IsPage

LEMMA TypeStep == ASSUME IInv, TypeName PROVE IInv'
<1>1. PICK name \in AnyName : drawn' = [drawn EXCEPT !.inspector.field.value = name]
  BY DEF TypeName, AnyName
<1>2. opened' = opened /\ browser' = browser /\ page' = page
      /\ drawn.inspector.shown /\ drawn.inspector.field # NoField
  BY DEF TypeName, HasField
<1> DEFINE q == drawn.inspector
           field == [session |-> q.field.session, value |-> name]
           new == [shown |-> q.shown, session |-> q.session, language |-> q.language,
                   project |-> q.project, labels |-> q.labels, compared |-> q.compared,
                   field |-> field]
<1>3. IsPanel(q)
  BY DEF IInv, Consistent, IsScreen
<1>4. drawn' = [drawn EXCEPT !.inspector = [q EXCEPT !.field = [q.field EXCEPT !.value = name]]]
  BY <1>1
<1>5. [q.field EXCEPT !.value = name] = field
  BY <1>3 DEF IsPanel, IsField
<1>6. IsField(field)
  BY DEF IsField
<1> HIDE DEF field
<1>7. [q EXCEPT !.field = field] = new
  BY <1>3 DEF IsPanel
<1>8. IsPanel(new) /\ new.shown = q.shown
  BY <1>3, <1>6 DEF IsPanel
<1>9. ASSUME PanelOK(page, q) PROVE PanelOK(page, new)
  <2>1. ~page.hidden
    BY <1>2, <1>9 DEF PanelOK, IInv, Consistent, IsPage
  <2> QED
    BY <2>1, <1>9 DEF PanelOK
<1> HIDE DEF new
<1>10. drawn' = [title |-> drawn.title, notice |-> drawn.notice, rows |-> drawn.rows,
                 projects |-> drawn.projects, inspector |-> new]
  BY <1>4, <1>5, <1>7 DEF IInv, Consistent, IsScreen
<1>11. IsScreen(drawn') /\ InLanguage(drawn', page.language)
  BY <1>8, <1>10 DEF IInv, Consistent, IsScreen, InLanguage
<1>12. page.loaded => Shows(page, drawn')
  BY <1>8, <1>9, <1>10 DEF IInv, Consistent, Shows
<1> QED
  BY <1>2, <1>11, <1>12 DEF IInv, Consistent

\* The name in the field is stored, and on the page, or neither.
LEMMA SaveStep ==
  ASSUME IInv, SaveName
  PROVE  /\ IInv'
         /\ IsPage(page') /\ page'.selected = page.selected
         /\ page'.language = page.language
         /\ drawn'.inspector = IF page.loaded THEN Inspector(page', drawn.inspector)
                               ELSE drawn.inspector
<1> DEFINE names == [page.names EXCEPT ![page.selected] = drawn.inspector.field.value]
           stored == browser.storage = "works"
           kept == NamesSaved(names, stored)
           text == IF stored THEN Saved ELSE NotSaved
<1>1. /\ page' = [page EXCEPT !.names = kept] /\ opened' = opened
      /\ browser' = IF stored THEN [browser EXCEPT !.names = names] ELSE browser
      /\ drawn' = [drawn EXCEPT
           !.notice = Written(text, page'.language),
           !.rows = IF page'.loaded THEN Rows(page') ELSE drawn.rows,
           !.inspector = IF page'.loaded THEN Inspector(page', drawn.inspector)
                         ELSE drawn.inspector]
  BY DEF SaveName
<1>2. names \in [AnySession -> AnyName]
  BY DEF IInv, Consistent, IsPage, IsScreen, IsPanel, IsField
<1>3. kept \in [AnySession -> AnyName] /\ kept = (IF stored THEN names ELSE page.names)
  BY <1>2 DEF NamesSaved, IInv, Consistent, IsPage
<1> HIDE DEF names, kept, text
<1>4. /\ IsPage(page') /\ page'.language = page.language /\ page'.names = kept
      /\ page'.hidden = page.hidden /\ page'.selected = page.selected
      /\ page'.loaded = page.loaded
  BY <1>1, <1>3 DEF IInv, Consistent, IsPage
<1>5. IsBrowser(browser') /\ Stored(opened, browser', page')
  <2>1. CASE stored
    <3>1. browser' = [storage |-> browser.storage, language |-> browser.language, names |-> names]
      BY <1>1, <2>1 DEF IInv, Consistent, IsBrowser
    <3>2. IsBrowser(browser')
      BY <1>2, <3>1 DEF IsBrowser
    <3>3. Language(opened, browser') = Language(opened, browser)
      BY <3>1 DEF Language
    <3> QED
      BY <1>3, <1>4, <2>1, <3>1, <3>2, <3>3 DEF IInv, Consistent, Stored
  <2>2. CASE ~stored
    BY <1>1, <1>3, <1>4, <2>2 DEF IInv, Consistent, Stored
  <2> QED
    BY <2>1, <2>2
<1> DEFINE notice == Written(text, page'.language)
           rows == IF page'.loaded THEN Rows(page') ELSE drawn.rows
           inspector == IF page'.loaded THEN Inspector(page', drawn.inspector)
                        ELSE drawn.inspector
<1>6. notice = Drawing(notice.written, page'.language)
  <2>1. notice = Drawing(text, page'.language)
    BY WrittenIs
  <2> QED
    BY <2>1 DEF Drawing
<1>7. DOMAIN rows \subseteq Sessions /\ (page'.loaded => rows = Rows(page'))
  BY RowsOf DEF IInv, Consistent, IsScreen
<1>8. IsPanel(inspector) /\ (page'.loaded /\ inspector.shown => PanelOK(page', inspector))
  BY <1>4, InspectorIs DEF IInv, Consistent, IsScreen
<1>9. inspector = IF page.loaded THEN Inspector(page', drawn.inspector) ELSE drawn.inspector
  BY <1>4
<1>10. drawn' = [drawn EXCEPT !.notice = notice, !.rows = rows, !.inspector = inspector]
  BY <1>1
<1> HIDE DEF notice, rows, inspector, stored
<1>11. drawn' = [title |-> drawn.title, notice |-> notice, rows |-> rows,
                 projects |-> drawn.projects, inspector |-> inspector]
  BY <1>10 DEF IInv, Consistent, IsScreen
<1>12. IsScreen(drawn') /\ InLanguage(drawn', page'.language)
  BY <1>4, <1>6, <1>7, <1>8, <1>11 DEF IInv, Consistent, IsScreen, InLanguage
<1>13. ASSUME page'.loaded PROVE Shows(page', drawn')
  <2>1. Shows(page, drawn)
    BY <1>4, <1>13 DEF IInv, Consistent
  <2>2. TitleOK(page', drawn'.title.written)
    BY <2>1, <1>4, <1>11 DEF Shows, TitleOK
  <2> QED
    BY <2>1, <2>2, <1>4, <1>7, <1>8, <1>11, <1>13 DEF Shows
<1>14. Consistent(opened, browser', page', drawn')
  BY <1>4, <1>5, <1>12, <1>13 DEF IInv, Consistent
<1>15. drawn'.inspector = inspector
  BY <1>11
<1> QED
  BY <1>1, <1>4, <1>9, <1>14, <1>15 DEF IInv
-----------------------------------------------------------------------------
LEMMA Starts == Init => IInv
<1> SUFFICES ASSUME Init PROVE IInv
  OBVIOUS
<1>1. IsOpened(opened)
  BY DEF Init, IsOpened
<1>2. IsBrowser(browser)
  <2> DEFINE none == [id \in Sessions \cup {NoSession} |-> NoName]
  <2>1. browser \in [storage : {"works", "full", "blocked"}, language : Languages \cup {"none"},
                     names : {none}]
    BY DEF Init
  <2>2. none \in [AnySession -> AnyName]
    BY NoNames DEF AnySession
  <2> HIDE DEF none
  <2> QED
    BY <2>1, <2>2 DEF IsBrowser
<1> QED
  BY <1>1, <1>2, LoadedIs DEF Init, IInv

LEMMA Steps == IInv /\ [Next]_vars => IInv'
<1> SUFFICES ASSUME IInv, [Next]_vars PROVE IInv'
  OBVIOUS
<1>1. CASE Next
  BY <1>1, ReloadStep, DrawingSteps, LanguageSteps, ChoosingSteps, SearchStep, CompareStep,
     TypeStep, SaveStep DEF Next
<1>2. CASE UNCHANGED vars
  BY <1>2 DEF vars, IInv
<1> QED
  BY <1>1, <1>2

\* The screen is always of the page, in its language, and the page is what the
\* storage has.
THEOREM Invariance == Spec => []IInv
BY Starts, Steps, PTL DEF Spec

\* TypeOK: pages, names and what is drawn have their types.
LEMMA Typed == IInv => TypeOK
<1> SUFFICES ASSUME IInv PROVE TypeOK
  OBVIOUS
<1>1. drawn.inspector.field.value \in AnyName
  BY DEF IInv, Consistent, IsScreen, IsPanel, IsField
<1> QED
  BY <1>1 DEF IInv, Consistent, IsPage, IsScreen, TypeOK, AnySession, AnyName

LEMMA OtherNames ==
  ASSUME NEW p, IsPage(p), NEW names
  PROVE  [p EXCEPT !.names = names] =
           [language |-> p.language, hidden |-> p.hidden, selected |-> p.selected,
            compare |-> p.compare, names |-> names, search |-> p.search, loaded |-> p.loaded]
BY DEF IsPage

\* Hide: no name and no project is on the page that hides them.
LEMMA NamesHidden == IInv => HiddenKept
<1> SUFFICES ASSUME IInv, page.hidden, page.loaded PROVE HiddenKept
  BY DEF HiddenKept
<1> DEFINE none == [id \in DOMAIN page.names |-> NoName]
           nameless == [page EXCEPT !.names = none]
<1>1. Shows(page, drawn)
  BY DEF IInv, Consistent
<1> HIDE DEF none
<1>2. nameless = [language |-> page.language, hidden |-> page.hidden, selected |-> page.selected,
                  compare |-> page.compare, names |-> none, search |-> page.search,
                  loaded |-> page.loaded]
  BY OtherNames DEF IInv, Consistent
<1> HIDE DEF nameless
<1>3. ASSUME NEW p, p.hidden, p.language = page.language, NEW id
      PROVE  Label(p, id) = Shown(Session, page.language) \o <<id>>
  BY <1>3 DEF Label
<1>4. \A id : Label(nameless, id) = Label(page, id)
  BY <1>2, <1>3
<1>5. Rows(nameless) = Rows(page)
  <2>1. \A id : FoundIn(nameless, id) = FoundIn(page, id)
    BY <1>2, <1>4 DEF FoundIn
  <2>2. {id \in Sessions : FoundIn(nameless, id)} = {id \in Sessions : FoundIn(page, id)}
    BY <2>1
  <2> QED
    BY <1>4, <2>2 DEF Rows
<1>6. drawn.title.written \in {Title([nameless EXCEPT !.selected = s]) : s \in DOMAIN page.names}
  <2>1. PICK s \in AnySession :
          \/ s = NoSession /\ drawn.title.written = Nothing
          \/ s # NoSession
             /\ drawn.title.written = TitleOf(Shown(Session, page.language) \o <<s>>)
    BY <1>1 DEF Shows, TitleOK
  <2> DEFINE p == [nameless EXCEPT !.selected = s]
  <2>2. p.hidden /\ p.language = page.language /\ p.selected = s
    BY <1>2
  <2> HIDE DEF p
  <2>3. drawn.title.written = Title(p)
    BY <1>3, <2>1, <2>2 DEF Title
  <2>4. s \in DOMAIN page.names
    BY DEF IInv, Consistent, IsPage
  <2> QED
    BY <2>3, <2>4 DEF p
<1>7. drawn.rows = [id \in {s \in Sessions : FoundIn(nameless, s)} |-> Label(nameless, id)]
  BY <1>1, <1>5 DEF Shows, Rows
<1>8. [id \in Sessions |-> Label(nameless, id)] = [id \in Sessions |-> Label(page, id)]
  BY <1>4
<1>9. ~drawn.projects
      /\ (drawn.inspector.shown =>
           /\ drawn.inspector.labels = [id \in Sessions |-> Label(nameless, id)]
           /\ ~drawn.inspector.project /\ drawn.inspector.field = NoField)
  BY <1>1, <1>8 DEF Shows, PanelOK
<1> QED
  BY <1>6, <1>7, <1>9 DEF HiddenKept, nameless, none
-----------------------------------------------------------------------------
(* What was typed and chosen.                                                 *)

LEMMA RenderInspector ==
  ASSUME NEW p, NEW d, IsScreen(d)
  PROVE  Render(p, d).inspector = IF p.loaded THEN Inspector(p, d.inspector) ELSE d.inspector
<1> DEFINE title == Written(Title(p), p.language)
           rows == Rows(p)
           inspector == Inspector(p, d.inspector)
<1>1. ~p.loaded => Render(p, d) = d
  BY DEF Render
<1>2. p.loaded => Render(p, d) = [d EXCEPT !.title = title, !.rows = rows,
                                           !.projects = ~p.hidden, !.inspector = inspector]
  BY DEF Render
<1> HIDE DEF title, rows, inspector
<1>3. p.loaded => Render(p, d).inspector = inspector
  BY <1>2 DEF IsScreen
<1> QED
  BY <1>1, <1>3 DEF inspector

\* A panel is gone, stays, is drawn for the page, or is typed into.
LEMMA PanelSteps ==
  ASSUME IInv, Next, ~TypeName
  PROVE  \/ ~drawn'.inspector.shown
         \/ drawn'.inspector = drawn.inspector
         \/ drawn'.inspector = Inspector(page', drawn.inspector)
<1>0. IsScreen(drawn)
  BY DEF IInv, Consistent
<1>1. CASE Reload
  <2>1. page' = Loaded(opened, browser) /\ drawn' = Blank(page'.language)
    BY <1>1 DEF Reload
  <2> QED
    BY <2>1, LoadedIs DEF IInv, Consistent
<1>2. CASE Answered \/ Select \/ HideNames
  BY <1>0, <1>2, DrawingSteps, RenderInspector
<1>3. CASE ChooseLanguage
  <2>1. PICK language \in Languages : SetLanguage(language)
    BY <1>3 DEF ChooseLanguage
  <2> DEFINE d == Render(page', drawn)
             title == Localized(d.title, language)
             notice == Localized(d.notice, language)
  <2>2. drawn' = [d EXCEPT !.title = title, !.notice = notice]
    BY <2>1 DEF SetLanguage, LocalizedPage
  <2>3. d.inspector = IF page'.loaded THEN Inspector(page', drawn.inspector) ELSE drawn.inspector
    BY <1>0, RenderInspector
  <2>4. drawn'.inspector = d.inspector
    <3> HIDE DEF d, title, notice
    <3> QED
      BY <2>2
  <2> QED
    BY <2>3, <2>4
<1>4. CASE ChooseSource \/ ChooseRange
  BY <1>4 DEF ChooseSource, ChooseRange
<1>5. CASE Search
  <2> DEFINE rows == Rows(page')
  <2>1. drawn' = IF page.loaded THEN [drawn EXCEPT !.rows = rows] ELSE drawn
    BY <1>5 DEF Search
  <2> HIDE DEF rows
  <2> QED
    BY <2>1
<1>6. CASE Compare
  BY <1>6, CompareStep
<1>7. CASE SaveName
  BY <1>7, SaveStep
<1> QED
  BY <1>1, <1>2, <1>3, <1>4, <1>5, <1>6, <1>7 DEF Next

\* The field of the selected session keeps what is typed in it.
LEMMA TypingStays ==
  ASSUME IInv, IInv', [Next]_vars
  PROVE  LET old == drawn.inspector
             new == drawn'.inspector
         IN /\ old.shown /\ new.shown /\ old.field # NoField
            /\ page.selected = page'.selected /\ ~page.hidden /\ ~page'.hidden
            /\ old.field.session = page.selected
            => new.field = old.field \/ TypeName
<1> SUFFICES ASSUME drawn'.inspector.shown, page.selected = page'.selected, ~page'.hidden,
                    drawn.inspector.field.session = page.selected, ~TypeName
             PROVE  drawn'.inspector.field = drawn.inspector.field
  OBVIOUS
<1>1. CASE UNCHANGED vars
  BY <1>1 DEF vars
<1>2. CASE Next
  <2>1. IsPage(page') /\ IsPanel(drawn.inspector)
    BY DEF IInv, Consistent, IsScreen
  <2>2. CASE drawn'.inspector = Inspector(page', drawn.inspector)
    BY <2>1, <2>2, InspectorIs
  <2> QED
    BY <1>2, <2>2, PanelSteps
<1> QED
  BY <1>1, <1>2

\* A page that is loaded again is in the language that was stored.
LEMMA LanguageStays ==
  ASSUME IInv, Reload, opened.requested = "none", browser.storage = "works"
  PROVE  page'.language = page.language
<1>1. page' = Loaded(opened, browser)
  BY DEF Reload
<1> QED
  BY <1>1, LoadedIs DEF IInv, Consistent, Stored

\* TypingKept and LanguageKept: a name that is being typed is replaced by
\* nothing but another session, Hide or the user, and a language that was
\* chosen comes up again.
THEOREM InputStays == Spec => InputKept
<1>1. IInv /\ IInv' /\ [Next]_vars =>
        [LET old == drawn.inspector
             new == drawn'.inspector
         IN /\ old.shown /\ new.shown /\ old.field # NoField
            /\ page.selected = page'.selected /\ ~page.hidden /\ ~page'.hidden
            /\ old.field.session = page.selected
            => new.field = old.field \/ TypeName]_vars
  BY TypingStays
<1>2. IInv /\ [Next]_vars =>
        [Reload /\ opened.requested = "none" /\ browser.storage = "works"
           => page'.language = page.language]_vars
  BY LanguageStays
<1>3. Spec => TypingKept
  BY <1>1, Invariance, PTL DEF Spec, TypingKept
<1>4. Spec => LanguageKept
  BY <1>2, Invariance, PTL DEF Spec, LanguageKept
<1> QED
  BY <1>3, <1>4 DEF InputKept
-----------------------------------------------------------------------------
(* The labels of the inspector.                                               *)

LEMMA ReasonsTranslated ==
  ASSUME NEW reason PROVE Reason(reason) \in InspectorStrings
<1>1. Reason(reason) \in
        {"Native Codex pricing ..", "This model is not ..", "The cache-write lifetime ..",
         "This speed mode ..", "This geography ..", "This long-context tier ..",
         "The source does not .."}
  <2>1. DOMAIN Reasons =
          {"native_codex_unpriced", "model_not_in_price_book", "cache_lifetime_unknown",
           "unsupported_speed", "unsupported_geography", "unsupported_long_context_tier",
           "price_breakdown_unavailable"}
    BY DEF Reasons
  <2>2. /\ Reasons["native_codex_unpriced"] = "Native Codex pricing .."
        /\ Reasons["model_not_in_price_book"] = "This model is not .."
        /\ Reasons["cache_lifetime_unknown"] = "The cache-write lifetime .."
        /\ Reasons["unsupported_speed"] = "This speed mode .."
        /\ Reasons["unsupported_geography"] = "This geography .."
        /\ Reasons["unsupported_long_context_tier"] = "This long-context tier .."
        /\ Reasons["price_breakdown_unavailable"] = "The source does not .."
    BY DEF Reasons
  <2> QED
    BY <2>1, <2>2 DEF Reason
<1> QED
  BY <1>1 DEF InspectorStrings

LEMMA PricesTranslated == ASSUME NEW groups PROVE PriceLabels(groups) \subseteq Phrases
<1>1. {"The source does not ..", "Subtotal", "These tokens are counted .."} \subseteq InspectorStrings
  BY DEF InspectorStrings
<1>2. {"Recorded responses"} \subseteq TrialStrings /\ {"Tokens"} \subseteq UnitStrings
  BY DEF TrialStrings, UnitStrings
<1>3. {"Category", "USD / 1M tokens", "Estimated USD", "New input"} \subseteq PriceStrings
  BY DEF PriceStrings
<1>4. {"Cache reads", "Cache writes - 5 min", "Cache writes - 1 hour"} \subseteq InspectorStrings
      /\ {"Output"} \subseteq LegendStrings
  BY DEF InspectorStrings, LegendStrings
<1>5. Categories \subseteq PriceStrings \cup InspectorStrings \cup LegendStrings
  BY <1>3, <1>4 DEF Categories
<1>6. \A gap : Reason(gap) \in InspectorStrings
  BY ReasonsTranslated
<1> HIDE DEF InspectorStrings, TrialStrings, UnitStrings, PriceStrings, LegendStrings
<1> QED
  BY <1>1, <1>2, <1>3, <1>5, <1>6 DEF PriceLabels, Phrases

LEMMA PanelTranslated == ASSUME NEW q PROVE PanelLabels(q) \subseteq Phrases
<1>1. Frame \subseteq InspectorStrings \cup ChoiceStrings
  BY DEF Frame, InspectorStrings, ChoiceStrings
<1>2. Facts \subseteq InspectorStrings
  BY DEF Facts, InspectorStrings
<1>3. NameForm \subseteq InspectorStrings \cup ProjectStrings
  BY DEF NameForm, InspectorStrings, ProjectStrings
<1>4. {"Input P95", "Different sessions can .."} \subseteq InspectorStrings
      /\ {"Measure", "Recorded responses", "Cache reads / response"} \subseteq TrialStrings
      /\ {"Input / response", "Output / response", "Estimated token cost"} \subseteq HeadlineStrings
  BY DEF InspectorStrings, TrialStrings, HeadlineStrings
<1>5. Measures \subseteq InspectorStrings \cup TrialStrings \cup HeadlineStrings
  BY <1>4 DEF Measures
<1>6. \A groups : CostLabels(groups) \subseteq InspectorStrings
  BY DEF CostLabels, InspectorStrings
<1>7. \A groups : PriceLabels(groups) \subseteq Phrases
  BY PricesTranslated
<1>8. InspectorStrings \cup ChoiceStrings \cup ProjectStrings \cup TrialStrings \cup HeadlineStrings
        \subseteq Phrases
  BY DEF Phrases
<1> QED
  BY <1>1, <1>2, <1>3, <1>5, <1>6, <1>7, <1>8 DEF PanelLabels

\* A phrase of the catalogue is another text in Korean.
LEMMA PhraseShown ==
  ASSUME NEW phrase \in Phrases, NEW language \in Languages
  PROVE  Shown(<<phrase>>, language) = <<phrase>> <=> language = "en"
<1>1. <<phrase>> \in Strings /\ <<phrase>> \in PageTexts
  BY DEF Strings, PageTexts
<1>2. Translations[<<phrase>>] = Translation(<<phrase>>)
  BY <1>1 DEF Translations
<1>3. Translation(<<phrase>>) = <<"ko">> \o <<phrase>>
  BY <1>1 DEF Translation
<1>4. <<"ko">> \o <<phrase>> # <<phrase>>
  OBVIOUS
<1> QED
  BY <1>2, <1>3, <1>4 DEF Shown, Languages

LEMMA AllTranslated == IInv => LabelsTranslated
BY PanelTranslated, PhraseShown DEF IInv, Consistent, IsScreen, IsPanel, LabelsTranslated

\* Every text is in the language that is chosen, and is what was written last.
LEMMA InOneLanguage == IInv => OneLanguage
<1> SUFFICES ASSUME IInv PROVE OneLanguage
  OBVIOUS
<1>1. ASSUME NEW node, NEW language, node = Drawing(node.written, language)
      PROVE  node.value = Shown(node.written, language)
  BY <1>1 DEF Drawing
<1>2. /\ drawn.notice.value = Shown(drawn.notice.written, page.language)
      /\ drawn.title.value = Shown(drawn.title.written, page.language)
  BY <1>1 DEF IInv, Consistent, InLanguage
<1>3. ASSUME page.loaded
      PROVE  /\ drawn.inspector.shown => drawn.inspector.language = page.language
             /\ \A id \in DOMAIN drawn.rows : drawn.rows[id] = Label(page, id)
             /\ page.selected # NoSession => drawn.title.written \in
                  {TitleOf(Shown(Session, page.language) \o <<page.selected>>)}
                    \cup {TitleOf(name) : name \in Names}
  <2>1. Shows(page, drawn)
    BY <1>3 DEF IInv, Consistent
  <2>2. \A id \in DOMAIN drawn.rows : drawn.rows[id] = Label(page, id)
    BY <2>1 DEF Shows, Rows
  <2> QED
    BY <2>1, <2>2 DEF Shows, PanelOK, TitleOK
<1> QED
  BY <1>2, <1>3, AllTranslated DEF OneLanguage
-----------------------------------------------------------------------------
(* Titles of sessions in Korean.                                             *)

-----------------------------------------------------------------------------
(* Recursion over the words of a template.                                    *)

\* The words of the text behind which the last i words of a template fit, given
\* where its last i - 1 words do.
Before(template, text, i, after) ==
  IF template[Len(template) + 1 - i] = Hole THEN {n \in 0 .. Len(text) : \E k \in after : n <= k}
  ELSE {n \in 0 .. Len(text) - 1 : text[n + 1] = template[Len(template) + 1 - i] /\ n + 1 \in after}

LEMMA FitsAre ==
  ASSUME NEW template, Len(template) \in Nat, NEW text, Len(text) \in Nat
  PROVE  /\ Fits(template, text)[0] = {Len(text)}
         /\ \A i \in 1 .. Len(template) :
              Fits(template, text)[i] = Before(template, text, i, Fits(template, text)[i - 1])
<1> DEFINE n == Len(template)
           V == SUBSET (0 .. Len(text))
           step == [i \in 1 .. n |-> [after \in V |-> Before(template, text, i, after)]]
           Is(f) == f = [i \in 0 .. n |-> IF i = 0 THEN {Len(text)}
                                          ELSE Before(template, text, i, f[i - 1])]
<1>1. Fits(template, text) = CHOOSE f : Is(f)
  BY DEF Fits, Before
<1>2. \E f : Is(f)
  <2>1. n \in Nat /\ Len(text) \in Nat
    OBVIOUS
  <2>2. {Len(text)} \in V
    BY <2>1
  <2>3. \A i \in 1 .. n : \A after \in V : Before(template, text, i, after) \in V
    BY <2>1 DEF Before
  <2>4. step \in StepFunctions(n, V)
    BY <2>3 DEF StepFunctions
  <2>6. \A i \in 1 .. n : \A after \in V : step[i][after] = Before(template, text, i, after)
    OBVIOUS
  <2> DEFINE start == {Len(text)}
  <2>7. start \in V
    BY <2>2
  <2> HIDE DEF V, step, n, start
  <2>5. PICK f : Iterates(f, n, V, start, step)
    BY <2>1, <2>4, <2>7, Recursion
  <2>8. \A i \in 1 .. n : f[i - 1] \in V
    BY <2>1, <2>5 DEF Iterates
  <2>9. f = [i \in 0 .. n |-> IF i = 0 THEN {Len(text)} ELSE Before(template, text, i, f[i - 1])]
    BY <2>1, <2>5, <2>6, <2>8 DEF start, Iterates
  <2> QED
    BY <2>9
<1>3. Is(Fits(template, text))
  BY <1>1, <1>2
<1>4. n \in Nat
  OBVIOUS
<1> HIDE DEF n
<1>5. \A i \in 0 .. n : Fits(template, text)[i] =
        IF i = 0 THEN {Len(text)} ELSE Before(template, text, i, Fits(template, text)[i - 1])
  BY <1>3
<1> QED
  BY <1>4, <1>5 DEF n

\* A template that ends with a word matches only texts that end with this word.
LEMMA LastWord ==
  ASSUME NEW template, Len(template) \in Nat \ {0}, template[Len(template)] # Hole,
         NEW text, Len(text) \in Nat, Matches(template, text)
  PROVE  Len(text) > 0 /\ text[Len(text)] = template[Len(template)]
<1> DEFINE fits == Fits(template, text)
           n == Len(template)
           word == template[n]
           Good == {0} \cup {i \in 1 .. n : fits[i] = {}}
<1> SUFFICES ASSUME ~(Len(text) > 0 /\ text[Len(text)] = word) PROVE FALSE
  OBVIOUS
<1>1. n \in Nat \ {0} /\ Len(text) \in Nat
  OBVIOUS
<1>2. fits[0] = {Len(text)} /\ \A i \in 1 .. n : fits[i] = Before(template, text, i, fits[i - 1])
  BY FitsAre
<1>3. fits[1] = {}
  <2>1. fits[1] = Before(template, text, 1, {Len(text)})
    <3>1. 1 \in 1 .. n /\ 1 - 1 = 0
      BY <1>1
    <3> HIDE DEF fits, n
    <3>2. fits[1] = Before(template, text, 1, fits[1 - 1])
      BY <1>2, <3>1
    <3> QED
      BY <1>2, <3>1, <3>2
  <2>2. template[Len(template) + 1 - 1] = word
    BY <1>1
  <2>3. fits[1] = {k \in 0 .. Len(text) - 1 : text[k + 1] = word /\ k + 1 \in {Len(text)}}
    BY <2>1, <2>2 DEF Before
  <2> HIDE DEF word
  <2> QED
    BY <1>1, <2>3
<1> HIDE DEF fits
<1>4. ASSUME NEW i \in 1 .. n, i - 1 \in Good PROVE i \in Good
  <2>1. CASE i = 1
    BY <1>3, <2>1
  <2>2. CASE i # 1
    <3>1. fits[i - 1] = {}
      BY <1>4, <2>2
    <3>2. fits[i] = Before(template, text, i, {})
      BY <1>2, <3>1
    <3> QED
      BY <3>2 DEF Before
  <2> QED
    BY <2>1, <2>2
<1>5. n \in Good
  <2>1. 0 \in Good /\ n \in 0 .. n /\ n \in Nat
    BY <1>1
  <2> HIDE DEF Good, n
  <2> QED
    BY <1>4, <2>1, UpToInduction
<1>6. fits[n] = {}
  BY <1>1, <1>5
<1> QED
  BY <1>6 DEF Matches, fits

\* The templates before the one of the title that end with a word.
EndsInWord(template) ==
  /\ Len(template) \in Nat \ {0}
  /\ template[Len(template)] # Hole /\ template[Len(template)] # "request"

LEMMA EarlierTemplates == \A i \in (1 .. 19) \ {18} : EndsInWord(UsageTemplates[i])
<1>1. EndsInWord(UsageTemplates[1])
  BY DEF UsageTemplates, Hole, EndsInWord
<1>2. EndsInWord(UsageTemplates[2])
  BY DEF UsageTemplates, Hole, EndsInWord
<1>3. EndsInWord(UsageTemplates[3])
  BY DEF UsageTemplates, Hole, EndsInWord
<1>4. EndsInWord(UsageTemplates[4])
  BY DEF UsageTemplates, Hole, EndsInWord
<1>5. EndsInWord(UsageTemplates[5])
  BY DEF UsageTemplates, Hole, EndsInWord
<1>6. EndsInWord(UsageTemplates[6])
  BY DEF UsageTemplates, Hole, EndsInWord
<1>7. EndsInWord(UsageTemplates[7])
  BY DEF UsageTemplates, Hole, EndsInWord
<1>8. EndsInWord(UsageTemplates[8])
  BY DEF UsageTemplates, Hole, EndsInWord
<1>9. EndsInWord(UsageTemplates[9])
  BY DEF UsageTemplates, Hole, EndsInWord
<1>10. EndsInWord(UsageTemplates[10])
  BY DEF UsageTemplates, Hole, EndsInWord
<1>11. EndsInWord(UsageTemplates[11])
  BY DEF UsageTemplates, Hole, EndsInWord
<1>12. EndsInWord(UsageTemplates[12])
  BY DEF UsageTemplates, Hole, EndsInWord
<1>13. EndsInWord(UsageTemplates[13])
  BY DEF UsageTemplates, Hole, EndsInWord
<1>14. EndsInWord(UsageTemplates[14])
  BY DEF UsageTemplates, Hole, EndsInWord
<1>15. EndsInWord(UsageTemplates[15])
  BY DEF UsageTemplates, Hole, EndsInWord
<1>16. EndsInWord(UsageTemplates[16])
  BY DEF UsageTemplates, Hole, EndsInWord
<1>17. EndsInWord(UsageTemplates[17])
  BY DEF UsageTemplates, Hole, EndsInWord
<1>18. EndsInWord(UsageTemplates[19])
  BY DEF UsageTemplates, Hole, EndsInWord
<1> QED
  BY <1>1, <1>2, <1>3, <1>4, <1>5, <1>6, <1>7, <1>8, <1>9, <1>10, <1>11, <1>12,
     <1>13, <1>14, <1>15, <1>16, <1>17, <1>18

\* The template of the title; the one before it that ends with a hole is "Hour".
OfTitle == <<Hole, "-", "request", "by", "request">>
OfHour == <<"Hour", Hole>>

LEMMA TitleTemplate ==
  UsageTemplates[20] = OfTitle /\ UsageTemplates[18] = OfHour /\ Len(UsageTemplates) = 35
BY DEF UsageTemplates, OfTitle, OfHour

\* The title of a label of n words.
IsTitle(text, n) ==
  /\ n \in Nat /\ Len(text) = n + 4
  /\ text[n + 1] = "-" /\ text[n + 2] = "request" /\ text[n + 3] = "by" /\ text[n + 4] = "request"

LEMMA TitleFits ==
  ASSUME NEW text, NEW n, IsTitle(text, n)
  PROVE  LET fits == Fits(OfTitle, text) IN
         fits[1] = {n + 3} /\ fits[2] = {n + 2} /\ fits[3] = {n + 1} /\ fits[4] = {n}
         /\ fits[5] = 0 .. n
<1> DEFINE fits == Fits(OfTitle, text)
<1>1. Len(OfTitle) = 5 /\ OfTitle[1] = Hole /\ OfTitle[2] = "-" /\ OfTitle[3] = "request"
      /\ OfTitle[4] = "by" /\ OfTitle[5] = "request"
  BY DEF OfTitle
<1>2. Len(text) \in Nat /\ n \in Nat /\ Len(text) = n + 4
  BY DEF IsTitle
<1>3. fits[0] = {n + 4} /\ \A i \in 1 .. 5 : fits[i] = Before(OfTitle, text, i, fits[i - 1])
  <2>1. Len(OfTitle) \in Nat
    BY <1>1
  <2>2. /\ Fits(OfTitle, text)[0] = {Len(text)}
        /\ \A i \in 1 .. Len(OfTitle) :
             Fits(OfTitle, text)[i] = Before(OfTitle, text, i, Fits(OfTitle, text)[i - 1])
    BY <1>2, <2>1, FitsAre
  <2> HIDE DEF fits
  <2> QED
    BY <1>1, <1>2, <2>2 DEF fits
<1> HIDE DEF fits
<1>4. ASSUME NEW i \in 1 .. 4, NEW k \in n .. n + 3, text[k + 1] = OfTitle[6 - i],
             fits[i - 1] = {k + 1}
      PROVE  fits[i] = {k}
  <2>1. fits[i] = Before(OfTitle, text, i, {k + 1})
    <3>1. i \in 1 .. 5
      OBVIOUS
    <3>2. fits[i] = Before(OfTitle, text, i, fits[i - 1])
      BY <1>3, <3>1
    <3> QED
      BY <1>4, <3>2
  <2>2. OfTitle[6 - i] # Hole
    BY <1>1 DEF Hole
  <2>3. fits[i] = {m \in 0 .. Len(text) - 1 : text[m + 1] = OfTitle[6 - i] /\ m + 1 \in {k + 1}}
    BY <1>1, <2>1, <2>2 DEF Before
  <2> QED
    BY <1>2, <1>4, <2>3
<1>5. fits[1] = {n + 3}
  BY <1>1, <1>2, <1>3, <1>4 DEF IsTitle
<1>6. fits[2] = {n + 2}
  BY <1>1, <1>2, <1>4, <1>5 DEF IsTitle
<1>7. fits[3] = {n + 1}
  BY <1>1, <1>2, <1>4, <1>6 DEF IsTitle
<1>8. fits[4] = {n}
  BY <1>1, <1>2, <1>4, <1>7 DEF IsTitle
<1>9. fits[5] = {m \in 0 .. Len(text) : \E k \in {n} : m <= k}
  <2>1. fits[5] = Before(OfTitle, text, 5, {n})
    BY <1>3, <1>8
  <2> QED
    BY <1>1, <2>1 DEF Before
<1>10. fits[5] = 0 .. n
  BY <1>2, <1>9
<1> QED
  BY <1>5, <1>6, <1>7, <1>8, <1>10 DEF fits

\* What the first i words of a template take from the text.
Taken(template, text, i, before) ==
  LET to == Min({n \in Fits(template, text)[Len(template) - i] : before.at <= n})
  IN IF template[i] # Hole THEN [before EXCEPT !.at = before.at + 1]
     ELSE [at |-> to, words |-> before.words \o SubSeq(text, before.at + 1, to)]

IsFound(f, template, text) ==
  f = [i \in 0 .. Len(template) |->
         IF i = 0 THEN [at |-> 0, words |-> <<>>] ELSE Taken(template, text, i, f[i - 1])]

LEMMA FoundIs ==
  ASSUME NEW template, NEW text
  PROVE  Found(template, text) = (CHOOSE f : IsFound(f, template, text))[Len(template)].words
BY DEF Found, IsFound, Taken

LEMMA MinOfOne == ASSUME NEW n \in Int PROVE Min({n}) = n
BY DEF Min

\* The hole of the title's template takes the label.
LEMMA TitleFound ==
  ASSUME NEW text, NEW n, IsTitle(text, n)
  PROVE  Found(OfTitle, text) = <<>> \o SubSeq(text, 1, n)
<1> DEFINE label == <<>> \o SubSeq(text, 1, n)
           at(i) == [at |-> n + i - 1, words |-> label]
           start == [at |-> 0, words |-> <<>>]
<1>1. Len(OfTitle) = 5 /\ OfTitle[1] = Hole /\ \A i \in 2 .. 5 : OfTitle[i] # Hole
  BY DEF OfTitle, Hole
<1>2. n \in Nat
  BY DEF IsTitle
<1>3. Taken(OfTitle, text, 1, start) = at(1)
  <2>1. {m \in Fits(OfTitle, text)[4] : 0 <= m} = {n}
    BY <1>2, TitleFits
  <2>2. Min({m \in Fits(OfTitle, text)[4] : 0 <= m}) = n
    BY <1>2, <2>1, MinOfOne
  <2>3. Taken(OfTitle, text, 1, start)
          = [at |-> n, words |-> start.words \o SubSeq(text, start.at + 1, n)]
    <3>1. Len(OfTitle) - 1 = 4 /\ start.at = 0
      BY <1>1
    <3> HIDE DEF start
    <3> QED
      BY <1>1, <2>2, <3>1 DEF Taken
  <2> QED
    BY <1>2, <2>3
<1>4. \A i \in 2 .. 5 : Taken(OfTitle, text, i, at(i - 1)) = at(i)
  <2>1. ASSUME NEW i \in 2 .. 5 PROVE Taken(OfTitle, text, i, at(i - 1)) = at(i)
    <3> HIDE DEF label
    <3>1. Taken(OfTitle, text, i, at(i - 1)) = [at(i - 1) EXCEPT !.at = at(i - 1).at + 1]
      BY <1>1 DEF Taken
    <3>2. at(i - 1) = [at |-> n + i - 2, words |-> label]
      BY <1>2
    <3> QED
      BY <1>2, <3>1, <3>2
  <2> QED
    BY <2>1
<1> HIDE DEF label
<1>5. \E f : IsFound(f, OfTitle, text)
  <2> DEFINE f == [i \in 0 .. 5 |-> IF i = 0 THEN start ELSE at(i)]
  <2>1. ASSUME NEW i \in 0 .. 5
        PROVE  f[i] = IF i = 0 THEN start ELSE Taken(OfTitle, text, i, f[i - 1])
    <3>1. CASE i = 0
      BY <3>1
    <3>2. CASE i = 1
      BY <1>3, <3>2
    <3>3. CASE i \in 2 .. 5
      <4>1. f[i - 1] = at(i - 1) /\ f[i] = at(i)
        BY <3>3
      <4> QED
        BY <1>4, <3>3, <4>1
    <3> QED
      BY <3>1, <3>2, <3>3
  <2>2. f = [i \in 0 .. 5 |-> IF i = 0 THEN start ELSE Taken(OfTitle, text, i, f[i - 1])]
    BY <2>1
  <2> HIDE DEF f
  <2>3. IsFound(f, OfTitle, text)
    BY <1>1, <2>2 DEF IsFound
  <2> QED
    BY <2>3
<1>6. PICK f : IsFound(f, OfTitle, text) /\ Found(OfTitle, text) = f[5].words
  BY <1>1, <1>5, FoundIs
<1>7. f[0] = start /\ \A i \in 1 .. 5 : f[i] = Taken(OfTitle, text, i, f[i - 1])
  BY <1>1, <1>6 DEF IsFound
<1>8. f[1] = at(1)
  BY <1>3, <1>7
<1>9. f[2] = at(2)
  BY <1>4, <1>7, <1>8
<1>10. f[3] = at(3)
  BY <1>4, <1>7, <1>9
<1>11. f[4] = at(4)
  BY <1>4, <1>7, <1>10
<1>12. f[5] = at(5)
  BY <1>4, <1>7, <1>11
<1>13. f[5].words = label
  BY <1>12
<1> QED
  BY <1>6, <1>13 DEF label

LEMMA SequenceIs ==
  ASSUME NEW s, NEW n \in Nat, DOMAIN s = 1 .. n, s = [i \in 1 .. n |-> s[i]]
  PROVE  s \in Seq(ToSet(s)) /\ Len(s) = n
<1>1. s \in [1 .. n -> ToSet(s)]
  BY DEF ToSet
<1>2. s \in Seq(ToSet(s))
  BY <1>1, SeqDef
<1>3. 1 .. Len(s) = 1 .. n /\ Len(s) \in Nat
  BY <1>2
<1> QED
  BY <1>2, <1>3

JoinedIs(f, s, t, S) ==
  f \in Seq(S) /\ Len(f) = Len(s) + Len(t) /\ \A i \in 1 .. Len(s) : f[i] = s[i]
LEMMA Joined ==
  ASSUME NEW S, NEW s \in Seq(S), NEW t \in Seq(S)
  PROVE  JoinedIs(s \o t, s, t, S)
BY DEF JoinedIs

ThreeAre(g, s) == DOMAIN g = 1 .. 73 /\ \A i \in 1 .. 35 : g[i] = s[i]

\* The parts of the catalogue, one after the other.
LEMMA ThreeJoined ==
  ASSUME NEW S, NEW s \in Seq(S), Len(s) = 35, NEW t \in Seq(S), Len(t) = 25,
         NEW u \in Seq(S), Len(u) = 13
  PROVE  ThreeAre(s \o t \o u, s)
<1> DEFINE f == s \o t
           g == f \o u
<1>1. JoinedIs(f, s, t, S)
  BY Joined
<1>9. f \in Seq(S)
  BY <1>1 DEF JoinedIs
<1> HIDE DEF f
<1>2. JoinedIs(g, f, u, S)
  BY <1>9, Joined
<1> HIDE DEF g
<1>3. Len(f) = 60 /\ Len(g) = 73
  BY <1>1, <1>2 DEF JoinedIs
<1>4. DOMAIN g = 1 .. 73
  BY <1>2, <1>3 DEF JoinedIs
<1>6. \A i \in 1 .. 35 : i \in 1 .. 60
  OBVIOUS
<1>5. \A i \in 1 .. 35 : g[i] = s[i]
  <2>1. \A i \in 1 .. 35 : f[i] = s[i]
    BY <1>1 DEF JoinedIs
  <2>2. \A i \in 1 .. 60 : g[i] = f[i]
    BY <1>2, <1>3 DEF JoinedIs
  <2> QED
    BY <1>6, <2>1, <2>2
<1> QED
  BY <1>4, <1>5 DEF f, g, ThreeAre
\* The templates of the usage page come first.
LEMMA TemplatesAre ==
  DOMAIN Templates = 1 .. 73 /\ \A i \in 1 .. 35 : Templates[i] = UsageTemplates[i]
<1> DEFINE All == ToSet(UsageTemplates) \cup ToSet(EvidenceTemplates) \cup ToSet(ExperimentTemplates)
<1>1. DOMAIN UsageTemplates = 1 .. 35 /\ UsageTemplates = [i \in 1 .. 35 |-> UsageTemplates[i]]
  BY DEF UsageTemplates
<1>2. DOMAIN EvidenceTemplates = 1 .. 25
      /\ EvidenceTemplates = [i \in 1 .. 25 |-> EvidenceTemplates[i]]
  BY DEF EvidenceTemplates
<1>3. DOMAIN ExperimentTemplates = 1 .. 13
      /\ ExperimentTemplates = [i \in 1 .. 13 |-> ExperimentTemplates[i]]
  BY DEF ExperimentTemplates
<1>4. UsageTemplates \in Seq(ToSet(UsageTemplates)) /\ Len(UsageTemplates) = 35
  BY <1>1, SequenceIs
<1>5. EvidenceTemplates \in Seq(ToSet(EvidenceTemplates)) /\ Len(EvidenceTemplates) = 25
  BY <1>2, SequenceIs
<1>6. ExperimentTemplates \in Seq(ToSet(ExperimentTemplates)) /\ Len(ExperimentTemplates) = 13
  BY <1>3, SequenceIs
<1>7. UsageTemplates \in Seq(All) /\ EvidenceTemplates \in Seq(All)
      /\ ExperimentTemplates \in Seq(All)
  BY <1>4, <1>5, <1>6
<1> HIDE DEF All
<1>8. ThreeAre(UsageTemplates \o EvidenceTemplates \o ExperimentTemplates, UsageTemplates)
  BY <1>4, <1>5, <1>6, <1>7, ThreeJoined
<1> QED
  BY <1>8 DEF Templates, ThreeAre

\* "Hour" and a hole match what begins with "Hour".
LEMMA HourMatches ==
  ASSUME NEW text, Len(text) \in Nat \ {0}, Matches(OfHour, text)
  PROVE  text[1] = "Hour"
<1> DEFINE fits == Fits(OfHour, text)
<1>1. Len(OfHour) = 2 /\ OfHour[1] = "Hour" /\ "Hour" # Hole
  BY DEF OfHour, Hole
<1>2. \A i \in 1 .. Len(OfHour) : fits[i] = Before(OfHour, text, i, fits[i - 1])
  <2>1. Len(OfHour) \in Nat /\ Len(text) \in Nat
    BY <1>1
  <2> QED
    BY <2>1, FitsAre
<1>3. 0 \in fits[2]
  BY <1>1 DEF Matches
<1> HIDE DEF fits
<1>4. fits[2] = Before(OfHour, text, 2, fits[1])
  <2>1. 2 \in 1 .. Len(OfHour) /\ 2 - 1 = 1
    BY <1>1
  <2>2. fits[2] = Before(OfHour, text, 2, fits[2 - 1])
    BY <1>2, <2>1
  <2> QED
    BY <2>1, <2>2
<1>5. fits[2] = {n \in 0 .. Len(text) - 1 : text[n + 1] = "Hour" /\ n + 1 \in fits[1]}
  BY <1>1, <1>4 DEF Before
<1> QED
  BY <1>3, <1>5

\* The first template that matches a title is its own.
LEMMA TitleMatching ==
  ASSUME NEW text, NEW n, IsTitle(text, n), n > 0, text[1] # "Hour"
  PROVE  Matching(text) # {} /\ Min(Matching(text)) = 20 /\ Templates[20] = OfTitle
<1>1. Len(text) \in Nat \ {0} /\ text[Len(text)] = "request" /\ n \in Nat
  BY DEF IsTitle
<1>2. Templates[20] = OfTitle /\ Templates[18] = OfHour
  BY TemplatesAre, TitleTemplate
<1>3. 20 \in Matching(text)
  <2>1. Len(OfTitle) = 5
    BY DEF OfTitle
  <2>2. 0 \in 0 .. n
    BY <1>1
  <2>3. Fits(OfTitle, text)[5] = 0 .. n
    BY TitleFits
  <2>4. Matches(OfTitle, text)
    BY <2>1, <2>2, <2>3 DEF Matches
  <2>5. 20 \in 1 .. 73
    OBVIOUS
  <2>6. 20 \in DOMAIN Templates
    BY <2>5, TemplatesAre
  <2> QED
    BY <1>2, <2>4, <2>6 DEF Matching
<1>4. ASSUME NEW i \in 1 .. 19 PROVE i \notin Matching(text)
  <2>1. CASE i = 18
    BY <1>1, <1>2, <2>1, HourMatches DEF Matching
  <2>2. CASE i # 18
    <3>1. EndsInWord(UsageTemplates[i]) /\ Templates[i] = UsageTemplates[i]
      BY <2>2, EarlierTemplates, TemplatesAre
    <3>2. ~Matches(UsageTemplates[i], text)
      BY <1>1, <3>1, LastWord DEF EndsInWord
    <3> QED
      BY <3>1, <3>2 DEF Matching
  <2> QED
    BY <2>1, <2>2
<1>5. \A i \in Matching(text) : i \in 20 .. 73
  <2>1. \A i \in Matching(text) : i \in 1 .. 73
    BY TemplatesAre DEF Matching
  <2>2. \A i \in 1 .. 73 : i \notin 1 .. 19 => i \in 20 .. 73
    OBVIOUS
  <2> QED
    BY <1>4, <2>1, <2>2
<1>6. Min(Matching(text)) = 20
  <2> DEFINE M == Matching(text)
  <2>1. 20 \in M /\ \A i \in M : i \in 20 .. 73
    BY <1>3, <1>5
  <2> HIDE DEF M
  <2>2. \A x \in M : (\A y \in M : x <= y) <=> x = 20
    BY <2>1
  <2>3. Min(M) = CHOOSE x \in M : \A y \in M : x <= y
    BY DEF Min
  <2>4. (CHOOSE x \in M : \A y \in M : x <= y) = 20
    BY <2>1, <2>2
  <2> QED
    BY <2>3, <2>4 DEF M
<1> QED
  BY <1>2, <1>3, <1>6

\* The title of a name is no whole text of the catalogue.
LEMMA TitleIsNoString ==
  ASSUME NEW text, NEW n, IsTitle(text, n), n > 0
  PROVE  text \notin Strings
<1>1. \A k \in {1, 3} : Len(text) # k
  BY DEF IsTitle
<1>2. Len(Nothing) = 3 /\ Len(Saved) = 3 /\ Len(NotSaved) = 3 /\ Len(Session) = 1
  BY DEF Nothing, Saved, NotSaved, Session
<1>3. \A phrase : Len(<<phrase>>) = 1
  OBVIOUS
<1>4. ASSUME text \in Strings PROVE FALSE
  <2>1. text \in {Nothing, Saved, NotSaved, Session} \/ \E phrase \in Phrases : text = <<phrase>>
    BY <1>4 DEF Strings
  <2>2. Len(text) = 1 \/ Len(text) = 3
    BY <1>2, <1>3, <2>1
  <2> QED
    BY <1>1, <2>2
<1> QED
  BY <1>4

\* A name in a title is in the Korean title as it was typed.
LEMMA NameTranslated ==
  ASSUME NEW name \in Seq(STRING), name # <<>>, name[1] # "Hour"
  PROVE  Translation(TitleOf(name)) = <<"ko", ToString(20)>> \o name
<1> DEFINE text == TitleOf(name)
           n == Len(name)
           Words == STRING \cup {"-", "request", "by"}
<1>1. name \in Seq(Words) /\ <<"-", "request", "by", "request">> \in Seq(Words)
  OBVIOUS
<1>2. n \in Nat /\ n > 0
  OBVIOUS
<1>3. text \in Seq(Words) /\ IsTitle(text, n) /\ text[1] = name[1]
      /\ \A i \in 1 .. n : text[i] = name[i]
  BY <1>1, <1>2 DEF TitleOf, IsTitle
<1>4. <<>> \o SubSeq(text, 1, n) = name
  BY <1>1, <1>2, <1>3
<1> HIDE DEF text, n
<1>5. Found(OfTitle, text) = name
  BY <1>3, <1>4, TitleFound
<1>6. Matching(text) # {} /\ Min(Matching(text)) = 20 /\ Templates[20] = OfTitle
  BY <1>2, <1>3, TitleMatching
<1>7. text \notin Strings
  BY <1>2, <1>3, TitleIsNoString
<1>8. Translation(text) = Korean(20, Found(OfTitle, text))
  BY <1>6, <1>7 DEF Translation
<1> QED
  BY <1>5, <1>8 DEF Korean, text

LEMMA SuffixOf ==
  ASSUME NEW S, NEW s \in Seq(S), NEW t \in Seq(S)
  PROVE  IsSuffix(s, t \o s)
<1> DEFINE r == Reverse(s)
           q == Reverse(t \o s)
           m == Len(s)
           n == Len(t)
<1>1. m \in Nat /\ n \in Nat /\ t \o s \in Seq(S) /\ Len(t \o s) = n + m
      /\ \A i \in 1 .. m : (t \o s)[n + i] = s[i]
  OBVIOUS
<1>2. r = [i \in 1 .. m |-> s[(m - i) + 1]] /\ q = [i \in 1 .. n + m |-> (t \o s)[(n + m - i) + 1]]
  BY <1>1 DEF Reverse
<1>3. r \in Seq(S) /\ Len(r) = m
  <2>1. r \in [1 .. m -> S]
    BY <1>1, <1>2
  <2> QED
    BY <1>1, <2>1, SeqDef, SMTT(30)
<1>4. q \in Seq(S) /\ Len(q) = n + m
  <2>1. q \in [1 .. n + m -> S]
    BY <1>1, <1>2
  <2> QED
    BY <1>1, <2>1, SeqDef, SMTT(30)
<1>5. \A i \in 1 .. m : r[i] = q[i]
  <2>1. ASSUME NEW i \in 1 .. m PROVE r[i] = q[i]
    <3>1. (m - i) + 1 \in 1 .. m /\ (n + m - i) + 1 = n + ((m - i) + 1) /\ i \in 1 .. n + m
      BY <1>1
    <3> QED
      BY <1>1, <1>2, <3>1
  <2> QED
    BY <2>1
<1> HIDE DEF r, q
<1>6. SubSeq(r, 1, m) = SubSeq(q, 1, m)
  <2>1. SubSeq(r, 1, m) \in Seq(S) /\ Len(SubSeq(r, 1, m)) = m
        /\ \A i \in 1 .. m : SubSeq(r, 1, m)[i] = r[i]
    BY <1>1, <1>3
  <2>2. SubSeq(q, 1, m) \in Seq(S) /\ Len(SubSeq(q, 1, m)) = m
        /\ \A i \in 1 .. m : SubSeq(q, 1, m)[i] = q[i]
    BY <1>1, <1>4
  <2> QED
    BY <1>5, <2>1, <2>2
<1>7. IsPrefix(r, q)
  BY <1>1, <1>3, <1>4, <1>6 DEF IsPrefix
<1> QED
  BY <1>7 DEF IsSuffix, r, q

\* NamesLiteral: a name is in a title as it was typed, in either language.
LEMMA NamesAsTyped == IInv => NamesLiteral
<1> SUFFICES ASSUME IInv, NEW name \in Names, drawn.title.written = TitleOf(name), name[1] # "Hour"
             PROVE  IF page.language = "ko" THEN IsSuffix(name, drawn.title.value)
                    ELSE drawn.title.value = TitleOf(name)
  BY DEF NamesLiteral
<1> DEFINE text == TitleOf(name)
<1>1. drawn.title.value = Shown(text, page.language)
  BY DEF IInv, Consistent, InLanguage, Drawing
<1>2. name \in Seq(STRING) /\ name # <<>>
  BY LabelsAssumption DEF NoName
<1>3. text \in PageTexts
  BY DEF PageTexts
<1>4. Shown(text, "ko") = Translation(text)
  BY <1>3 DEF Shown, Translations
<1>5. Translation(text) = <<"ko", ToString(20)>> \o name
  BY <1>2, NameTranslated
<1>6. IsSuffix(name, <<"ko", ToString(20)>> \o name)
  <2> DEFINE W == STRING \cup {"ko", ToString(20)}
  <2>1. name \in Seq(W) /\ <<"ko", ToString(20)>> \in Seq(W)
    BY <1>2
  <2> HIDE DEF W
  <2> QED
    BY <2>1, SuffixOf
<1> HIDE DEF text
<1>7. CASE page.language = "ko"
  BY <1>1, <1>4, <1>5, <1>6, <1>7
<1>8. CASE page.language # "ko"
  BY <1>1, <1>8 DEF Shown, text
<1> QED
  BY <1>7, <1>8

\* OneLanguage: every text on the page is in the chosen language and is what
\* was written last, however often the language was changed, and every label of
\* the inspector has its entry in the catalogue.
THEOREM TextsInOneLanguage == Spec => []OneLanguage
BY Invariance, InOneLanguage, PTL

\* NamesKept: names are shown only when the storage has them, not at all while
\* they are hidden, and in every title as they were typed.
THEOREM NamesStay == Spec => []NamesKept
<1>1. IInv => NamesStored
  BY DEF IInv, Consistent, Stored, NamesStored
<1>2. IInv => NamesKept
  BY <1>1, Typed, NamesHidden, NamesAsTyped DEF NamesKept
<1> QED
  BY <1>2, Invariance, PTL
=============================================================================
