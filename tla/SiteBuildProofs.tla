--------------------------- MODULE SiteBuildProofs ---------------------------
(***************************************************************************)
(* Proofs about SiteBuild for any number of pages, skins, [style] blocks,  *)
(* policies, edits and builds: the types, what a build that reports OK has *)
(* written, and that a quiet build over a clean site succeeds.             *)
(***************************************************************************)
EXTENDS SiteBuild, TLAPS

(* The page at a path once the write in progress is finished.               *)
Filling(p) == build.page # Absent /\ build.page.path = p
PageAt(p) == IF Filling(p) THEN build.page.page ELSE static[p]

(* Types, with what has been read of forge.toml and the pages to inject.    *)
STyped ==
  /\ TypeOK
  /\ build.pc \in {"pages", "skin"} => build.toml \in Toml
  /\ \A p \in build.inject : static[p] # Absent

(* What is true of the build at each point of its order.                    *)
OrderInv ==
  /\ build.exit # "none" => build.pc = "done"
  /\ build.todo # {} => build.pc \in {"pages", "done"}
  /\ build.page # Absent => build.pc = "runtime" /\ build.page.path \in build.inject
                            /\ static[build.page.path] = Torn
  /\ build.inject # {} => build.pc = "runtime"
  /\ build.exit = "ok" => build.todo = {} /\ \A f \in build.findings : ~Blocks(f)

(* A file keeps its version or gets a later one.                            *)
VersionInv ==
  /\ \A s \in Slugs : cms[s] \in Nat => cms[s] <= edits + 1
  /\ \A s \in Slugs : build.seen[s] \in Nat /\ cms[s] \in Versions => cms[s] >= build.seen[s]
  /\ \A s \in Slugs : build.seen[s] \in Nat => build.seen[s] <= edits + 1

(* A listed page that had its turn is written, or a finding tells of it.    *)
Excused(phase, rule) ==
  <<phase, rule>> \in build.exempt \/ Strict(phase, rule) \in build.findings
Written(s) ==
  LET page == PageAt(OutputPath(s))
  IN page \notin {Absent, Torn} /\ page.src >= build.seen[s]
FreshInv ==
  \A s \in Slugs : build.seen[s] # Absent /\ s \notin build.todo =>
    Written(s) \/ Excused("render", "cms_parse")

(* Once sri has looked, a page that refuses a stylesheet has its finding.   *)
Served(page) ==
  /\ page.skin = skinFile
  /\ page.style \in {Absent, styleFile} \/ styleFile = Absent
AfterSkin ==
  build.pc \in {"style", "sri", "runtime"} \/ (build.pc = "purity" /\ build.pipeline)
    \/ build.exit = "ok"
SriInv ==
  /\ AfterSkin => skinFile \in Skins
  /\ build.pc = "runtime" \/ build.exit = "ok" =>
       \A p \in TopLevel : PageAt(p) \notin {Absent, Torn} =>
         Served(PageAt(p)) \/ Excused("sri", "mismatch")

(* While nothing is edited after the listing, a build over a clean site     *)
(* writes what it has read and finds nothing.                               *)
Clean ==
  /\ \A s \in Slugs : build.seen[s] # Bad
  /\ \A p \in TopLevel : static[p] # Absent =>
       build.seen[p[1]] # Absent /\ p = OutputPath(p[1])
AfterStyle ==
  build.pc \in {"sri", "runtime"} \/ (build.pc = "purity" /\ build.pipeline)
    \/ build.exit \in {"ok", "failed"}
JustWritten(s) ==
  LET page == PageAt(OutputPath(s))
  IN  /\ s \in build.rendered
      /\ page \notin {Absent, Torn} /\ page.skin = toml.skin /\ page.style = toml.style
EarlyInv ==
  build.pc \in {"sync", "begin"} \/ (build.pc = "purity" /\ ~build.pipeline) =>
    \A f \in build.findings : f.phase \in {"loom_sync", "substrate_purity"}
QuietInv ==
  build.quiet =>
    /\ build.pc \notin {"idle", "sync", "begin"} /\ (build.pc = "purity" => build.pipeline)
    /\ \A s \in build.todo : build.seen[s] # Absent
    /\ build.seen = cms /\ build.toml = toml
    /\ build.pc = "style" \/ AfterStyle => skinFile = toml.skin
    /\ AfterStyle => toml.style \in {Absent, styleFile}
    /\ build.exit # "error"
    /\ build.pc = "done" => build.exit # "none"
    /\ build.exit = "failed" => build.findings # {}
    /\ Clean =>
         /\ \A f \in build.findings : f.phase \in {"loom_sync", "substrate_purity"}
         /\ \A s \in Slugs : build.seen[s] # Absent /\ s \notin build.todo => JustWritten(s)

-----------------------------------------------------------------------------
(* Types.                                                                   *)

LEMMA ConstantsTyped ==
  /\ MaxEdits \in Nat /\ MaxBuilds \in Nat /\ BaseSkin \in Skins
  /\ Absent \notin Nat /\ Absent \notin Skins /\ Absent \notin Styles /\ Torn # Absent
  /\ 1 \in Versions /\ Versions \subseteq Nat /\ Bad \notin Versions
  /\ \A policy \in Policies :
       policy.promote \in SUBSET STRING /\ policy.exempt \in SUBSET (STRING \X STRING)
BY SiteAssumption DEF Versions, Bad

LEMMA PagesAreNoMarks == \A page \in Page : page # Absent /\ page # Torn
BY MarksAssumption

LEMMA AppliedTyped ==
  ASSUME NEW found \in SUBSET Findings
  PROVE  Applied(found) \in SUBSET Findings
<1> SUFFICES ASSUME NEW f \in found
             PROVE  [f EXCEPT !.severity = IF f.phase \in build.promote THEN "strict" ELSE @]
                      \in Findings
  BY DEF Applied
<1> QED
  BY DEF Findings

LEMMA OutputPathTyped ==
  ASSUME TypeOK, NEW s \in Slugs
  PROVE  OutputPath(s) \in Paths /\ OutputPath(s)[1] = s
BY DEF OutputPath, Paths

LEMMA NotBuildingTyped == NotBuilding \in BuildState
BY DEF NotBuilding, BuildState

LEMMA InitTyped == Init => STyped
<1> SUFFICES ASSUME Init PROVE STyped
  OBVIOUS
<1>1. cms \in [Slugs -> {Absent, Bad} \union Versions]
  BY ConstantsTyped DEF Init
<1>2. static \in [Paths -> {Absent, Torn} \union Page]
  BY DEF Init
<1>3. edits \in 0..MaxEdits /\ builds \in 0..MaxBuilds
  BY ConstantsTyped DEF Init
<1>4. TypeOK
  BY <1>1, <1>2, <1>3, NotBuildingTyped DEF Init, TypeOK
<1> QED
  BY <1>4 DEF STyped, Init, NotBuilding

LEMMA EditsTyped ==
  ASSUME STyped, Edit,
         cms' \in [Slugs -> {Absent, Bad} \union Versions], toml' \in Toml
  PROVE  STyped'
<1>1. build' \in BuildState /\ build' = [build EXCEPT !.quiet = FALSE] /\ static' = static
  BY DEF STyped, TypeOK, Edit, BuildState, siteVars
<1>2. build'.pc = build.pc /\ build'.toml = build.toml /\ build'.inject = build.inject
  BY <1>1 DEF STyped, TypeOK, BuildState
<1>3. TypeOK'
  BY <1>1, ConstantsTyped DEF STyped, TypeOK, Edit, siteVars
<1> QED
  BY <1>1, <1>2, <1>3 DEF STyped

LEMMA PageEditsTyped ==
  ASSUME STyped, NEW s \in Slugs, WritePage(s) \/ DeletePage(s) \/ BreakPage(s)
  PROVE  STyped'
<1>1. edits \in Nat /\ edits < MaxEdits
  BY ConstantsTyped DEF STyped, TypeOK, WritePage, DeletePage, BreakPage, EditPage, Edit
<1>2. edits + 2 \in Versions
  BY <1>1, ConstantsTyped DEF Versions
<1>3. PICK content \in {Absent, Bad} \union Versions : EditPage(s, content)
  BY <1>2 DEF WritePage, DeletePage, BreakPage
<1> QED
  BY <1>3, EditsTyped DEF EditPage, STyped, TypeOK

LEMMA TomlEditsTyped ==
  ASSUME STyped,
         \/ \E skin \in Skins : SetSkin(skin)
         \/ \E style \in Styles \union {Absent} : SetStyle(style)
         \/ ToggleCleanUrls
  PROVE  STyped'
<1>1. PICK t \in Toml : EditToml(t)
  BY DEF SetSkin, SetStyle, ToggleCleanUrls, STyped, TypeOK, Toml
<1> QED
  BY <1>1, EditsTyped DEF EditToml, STyped, TypeOK

LEMMA StartTyped ==
  ASSUME STyped, NEW mode \in Modes, NEW pipeline \in BOOLEAN, StartBuild(mode, pipeline)
  PROVE  STyped'
<1>1. toml.policy \in Policies
  BY DEF STyped, TypeOK, Toml
<1>2. LoadedPromotions(toml.policy) \in SUBSET STRING
      /\ toml.policy.exempt \in SUBSET (STRING \X STRING)
  BY <1>1, ConstantsTyped DEF LoadedPromotions
<1>3. build' \in BuildState /\ build'.pc = "sync" /\ build'.inject = {}
  BY <1>2, NotBuildingTyped DEF StartBuild, BuildState, NotBuilding
<1> QED
  BY <1>3, ConstantsTyped DEF StartBuild, STyped, TypeOK, siteVars, inputVars

LEMMA CheckSyncTyped == ASSUME STyped, CheckSync PROVE STyped'
<1>1. SyncFinding \in SUBSET Findings
  BY DEF SyncFinding, Warn, Findings
<1>2. build' \in BuildState /\ build'.pc \in {"begin", "purity"} /\ build'.inject = build.inject
  BY <1>1, AppliedTyped DEF CheckSync, STyped, TypeOK, BuildState
<1> QED
  BY <1>2 DEF CheckSync, STyped, TypeOK, siteVars, inputVars

LEMMA CheckPurityTyped == ASSUME STyped, CheckPurity PROVE STyped'
<1>1. PurityFinding \in SUBSET Findings
  BY DEF PurityFinding, Strict, Findings
<1>2. build' \in BuildState /\ build'.pc \in {"sri", "begin"} /\ build'.inject = build.inject
  BY <1>1, AppliedTyped DEF CheckPurity, STyped, TypeOK, BuildState
<1> QED
  BY <1>2 DEF CheckPurity, STyped, TypeOK, siteVars, inputVars

LEMMA BeginRenderTyped == ASSUME STyped, BeginRender PROVE STyped'
<1>1. build' \in BuildState /\ build'.toml = toml /\ build'.inject = build.inject
  BY DEF BeginRender, STyped, TypeOK, BuildState
<1> QED
  BY <1>1 DEF BeginRender, STyped, TypeOK, siteVars, inputVars

LEMMA RenderPageTyped ==
  ASSUME STyped, NextPage, NEW s \in build.todo, RenderPage(s)
  PROVE  STyped'
<1>1. s \in Slugs /\ cms[s] \in Versions
  BY DEF STyped, TypeOK, BuildState, RenderPage
<1>2. build.toml \in Toml /\ build.toml.skin \in Skins
  BY DEF STyped, Toml, NextPage, Building
<1>3. PICK page \in Page : static' = [static EXCEPT ![OutputPath(s)] = page]
  BY <1>1, <1>2 DEF RenderPage, STyped, TypeOK, Toml, Page
<1>4. static' \in [Paths -> {Absent, Torn} \union Page]
  BY <1>3 DEF STyped, TypeOK
<1>5. build' \in BuildState /\ build'.pc = build.pc /\ build'.toml = build.toml
      /\ build'.inject = build.inject
  BY <1>1 DEF RenderPage, STyped, TypeOK, BuildState
<1>6. \A p \in Paths : static[p] # Absent => static'[p] # Absent
  BY <1>3, PagesAreNoMarks DEF STyped, TypeOK
<1>7. build.inject \subseteq Paths
  BY DEF STyped, TypeOK, BuildState, TopLevel
<1> QED
  BY <1>4, <1>5, <1>6, <1>7 DEF NextPage, STyped, TypeOK, inputVars

LEMMA OtherPageTyped ==
  ASSUME STyped, NextPage, NEW s \in build.todo, SkipUnparsed(s) \/ PageVanished(s)
  PROVE  STyped'
<1>1. {Strict("render", "cms_parse")} \in SUBSET Findings
  BY DEF Strict, Findings
<1>2. Applied({Strict("render", "cms_parse")}) \in SUBSET Findings
  BY <1>1, AppliedTyped
<1>3. build \in BuildState /\ build.pc = "pages"
  BY DEF NextPage, Building, STyped, TypeOK
<1>4. CASE SkipUnparsed(s)
  <2>1. build' \in BuildState /\ build'.toml = build.toml /\ build'.inject = build.inject
        /\ build'.pc = "pages" /\ static' = static
    BY <1>2, <1>3, <1>4 DEF SkipUnparsed, BuildState
  <2> QED
    BY <1>3, <2>1 DEF NextPage, STyped, TypeOK, inputVars
<1>5. CASE PageVanished(s)
  <2>1. build' \in BuildState /\ build'.inject = build.inject /\ build'.pc = "done"
        /\ static' = static
    BY <1>3, <1>5 DEF PageVanished, BuildState
  <2> QED
    BY <2>1 DEF NextPage, STyped, TypeOK, inputVars
<1> QED
  BY <1>4, <1>5

LEMMA ScanOrphansTyped == ASSUME STyped, ScanOrphans PROVE STyped'
<1>1. {Warn("render", "orphan") : p \in Orphans} \in SUBSET Findings
  BY DEF Warn, Findings
<1>2. build' \in BuildState /\ build'.toml = build.toml /\ build'.inject = build.inject
  BY <1>1, AppliedTyped DEF ScanOrphans, STyped, TypeOK, BuildState
<1> QED
  BY <1>2 DEF ScanOrphans, Building, STyped, TypeOK, siteVars, inputVars

LEMMA WriteSkinTyped == ASSUME STyped, WriteSkin PROVE STyped'
<1>1. build' \in BuildState /\ build'.pc = "style" /\ build'.inject = build.inject
  BY DEF WriteSkin, STyped, TypeOK, BuildState
<1>2. build.toml.skin \in Skins
  BY DEF WriteSkin, Building, STyped, Toml
<1> QED
  BY <1>1, <1>2 DEF WriteSkin, STyped, TypeOK, inputVars

LEMMA WriteStyleTyped == ASSUME STyped, WriteStyle PROVE STyped'
<1>1. build' \in BuildState /\ build'.pc \in {"purity", "sri"} /\ build'.inject = build.inject
  BY DEF WriteStyle, STyped, TypeOK, BuildState
<1>2. styleFile' \in Styles \union {Absent}
  BY DEF WriteStyle, STyped, TypeOK, Toml
<1> QED
  BY <1>1, <1>2 DEF WriteStyle, STyped, TypeOK, inputVars

LEMMA SriFindingTyped ==
  \A declared, file : SriFinding(declared, file) \in SUBSET Findings
BY DEF SriFinding, Warn, Strict, Findings

LEMMA CheckSriTyped == ASSUME STyped, CheckSri PROVE STyped'
<1> DEFINE pages == {static[p] : p \in HtmlFiles} \ {Torn}
           found == UNION {SriFinding(page.skin, skinFile) \union SriFinding(page.style, styleFile) :
                             page \in pages}
<1>1. found \in SUBSET Findings
  BY SriFindingTyped
<1>2. build' = [build EXCEPT !.pc = "runtime", !.findings = @ \union Applied(found),
                             !.inject = IF WantsRuntime THEN HtmlFiles ELSE {}]
  BY DEF CheckSri
<1> HIDE DEF found
<1>3. HtmlFiles \subseteq TopLevel /\ \A p \in HtmlFiles : static[p] # Absent
  BY DEF HtmlFiles
<1>4. build' \in BuildState /\ build'.pc = "runtime"
      /\ build'.inject = IF WantsRuntime THEN HtmlFiles ELSE {}
  BY <1>1, <1>2, <1>3, AppliedTyped DEF STyped, TypeOK, BuildState
<1>5. spaFile' \in BOOLEAN
  BY DEF CheckSri, WantsRuntime, STyped, TypeOK
<1> QED
  BY <1>3, <1>4, <1>5 DEF CheckSri, STyped, TypeOK, inputVars

LEMMA InjectTyped ==
  ASSUME STyped, NEW p \in TopLevel, Inject(p)
  PROVE  STyped'
<1> USE DEF STyped, TypeOK
<1>1. p \in Paths /\ p \in build.inject /\ static[p] \in {Torn} \union Page
      /\ build.pc = "runtime" /\ \A q \in build.inject : q \in Paths
  BY DEF Inject, Building, BuildState, TopLevel
<1>2. CASE build.page = Absent /\ SkipInjection(p)
  <2>1. {Warn("dynamic_runtime", "no_body")} \in SUBSET Findings
    BY DEF Warn, Findings
  <2>2. build' \in BuildState /\ build'.pc = "runtime" /\ build'.inject \subseteq build.inject
    BY <1>1, <1>2, <2>1, AppliedTyped DEF SkipInjection, BuildState
  <2> QED
    BY <1>2, <2>2 DEF Inject, SkipInjection, inputVars
<1>3. CASE build.page = Absent /\ TruncatePage(p)
  <2>1. static[p] \in Page
    BY <1>1, <1>3 DEF TruncatePage
  <2>2. build' \in BuildState /\ build'.pc = "runtime" /\ build'.inject = build.inject
    BY <1>1, <1>3, <2>1 DEF TruncatePage, BuildState, Write
  <2>3. static' \in [Paths -> {Absent, Torn} \union Page]
        /\ \A q \in build.inject : static'[q] # Absent
    BY <1>1, <1>3, ConstantsTyped DEF TruncatePage
  <2> QED
    BY <1>3, <2>2, <2>3 DEF Inject, inputVars
<1>4. CASE build.page # Absent /\ FillPage(p)
  <2>1. build.page.page \in Page
    BY <1>4 DEF BuildState, Write
  <2>2. [build.page.page EXCEPT !.runtime = TRUE] \in Page
    BY <2>1 DEF Page
  <2>3. build' \in BuildState /\ build'.pc = "runtime" /\ build'.inject \subseteq build.inject
    BY <1>1, <1>4 DEF FillPage, BuildState
  <2>4. static' \in [Paths -> {Absent, Torn} \union Page]
        /\ \A q \in build.inject : static'[q] # Absent
    BY <1>1, <1>4, <2>2, PagesAreNoMarks DEF FillPage
  <2> QED
    BY <1>4, <2>3, <2>4 DEF Inject, inputVars
<1> QED
  BY <1>2, <1>3, <1>4 DEF Inject

LEMMA EndTyped == ASSUME STyped, EndBuild \/ Crash PROVE STyped'
<1>1. build' \in BuildState /\ build'.pc \in {"idle", "done"} /\ build'.inject = {}
  <2>1. CASE EndBuild
    <3> DEFINE exit == IF \E f \in build.findings : Blocks(f) THEN "failed" ELSE "ok"
    <3>1. build' = [build EXCEPT !.pc = "done", !.exit = exit] /\ build.inject = {}
      BY <2>1 DEF EndBuild
    <3> HIDE DEF exit
    <3>2. exit \in {"failed", "ok"}
      BY DEF exit
    <3> QED
      BY <3>1, <3>2 DEF STyped, TypeOK, BuildState
  <2>2. CASE Crash
    BY <2>2, NotBuildingTyped DEF Crash, NotBuilding
  <2> QED
    BY <2>1, <2>2
<1> QED
  BY <1>1 DEF EndBuild, Crash, STyped, TypeOK, siteVars, inputVars

LEMMA TypedStep == STyped /\ [Next]_vars => STyped'
<1> SUFFICES ASSUME STyped, [Next]_vars PROVE STyped'
  OBVIOUS
<1>1. CASE \/ \E s \in Slugs : WritePage(s) \/ DeletePage(s) \/ BreakPage(s)
           \/ \E skin \in Skins : SetSkin(skin)
           \/ \E style \in Styles \union {Absent} : SetStyle(style)
           \/ ToggleCleanUrls
  BY <1>1, PageEditsTyped, TomlEditsTyped
<1>2. CASE \E mode \in Modes, pipeline \in BOOLEAN : StartBuild(mode, pipeline)
  BY <1>2, StartTyped
<1>3. CASE CheckSync \/ CheckPurity \/ BeginRender
  BY <1>3, CheckSyncTyped, CheckPurityTyped, BeginRenderTyped
<1>4. CASE NextPage
  BY <1>4, RenderPageTyped, OtherPageTyped DEF NextPage
<1>5. CASE ScanOrphans \/ WriteSkin \/ WriteStyle \/ CheckSri
  BY <1>5, ScanOrphansTyped, WriteSkinTyped, WriteStyleTyped, CheckSriTyped
<1>6. CASE (\E p \in TopLevel : Inject(p)) \/ EndBuild \/ Crash
  BY <1>6, InjectTyped, EndTyped
<1>7. CASE UNCHANGED vars
  BY <1>7 DEF vars, siteVars, inputVars, STyped, TypeOK
<1> QED
  BY <1>1, <1>2, <1>3, <1>4, <1>5, <1>6, <1>7 DEF Next

(* Every variable keeps its type.                                           *)
THEOREM SiteTypeCorrect == Spec => []TypeOK
<1>1. STyped => TypeOK
  BY DEF STyped
<1> QED
  BY <1>1, InitTyped, TypedStep, PTL DEF Spec

-----------------------------------------------------------------------------
(* What each action does to the build, field by field.                      *)

SamePolicy ==
  build'.mode = build.mode /\ build'.pipeline = build.pipeline /\ build'.exempt = build.exempt
SameListing == build'.toml = build.toml /\ build'.seen = build.seen /\ build'.quiet = build.quiet
SamePages ==
  build'.todo = build.todo /\ build'.rendered = build.rendered
SameWrite == build'.inject = build.inject /\ build'.page = build.page /\ static' = static
SameInput == cms' = cms /\ toml' = toml /\ edits' = edits
SameStyles == skinFile' = skinFile /\ styleFile' = styleFile

LEMMA OperatorEffect ==
  ASSUME STyped,
         \/ \E s \in Slugs : WritePage(s) \/ DeletePage(s) \/ BreakPage(s)
         \/ \E skin \in Skins : SetSkin(skin)
         \/ \E style \in Styles \union {Absent} : SetStyle(style)
         \/ ToggleCleanUrls
  PROVE  /\ SamePolicy /\ SamePages /\ SameWrite /\ SameStyles
         /\ build'.toml = build.toml /\ build'.seen = build.seen /\ build'.quiet = FALSE
         /\ build'.pc = build.pc /\ build'.findings = build.findings /\ build'.exit = build.exit
         /\ edits' = edits + 1
         /\ \A s \in Slugs : cms'[s] \in {cms[s], Absent, Bad, edits + 2}
<1>1. Edit /\ (cms' = cms \/ \E s \in Slugs : \E content \in {Absent, Bad, edits + 2} :
                                                cms' = [cms EXCEPT ![s] = content])
  BY DEF WritePage, DeletePage, BreakPage, EditPage, SetSkin, SetStyle, ToggleCleanUrls, EditToml
<1>2. \A s \in Slugs : cms'[s] \in {cms[s], Absent, Bad, edits + 2}
  BY <1>1 DEF STyped, TypeOK
<1>3. build' = [build EXCEPT !.quiet = FALSE] /\ edits' = edits + 1 /\ UNCHANGED siteVars
  BY <1>1 DEF Edit
<1> QED
  BY <1>2, <1>3 DEF STyped, TypeOK, BuildState, siteVars, SamePolicy, SamePages, SameWrite,
                    SameStyles

LEMMA StartEffect ==
  ASSUME STyped, NEW mode \in Modes, NEW pipeline \in BOOLEAN, StartBuild(mode, pipeline)
  PROVE  /\ SameInput /\ SameStyles /\ static' = static
         /\ build'.pc = "sync" /\ build'.seen = [s \in Slugs |-> Absent] /\ build'.todo = {}
         /\ build'.inject = {} /\ build'.page = Absent /\ build'.findings = {}
         /\ build'.quiet = FALSE /\ build'.exit = "none"
BY DEF StartBuild, NotBuilding, siteVars, inputVars, SameInput, SameStyles

LEMMA CrashEffect ==
  ASSUME Crash
  PROVE  /\ SameInput /\ SameStyles /\ static' = static
         /\ build'.pc = "idle" /\ build'.seen = [s \in Slugs |-> Absent] /\ build'.todo = {}
         /\ build'.inject = {} /\ build'.page = Absent /\ build'.findings = {}
         /\ build'.quiet = FALSE /\ build'.exit = "none"
BY DEF Crash, NotBuilding, siteVars, inputVars, SameInput, SameStyles

LEMMA CheckEffect ==
  ASSUME STyped, CheckSync \/ CheckPurity
  PROVE  /\ SamePolicy /\ SameListing /\ SamePages /\ SameWrite /\ SameInput /\ SameStyles
         /\ build'.exit = build.exit
         /\ \/ build.pc = "sync" /\ build'.pc = IF build.pipeline THEN "begin" ELSE "purity"
            \/ build.pc = "purity" /\ build'.pc = IF build.pipeline THEN "sri" ELSE "begin"
         /\ \E found : /\ build'.findings = build.findings \union Applied(found)
                       /\ \A f \in found : f.phase \in {"loom_sync", "substrate_purity"}
                   /\ found \subseteq Findings
<1> USE DEF SamePolicy, SameListing, SamePages, SameWrite, SameInput, SameStyles, siteVars,
            inputVars, Building
<1>1. CASE CheckSync
  <2>1. SyncFinding \subseteq Findings
        /\ \A f \in SyncFinding : f.phase \in {"loom_sync", "substrate_purity"}
    BY DEF SyncFinding, Warn, Findings
  <2>2. build' = [build EXCEPT !.pc = IF build.pipeline THEN "begin" ELSE "purity",
                               !.findings = @ \union Applied(SyncFinding)]
    BY <1>1 DEF CheckSync
  <2>3. build'.findings = build.findings \union Applied(SyncFinding)
    BY <2>2 DEF STyped, TypeOK, BuildState
  <2>4. \E found : /\ build'.findings = build.findings \union Applied(found)
                   /\ \A f \in found : f.phase \in {"loom_sync", "substrate_purity"}
                   /\ found \subseteq Findings
    BY <2>1, <2>3
  <2> QED
    BY <1>1, <2>2, <2>4 DEF CheckSync, STyped, TypeOK, BuildState
<1>2. CASE CheckPurity
  <2>1. PurityFinding \subseteq Findings
        /\ \A f \in PurityFinding : f.phase \in {"loom_sync", "substrate_purity"}
    BY DEF PurityFinding, Strict, Findings
  <2>2. build' = [build EXCEPT !.pc = IF build.pipeline THEN "sri" ELSE "begin",
                               !.findings = @ \union Applied(PurityFinding)]
    BY <1>2 DEF CheckPurity
  <2>3. build'.findings = build.findings \union Applied(PurityFinding)
    BY <2>2 DEF STyped, TypeOK, BuildState
  <2>4. \E found : /\ build'.findings = build.findings \union Applied(found)
                   /\ \A f \in found : f.phase \in {"loom_sync", "substrate_purity"}
                   /\ found \subseteq Findings
    BY <2>1, <2>3
  <2> QED
    BY <1>2, <2>2, <2>4 DEF CheckPurity, STyped, TypeOK, BuildState
<1> QED
  BY <1>1, <1>2

LEMMA BeginEffect ==
  ASSUME STyped, BeginRender
  PROVE  /\ SamePolicy /\ SameWrite /\ SameInput /\ SameStyles
         /\ build.pc = "begin" /\ build'.pc = "pages"
         /\ build'.findings = build.findings /\ build'.exit = build.exit
         /\ build'.toml = toml /\ build'.seen = cms /\ build'.quiet = TRUE
         /\ build'.todo = {s \in Slugs : cms[s] # Absent}
BY DEF BeginRender, Building, STyped, TypeOK, BuildState, siteVars, inputVars,
       SamePolicy, SameWrite, SameInput, SameStyles

(* One page of the listing.                                                 *)
LEMMA RenderEffect ==
  ASSUME STyped, NextPage, NEW s \in build.todo, RenderPage(s)
  PROVE  /\ SamePolicy /\ SameListing /\ SameInput /\ SameStyles
         /\ build.pc = "pages" /\ build'.pc = "pages"
         /\ build'.findings = build.findings /\ build'.exit = build.exit
         /\ build'.inject = build.inject /\ build'.page = build.page
         /\ s \in Slugs /\ cms[s] \in Versions
         /\ build'.todo = build.todo \ {s} /\ build'.rendered = build.rendered \union {s}
         /\ static'[OutputPath(s)] \in Page
         /\ static'[OutputPath(s)].src = cms[s]
         /\ static'[OutputPath(s)].skin = build.toml.skin
         /\ static'[OutputPath(s)].style = toml.style
         /\ \A p \in Paths : p # OutputPath(s) => static'[p] = static[p]
<1>1. s \in Slugs /\ cms[s] \in Versions /\ OutputPath(s) \in Paths
  BY OutputPathTyped DEF STyped, TypeOK, BuildState, RenderPage
<1>2. build.toml.skin \in Skins /\ toml.style \in Styles \union {Absent}
  BY DEF STyped, TypeOK, Toml, NextPage, Building
<1> DEFINE page == [src |-> cms[s], skin |-> build.toml.skin, style |-> toml.style,
                    runtime |-> FALSE]
<1>3. page \in Page
  BY <1>1, <1>2 DEF Page
<1>4. static' = [static EXCEPT ![OutputPath(s)] = page]
  BY DEF RenderPage
<1>5. static'[OutputPath(s)] = page /\ \A p \in Paths : p # OutputPath(s) => static'[p] = static[p]
  BY <1>1, <1>4 DEF STyped, TypeOK
<1>6. build' = [build EXCEPT !.todo = @ \ {s}, !.rendered = @ \union {s}]
  BY DEF RenderPage
<1>7. SamePolicy /\ SameListing /\ build'.pc = build.pc
      /\ build'.findings = build.findings /\ build'.exit = build.exit
      /\ build'.inject = build.inject /\ build'.page = build.page
      /\ build'.todo = build.todo \ {s} /\ build'.rendered = build.rendered \union {s}
  BY <1>6 DEF STyped, TypeOK, BuildState, SamePolicy, SameListing
<1> QED
  BY <1>1, <1>3, <1>5, <1>7 DEF NextPage, Building, SameInput, SameStyles, inputVars

LEMMA SkipEffect ==
  ASSUME STyped, NextPage, NEW s \in build.todo, SkipUnparsed(s)
  PROVE  /\ SamePolicy /\ SameListing /\ SameWrite /\ SameInput /\ SameStyles
         /\ build.pc = "pages" /\ build'.pc = "pages" /\ build'.exit = build.exit
         /\ s \in Slugs /\ cms[s] = Bad
         /\ build'.todo = build.todo \ {s} /\ build'.rendered = build.rendered
         /\ build'.findings = build.findings \union Applied({Strict("render", "cms_parse")})
BY DEF SkipUnparsed, NextPage, Building, STyped, TypeOK, BuildState, inputVars,
       SamePolicy, SameListing, SameWrite, SameInput, SameStyles

LEMMA VanishEffect ==
  ASSUME STyped, NextPage, NEW s \in build.todo, PageVanished(s)
  PROVE  /\ SamePolicy /\ SameListing /\ SamePages /\ SameWrite /\ SameInput /\ SameStyles
         /\ build.pc = "pages" /\ build'.pc = "done" /\ build'.exit = "error"
         /\ s \in Slugs /\ cms[s] = Absent /\ build'.findings = build.findings
BY DEF PageVanished, NextPage, Building, STyped, TypeOK, BuildState, inputVars,
       SamePolicy, SameListing, SamePages, SameWrite, SameInput, SameStyles

LEMMA OrphansEffect ==
  ASSUME STyped, ScanOrphans
  PROVE  /\ SamePolicy /\ SameListing /\ SamePages /\ SameWrite /\ SameInput /\ SameStyles
         /\ build.pc = "pages" /\ build'.pc = "skin" /\ build.todo = {}
         /\ build'.exit = build.exit
         /\ build'.findings =
              build.findings \union Applied({Warn("render", "orphan") : p \in Orphans})
BY DEF ScanOrphans, Building, STyped, TypeOK, BuildState, siteVars, inputVars,
       SamePolicy, SameListing, SamePages, SameWrite, SameInput, SameStyles

LEMMA SkinEffect ==
  ASSUME STyped, WriteSkin
  PROVE  /\ SamePolicy /\ SameListing /\ SamePages /\ SameWrite /\ SameInput
         /\ build.pc = "skin" /\ build'.pc = "style" /\ build'.exit = build.exit
         /\ build'.findings = build.findings
         /\ skinFile' = build.toml.skin /\ styleFile' = styleFile /\ build.toml.skin \in Skins
BY DEF WriteSkin, Building, STyped, TypeOK, Toml, BuildState, inputVars,
       SamePolicy, SameListing, SamePages, SameWrite, SameInput

LEMMA StyleEffect ==
  ASSUME STyped, WriteStyle
  PROVE  /\ SamePolicy /\ SameListing /\ SamePages /\ SameWrite /\ SameInput
         /\ build.pc = "style" /\ build'.pc = IF build.pipeline THEN "purity" ELSE "sri"
         /\ build'.exit = build.exit /\ build'.findings = build.findings
         /\ skinFile' = skinFile
         /\ styleFile' = IF toml.style = Absent THEN styleFile ELSE toml.style
BY DEF WriteStyle, Building, STyped, TypeOK, BuildState, inputVars,
       SamePolicy, SameListing, SamePages, SameWrite, SameInput

SriFound ==
  UNION {SriFinding(page.skin, skinFile) \union SriFinding(page.style, styleFile) :
           page \in {static[p] : p \in HtmlFiles} \ {Torn}}

LEMMA SriEffect ==
  ASSUME STyped, CheckSri
  PROVE  /\ SamePolicy /\ SameListing /\ SamePages /\ SameInput /\ SameStyles
         /\ build.pc = "sri" /\ build'.pc = "runtime" /\ build'.exit = build.exit
         /\ static' = static /\ build'.page = build.page
         /\ build'.inject \subseteq HtmlFiles
         /\ build'.findings = build.findings \union Applied(SriFound)
<1>1. build' = [build EXCEPT !.pc = "runtime", !.findings = @ \union Applied(SriFound),
                             !.inject = IF WantsRuntime THEN HtmlFiles ELSE {}]
  BY DEF CheckSri, SriFound
<1>2. SamePolicy /\ SameListing /\ SamePages /\ build'.pc = "runtime"
      /\ build'.exit = build.exit /\ build'.page = build.page
      /\ build'.inject = (IF WantsRuntime THEN HtmlFiles ELSE {})
      /\ build'.findings = build.findings \union Applied(SriFound)
  BY <1>1 DEF STyped, TypeOK, BuildState, SamePolicy, SameListing, SamePages
<1> QED
  BY <1>2 DEF CheckSri, Building, inputVars, SameInput, SameStyles

(* A step of the injection leaves a page alone, begins a write or ends one. *)
LEMMA InjectEffect ==
  ASSUME STyped, NEW p \in TopLevel, Inject(p)
  PROVE  /\ SamePolicy /\ SameListing /\ SamePages /\ SameInput /\ SameStyles
         /\ build.pc = "runtime" /\ build'.pc = "runtime" /\ build'.exit = build.exit
         /\ p \in build.inject /\ p \in Paths
         /\ \A q \in Paths : q # p => static'[q] = static[q]
         /\ \/ /\ build.page = Absent /\ build'.page = Absent
               /\ build'.inject = build.inject \ {p} /\ static' = static
               /\ \/ static[p] # Torn /\ build'.findings = build.findings
                  \/ /\ static[p] = Torn
                     /\ build'.findings = build.findings \union
                          Applied({Warn("dynamic_runtime", "no_body")})
            \/ /\ build.page = Absent /\ build'.page = [path |-> p, page |-> static[p]]
               /\ build'.inject = build.inject /\ build'.findings = build.findings
               /\ static[p] \in Page /\ static'[p] = Torn
            \/ /\ build.page # Absent /\ build.page.path = p /\ build'.page = Absent
               /\ build.page.page \in Page
               /\ build'.inject = build.inject \ {p} /\ build'.findings = build.findings
               /\ static'[p] = [build.page.page EXCEPT !.runtime = TRUE]
<1>1. p \in build.inject /\ p \in Paths /\ static[p] \in {Torn} \union Page /\ build.pc = "runtime"
      /\ build \in BuildState /\ static \in [Paths -> {Absent, Torn} \union Page]
  BY DEF Inject, Building, BuildState, TopLevel, STyped, TypeOK
<1>2. SameInput /\ SameStyles
  BY DEF Inject, inputVars, SameInput, SameStyles
<1>3. CASE build.page = Absent /\ SkipInjection(p)
  <2> DEFINE found == IF static[p] = Torn THEN Applied({Warn("dynamic_runtime", "no_body")}) ELSE {}
  <2>1. build' = [build EXCEPT !.inject = @ \ {p}, !.findings = @ \union found]
        /\ static' = static
    BY <1>3 DEF SkipInjection
  <2>2. SamePolicy /\ SameListing /\ SamePages /\ build'.pc = build.pc /\ build'.exit = build.exit
        /\ build'.page = build.page /\ build'.inject = build.inject \ {p}
        /\ build'.findings = build.findings \union found
    BY <1>1, <2>1 DEF BuildState, SamePolicy, SameListing, SamePages
  <2> QED
    BY <1>1, <1>2, <1>3, <2>1, <2>2
<1>4. CASE build.page = Absent /\ TruncatePage(p)
  <2>1. static[p] \in Page
    BY <1>1, <1>4 DEF TruncatePage
  <2>2. static' = [static EXCEPT ![p] = Torn]
        /\ build' = [build EXCEPT !.page = [path |-> p, page |-> static[p]]]
    BY <1>4 DEF TruncatePage
  <2>3. SamePolicy /\ SameListing /\ SamePages /\ build'.pc = build.pc /\ build'.exit = build.exit
        /\ build'.page = [path |-> p, page |-> static[p]] /\ build'.inject = build.inject
        /\ build'.findings = build.findings
    BY <1>1, <2>2 DEF BuildState, SamePolicy, SameListing, SamePages
  <2> QED
    BY <1>1, <1>2, <1>4, <2>1, <2>2, <2>3
<1>5. CASE build.page # Absent /\ FillPage(p)
  <2>1. build.page.page \in Page
    BY <1>1, <1>5 DEF BuildState, Write
  <2>2. static' = [static EXCEPT ![p] = [build.page.page EXCEPT !.runtime = TRUE]]
        /\ build' = [build EXCEPT !.page = Absent, !.inject = @ \ {p}]
        /\ build.page.path = p
    BY <1>5 DEF FillPage
  <2>3. SamePolicy /\ SameListing /\ SamePages /\ build'.pc = build.pc /\ build'.exit = build.exit
        /\ build'.page = Absent /\ build'.inject = build.inject \ {p}
        /\ build'.findings = build.findings
    BY <1>1, <2>2 DEF BuildState, SamePolicy, SameListing, SamePages
  <2> QED
    BY <1>1, <1>2, <1>5, <2>1, <2>2, <2>3
<1> QED
  BY <1>3, <1>4, <1>5 DEF Inject

LEMMA EndEffect ==
  ASSUME STyped, EndBuild
  PROVE  /\ SamePolicy /\ SameListing /\ SamePages /\ SameWrite /\ SameInput /\ SameStyles
         /\ build.pc = "runtime" /\ build'.pc = "done" /\ build.inject = {}
         /\ build'.findings = build.findings
         /\ build'.exit = IF \E f \in build.findings : Blocks(f) THEN "failed" ELSE "ok"
<1> DEFINE exit == IF \E f \in build.findings : Blocks(f) THEN "failed" ELSE "ok"
<1>1. build' = [build EXCEPT !.pc = "done", !.exit = exit] /\ UNCHANGED siteVars
      /\ UNCHANGED inputVars /\ build.pc = "runtime" /\ build.inject = {}
  BY DEF EndBuild, Building
<1> HIDE DEF exit
<1>2. build'.pc = "done" /\ build'.exit = exit /\ SamePolicy /\ SameListing /\ SamePages
      /\ build'.findings = build.findings /\ build'.inject = build.inject
      /\ build'.page = build.page
  BY <1>1 DEF STyped, TypeOK, BuildState, SamePolicy, SameListing, SamePages
<1> QED
  BY <1>1, <1>2 DEF exit, siteVars, inputVars, SameWrite, SameInput, SameStyles

-----------------------------------------------------------------------------
(* The invariants, one after the other.                                     *)

LEMMA SameOutput ==
  ASSUME build'.toml = build.toml, build'.seen = build.seen, NEW s
  PROVE  OutputPath(s)' = OutputPath(s)
BY DEF OutputPath

LEMMA SamePageAt ==
  ASSUME SameWrite, NEW p
  PROVE  PageAt(p)' = PageAt(p)
BY DEF SameWrite, PageAt, Filling

LEMMA AppliedStrict ==
  ASSUME NEW phase, NEW rule, NEW found, Strict(phase, rule) \in found
  PROVE  <<phase, rule>> \in build.exempt \/ Strict(phase, rule) \in Applied(found)
<1> DEFINE f == Strict(phase, rule)
<1>1. f.phase = phase /\ f.rule = rule /\ f.severity = "strict"
  BY DEF Strict
<1>2. [f EXCEPT !.severity = IF f.phase \in build.promote THEN "strict" ELSE @] = f
  BY DEF Strict
<1> HIDE DEF f
<1>3. CASE <<phase, rule>> \notin build.exempt
  BY <1>1, <1>2, <1>3 DEF Applied, f
<1> QED
  BY <1>3

LEMMA AppliedPhases ==
  ASSUME NEW found, NEW phases, \A f \in found : f.phase \in phases,
         found \subseteq Findings
  PROVE  \A f \in Applied(found) : f.phase \in phases
<1> SUFFICES ASSUME NEW f \in found
             PROVE  [f EXCEPT !.severity = IF f.phase \in build.promote THEN "strict" ELSE @].phase
                      \in phases
  BY DEF Applied
<1> QED
  BY DEF Findings

LEMMA OrderStep == STyped /\ OrderInv /\ [Next]_vars => OrderInv'
<1> SUFFICES ASSUME STyped, OrderInv, [Next]_vars PROVE OrderInv'
  OBVIOUS
<1> USE DEF OrderInv, Blocks, SamePolicy, SamePages, SameWrite
<1>1. CASE \/ \E s \in Slugs : WritePage(s) \/ DeletePage(s) \/ BreakPage(s)
           \/ \E skin \in Skins : SetSkin(skin)
           \/ \E style \in Styles \union {Absent} : SetStyle(style)
           \/ ToggleCleanUrls
  BY <1>1, OperatorEffect
<1>2. CASE \E mode \in Modes, pipeline \in BOOLEAN : StartBuild(mode, pipeline)
  BY <1>2, StartEffect
<1>3. CASE Crash
  BY <1>3, CrashEffect
<1>4. CASE CheckSync \/ CheckPurity
  BY <1>4, CheckEffect
<1>5. CASE BeginRender
  BY <1>5, BeginEffect
<1>6. ASSUME NEW s \in build.todo, NextPage, RenderPage(s) \/ SkipUnparsed(s) \/ PageVanished(s)
      PROVE  OrderInv'
  <2>1. CASE RenderPage(s)
    <3>1. build.pc = "pages" /\ build'.pc = "pages" /\ build'.page = build.page
          /\ build'.inject = build.inject /\ build'.exit = build.exit
      BY <1>6, <2>1, RenderEffect
    <3> QED
      BY <3>1
  <2>2. CASE SkipUnparsed(s)
    BY <1>6, <2>2, SkipEffect
  <2>3. CASE PageVanished(s)
    BY <1>6, <2>3, VanishEffect
  <2> QED
    BY <1>6, <2>1, <2>2, <2>3
<1>7. CASE ScanOrphans
  BY <1>7, OrphansEffect
<1>8. CASE WriteSkin
  BY <1>8, SkinEffect
<1>9. CASE WriteStyle
  BY <1>9, StyleEffect
<1>10. CASE CheckSri
  BY <1>10, SriEffect
<1>11. ASSUME NEW p \in TopLevel, Inject(p) PROVE OrderInv'
  <2>1. /\ SamePages /\ build.pc = "runtime" /\ build'.pc = "runtime"
        /\ build'.exit = build.exit /\ p \in build.inject
        /\ \/ build'.page = Absent
           \/ /\ build'.page = [path |-> p, page |-> static[p]] /\ build'.inject = build.inject
              /\ static'[p] = Torn
    BY <1>11, InjectEffect
  <2> QED
    BY <2>1
<1>12. CASE EndBuild
  BY <1>12, EndEffect
<1>13. CASE UNCHANGED vars
  BY <1>13 DEF vars, siteVars, inputVars
<1> QED
  BY <1>1, <1>2, <1>3, <1>4, <1>5, <1>6, <1>7, <1>8, <1>9, <1>10, <1>11, <1>12, <1>13
     DEF Next, NextPage

LEMMA VersionStep == STyped /\ VersionInv /\ [Next]_vars => VersionInv'
<1> SUFFICES ASSUME STyped, VersionInv, [Next]_vars PROVE VersionInv'
  OBVIOUS
<1>1. edits \in Nat /\ edits' \in Nat
  BY TypedStep, ConstantsTyped DEF STyped, TypeOK
<1>2. \A s \in Slugs : cms[s] \in {Absent, Bad} \union Versions
                       /\ build.seen[s] \in {Absent, Bad} \union Versions
  BY DEF STyped, TypeOK, BuildState
<1>3. CASE \/ \E s \in Slugs : WritePage(s) \/ DeletePage(s) \/ BreakPage(s)
           \/ \E skin \in Skins : SetSkin(skin)
           \/ \E style \in Styles \union {Absent} : SetStyle(style)
           \/ ToggleCleanUrls
  <2>1. build'.seen = build.seen /\ edits' = edits + 1
        /\ \A s \in Slugs : cms'[s] \in {cms[s], Absent, Bad, edits + 2}
    BY <1>3, OperatorEffect
  <2> QED
    BY <1>1, <1>2, <2>1, ConstantsTyped DEF VersionInv, Bad, Versions
<1>4. CASE build'.seen = build.seen /\ SameInput
  BY <1>4 DEF VersionInv, SameInput
<1>5. CASE build'.seen = [s \in Slugs |-> Absent] /\ SameInput
  BY <1>5, ConstantsTyped DEF VersionInv, SameInput
<1>6. CASE BeginRender
  <2>1. build'.seen = cms /\ SameInput
    BY <1>6, BeginEffect
  <2> QED
    BY <1>1, <1>2, <2>1, ConstantsTyped DEF VersionInv, SameInput, Bad, Versions
<1>7. (\E mode \in Modes, pipeline \in BOOLEAN : StartBuild(mode, pipeline)) \/ Crash
        => build'.seen = [s \in Slugs |-> Absent] /\ SameInput
  BY StartEffect, CrashEffect
<1>8. CheckSync \/ CheckPurity \/ NextPage \/ ScanOrphans \/ WriteSkin \/ WriteStyle \/ CheckSri
        \/ (\E p \in TopLevel : Inject(p)) \/ EndBuild
        => build'.seen = build.seen /\ SameInput
  BY CheckEffect, RenderEffect, SkipEffect, VanishEffect, OrphansEffect, SkinEffect, StyleEffect,
     SriEffect, InjectEffect, EndEffect DEF NextPage, SameListing
<1>9. CASE UNCHANGED vars
  BY <1>4, <1>9 DEF vars, siteVars, inputVars, SameInput
<1> QED
  BY <1>3, <1>4, <1>5, <1>6, <1>7, <1>8, <1>9 DEF Next

(* No step of the injection changes what the pages will be but their tag.   *)
LEMMA InjectKeepsPages ==
  ASSUME STyped, OrderInv, NEW p \in TopLevel, Inject(p), NEW q \in Paths
  PROVE  \/ PageAt(q)' = PageAt(q)
         \/ /\ PageAt(q) \in Page /\ PageAt(q)' \in Page
            /\ PageAt(q)'.src = PageAt(q).src /\ PageAt(q)'.skin = PageAt(q).skin
            /\ PageAt(q)'.style = PageAt(q).style
<1>1. /\ \A r \in Paths : r # p => static'[r] = static[r]
      /\ p \in Paths
      /\ \/ build.page = Absent /\ build'.page = Absent /\ static' = static
         \/ /\ build.page = Absent /\ build'.page = [path |-> p, page |-> static[p]]
            /\ static[p] \in Page /\ static'[p] = Torn
         \/ /\ build.page # Absent /\ build.page.path = p /\ build'.page = Absent
            /\ build.page.page \in Page
            /\ static'[p] = [build.page.page EXCEPT !.runtime = TRUE]
  BY InjectEffect
<1>2. CASE build.page = Absent /\ build'.page = Absent /\ static' = static
  BY <1>2 DEF PageAt, Filling
<1>3. CASE /\ build.page = Absent /\ build'.page = [path |-> p, page |-> static[p]]
           /\ static[p] \in Page /\ static'[p] = Torn
  <2>1. build'.page # Absent /\ build'.page.path = p /\ build'.page.page = static[p]
    BY <1>3, MarksAssumption DEF Write
  <2> QED
    BY <1>1, <1>3, <2>1 DEF PageAt, Filling
<1>4. CASE /\ build.page # Absent /\ build.page.path = p /\ build'.page = Absent
           /\ build.page.page \in Page
           /\ static'[p] = [build.page.page EXCEPT !.runtime = TRUE]
  <2>1. static'[p] \in Page /\ static'[p].src = build.page.page.src
        /\ static'[p].skin = build.page.page.skin /\ static'[p].style = build.page.page.style
    BY <1>4 DEF Page
  <2> QED
    BY <1>1, <1>4, <2>1 DEF PageAt, Filling
<1> QED
  BY <1>1, <1>2, <1>3, <1>4

LEMMA MoreFindings ==
  ASSUME NEW phase, NEW rule, Excused(phase, rule), SamePolicy,
         build.findings \subseteq build'.findings
  PROVE  Excused(phase, rule)'
BY DEF Excused, SamePolicy, Strict

LEMMA FreshKept ==
  ASSUME STyped, FreshInv, SamePolicy, SameListing, build.todo \subseteq build'.todo,
         build.findings \subseteq build'.findings,
         \A s \in Slugs : Written(s) => Written(s)'
  PROVE  FreshInv'
<1> SUFFICES ASSUME NEW s \in Slugs, build'.seen[s] # Absent, s \notin build'.todo
             PROVE  Written(s)' \/ Excused("render", "cms_parse")'
  BY DEF FreshInv
<1>1. Written(s) \/ Excused("render", "cms_parse")
  BY DEF FreshInv, SameListing
<1> QED
  BY <1>1, MoreFindings

LEMMA WrittenKept ==
  ASSUME STyped, SameListing, NEW s \in Slugs, Written(s),
         PageAt(OutputPath(s))' = PageAt(OutputPath(s))
  PROVE  Written(s)'
BY SameOutput DEF Written, SameListing

LEMMA FreshStep == STyped /\ OrderInv /\ VersionInv /\ FreshInv /\ [Next]_vars => FreshInv'
<1> SUFFICES ASSUME STyped, OrderInv, VersionInv, FreshInv, [Next]_vars PROVE FreshInv'
  OBVIOUS
<1>1. ASSUME SameListing, SameWrite PROVE \A s \in Slugs : Written(s) => Written(s)'
  <2> SUFFICES ASSUME NEW s \in Slugs, Written(s) PROVE Written(s)'
    OBVIOUS
  <2>1. OutputPath(s)' = OutputPath(s)
    BY <1>1, SameOutput DEF SameListing
  <2>2. PageAt(OutputPath(s))' = PageAt(OutputPath(s))
    BY <1>1, <2>1 DEF SameWrite, PageAt, Filling
  <2> QED
    BY <1>1, <2>2, WrittenKept
<1>2. CASE \/ \E s \in Slugs : WritePage(s) \/ DeletePage(s) \/ BreakPage(s)
           \/ \E skin \in Skins : SetSkin(skin)
           \/ \E style \in Styles \union {Absent} : SetStyle(style)
           \/ ToggleCleanUrls
  <2>1. SamePolicy /\ SamePages /\ SameWrite /\ build'.toml = build.toml
        /\ build'.seen = build.seen /\ build'.findings = build.findings
    BY <1>2, OperatorEffect
  <2> SUFFICES ASSUME NEW s \in Slugs, build'.seen[s] # Absent, s \notin build'.todo
               PROVE  Written(s)' \/ Excused("render", "cms_parse")'
    BY DEF FreshInv
  <2>2. OutputPath(s)' = OutputPath(s)
    BY <2>1, SameOutput
  <2>3. Written(s) => Written(s)'
    BY <2>1, <2>2 DEF Written, SameWrite, PageAt, Filling
  <2>4. Excused("render", "cms_parse") => Excused("render", "cms_parse")'
    BY <2>1, MoreFindings
  <2> QED
    BY <2>1, <2>3, <2>4 DEF FreshInv, SamePages
<1>3. CASE (\E mode \in Modes, pipeline \in BOOLEAN : StartBuild(mode, pipeline)) \/ Crash
  BY <1>3, StartEffect, CrashEffect DEF FreshInv
<1>4. CASE CheckSync \/ CheckPurity
  <2>1. SamePolicy /\ SameListing /\ SamePages /\ SameWrite
        /\ build.findings \subseteq build'.findings
    BY <1>4, CheckEffect
  <2> QED
    BY <1>1, <2>1, FreshKept DEF SamePages
<1>5. CASE BeginRender
  <2>1. build'.seen = cms /\ build'.todo = {s \in Slugs : cms[s] # Absent}
    BY <1>5, BeginEffect
  <2> QED
    BY <2>1 DEF FreshInv
<1>6. ASSUME NEW s \in build.todo, NextPage, RenderPage(s) PROVE FreshInv'
  <2>1. /\ SamePolicy /\ SameListing
        /\ build.pc = "pages" /\ build'.page = build.page
        /\ s \in Slugs /\ cms[s] \in Versions
        /\ build'.todo = build.todo \ {s} /\ build'.findings = build.findings
        /\ static'[OutputPath(s)] \in Page
        /\ static'[OutputPath(s)].src = cms[s]
        /\ \A p \in Paths : p # OutputPath(s) => static'[p] = static[p]
    BY <1>6, RenderEffect
  <2>2. build.page = Absent /\ build'.page = Absent
    BY <2>1 DEF OrderInv
  <2> SUFFICES ASSUME NEW r \in Slugs, build'.seen[r] # Absent, r \notin build'.todo
               PROVE  Written(r)' \/ Excused("render", "cms_parse")'
    BY DEF FreshInv
  <2>3. OutputPath(r)' = OutputPath(r)
    BY <2>1, SameOutput DEF SameListing
  <2>4. PageAt(OutputPath(r))' = static'[OutputPath(r)]
    BY <2>2, <2>3 DEF PageAt, Filling
  <2>5. CASE r = s
    <3>1. build.seen[s] # Absent /\ build.seen[s] \in {Bad} \union Versions
      BY <2>1, <2>5 DEF SameListing, STyped, TypeOK, BuildState
    <3>2. cms[s] >= build.seen[s]
      BY <2>1, <3>1, ConstantsTyped DEF VersionInv, Bad, Versions
    <3> QED
      BY <2>1, <2>3, <2>4, <2>5, <3>2, PagesAreNoMarks DEF Written, SameListing
  <2>6. CASE r # s
    <3>1. OutputPath(r) \in Paths /\ OutputPath(r) # OutputPath(s)
      BY <2>1, <2>6, OutputPathTyped DEF STyped
    <3>2. PageAt(OutputPath(r))' = PageAt(OutputPath(r))
      BY <2>1, <2>2, <2>4, <3>1 DEF PageAt, Filling
    <3>3. Written(r) => Written(r)'
      BY <2>1, <3>2, WrittenKept
    <3>4. Excused("render", "cms_parse") => Excused("render", "cms_parse")'
      BY <2>1, MoreFindings
    <3>5. build.seen[r] # Absent /\ r \notin build.todo
      BY <2>1, <2>6 DEF SameListing
    <3> QED
      BY <3>3, <3>4, <3>5 DEF FreshInv
  <2> QED
    BY <2>5, <2>6
<1>7. ASSUME NEW s \in build.todo, NextPage, SkipUnparsed(s) PROVE FreshInv'
  <2>1. SamePolicy /\ SameListing /\ SameWrite /\ build'.todo = build.todo \ {s}
        /\ build'.findings = build.findings \union Applied({Strict("render", "cms_parse")})
    BY <1>7, SkipEffect
  <2>2. <<"render", "cms_parse">> \in build.exempt
        \/ Strict("render", "cms_parse") \in build'.findings
    BY <2>1, AppliedStrict
  <2>3. Excused("render", "cms_parse")'
    BY <2>1, <2>2 DEF Excused, SamePolicy, Strict
  <2> QED
    BY <2>3 DEF FreshInv
<1>8. ASSUME NEW s \in build.todo, NextPage, PageVanished(s) PROVE FreshInv'
  <2>1. SamePolicy /\ SameListing /\ SamePages /\ SameWrite /\ build'.findings = build.findings
    BY <1>8, VanishEffect
  <2> QED
    BY <1>1, <2>1, FreshKept DEF SamePages
<1>9. CASE ScanOrphans \/ WriteSkin \/ WriteStyle \/ EndBuild
  <2>1. SamePolicy /\ SameListing /\ SamePages /\ SameWrite
        /\ build.findings \subseteq build'.findings
    BY <1>9, OrphansEffect, SkinEffect, StyleEffect, EndEffect
  <2> QED
    BY <1>1, <2>1, FreshKept DEF SamePages
<1>10. CASE CheckSri
  <2>1. SamePolicy /\ SameListing /\ SamePages /\ static' = static /\ build'.page = build.page
        /\ build.findings \subseteq build'.findings
    BY <1>10, SriEffect
  <2>2. ASSUME NEW s \in Slugs, Written(s) PROVE Written(s)'
    <3>1. OutputPath(s)' = OutputPath(s)
      BY <2>1, SameOutput DEF SameListing
    <3>2. PageAt(OutputPath(s))' = PageAt(OutputPath(s))
      BY <2>1, <3>1 DEF PageAt, Filling
    <3> QED
      BY <2>1, <2>2, <3>2, WrittenKept
  <2> QED
    BY <2>1, <2>2, FreshKept DEF SamePages
<1>11. ASSUME NEW p \in TopLevel, Inject(p) PROVE FreshInv'
  <2>1. SamePolicy /\ SameListing /\ SamePages /\ build.findings \subseteq build'.findings
    BY <1>11, InjectEffect
  <2>2. ASSUME NEW s \in Slugs, Written(s) PROVE Written(s)'
    <3> DEFINE q == OutputPath(s)
    <3>1. q \in Paths /\ q' = q
      BY <2>1, OutputPathTyped, SameOutput DEF SameListing, STyped
    <3> HIDE DEF q
    <3>2. \/ PageAt(q)' = PageAt(q)
          \/ PageAt(q) \in Page /\ PageAt(q)' \in Page /\ PageAt(q)'.src = PageAt(q).src
      BY <1>11, <3>1, InjectKeepsPages
    <3>3. PageAt(q) \notin {Absent, Torn} /\ PageAt(q).src >= build.seen[s]
      BY <2>2 DEF Written, q
    <3>4. PageAt(q)' \notin {Absent, Torn} /\ PageAt(q)'.src >= build'.seen[s]
      BY <2>1, <3>2, <3>3, PagesAreNoMarks DEF SameListing
    <3> QED
      BY <3>4 DEF Written, q
  <2> QED
    BY <2>1, <2>2, FreshKept DEF SamePages
<1>12. CASE UNCHANGED vars
  BY <1>12 DEF vars, siteVars, inputVars, FreshInv, Written, Excused, PageAt, Filling, OutputPath
<1> QED
  BY <1>2, <1>3, <1>4, <1>5, <1>6, <1>7, <1>8, <1>9, <1>10, <1>11, <1>12 DEF Next, NextPage

LEMMA InitInvariants ==
  Init => OrderInv /\ VersionInv /\ FreshInv /\ SriInv /\ EarlyInv /\ QuietInv
<1> SUFFICES ASSUME Init
             PROVE  OrderInv /\ VersionInv /\ FreshInv /\ SriInv /\ EarlyInv /\ QuietInv
  OBVIOUS
<1>1. build.pc = "idle" /\ build.seen = [s \in Slugs |-> Absent] /\ build.todo = {}
      /\ build.inject = {} /\ build.page = Absent /\ build.findings = {}
      /\ build.quiet = FALSE /\ build.exit = "none" /\ edits = 0
      /\ \A s \in Slugs : cms[s] \in {Absent, 1}
  BY DEF Init, NotBuilding
<1> QED
  BY <1>1, ConstantsTyped DEF OrderInv, VersionInv, FreshInv, SriInv, AfterSkin,
                              EarlyInv, QuietInv

LEMMA NoStrictLeft ==
  ASSUME OrderInv, build.exit = "ok"
  PROVE  \A phase, rule : Strict(phase, rule) \notin build.findings
BY DEF OrderInv, Blocks, Strict

(* A build that reports OK has written, whole, every page that was listed   *)
(* when it began, from that version or a later one.                         *)
THEOREM OkMeansFreshCorrect == Spec => []OkMeansFresh
<1> DEFINE Inv == STyped /\ OrderInv /\ VersionInv /\ FreshInv
<1>1. Init => Inv
  BY InitTyped, InitInvariants
<1>2. Inv /\ [Next]_vars => Inv'
  BY TypedStep, OrderStep, VersionStep, FreshStep
<1>3. Inv => OkMeansFresh
  <2> SUFFICES ASSUME Inv, build.exit = "ok", <<"render", "cms_parse">> \notin build.exempt,
                      NEW s \in Slugs, build.seen[s] # Absent
               PROVE  static[OutputPath(s)] \notin {Absent, Torn}
                      /\ static[OutputPath(s)].src >= build.seen[s]
    BY DEF OkMeansFresh
  <2>1. build.page = Absent /\ build.todo = {}
    BY DEF OrderInv
  <2>2. ~Excused("render", "cms_parse")
    BY NoStrictLeft DEF Excused
  <2>3. Written(s)
    BY <2>1, <2>2 DEF FreshInv
  <2> QED
    BY <2>1, <2>3 DEF Written, PageAt, Filling
<1> QED
  BY <1>1, <1>2, <1>3, PTL DEF Spec

(* A step that leaves the pages, the stylesheets and the exit as they are.  *)
LEMMA SriKept ==
  ASSUME STyped, OrderInv, SriInv, SamePolicy, SameStyles,
         build.findings \subseteq build'.findings, build'.exit = build.exit,
         \A p \in TopLevel : PageAt(p)' = PageAt(p),
         build'.pc = build.pc \/ (build'.pc \notin {"style", "sri", "runtime", "purity"}
                                   /\ build'.exit # "ok")
  PROVE  SriInv'
<1>1. AfterSkin' => AfterSkin
  BY DEF AfterSkin, SamePolicy
<1>2. Excused("sri", "mismatch") => Excused("sri", "mismatch")'
  BY MoreFindings
<1>3. \A p \in TopLevel : Served(PageAt(p)) => Served(PageAt(p))'
  BY DEF Served, SameStyles
<1> QED
  BY <1>1, <1>2, <1>3 DEF SriInv, SameStyles

LEMMA SriStep == STyped /\ OrderInv /\ SriInv /\ [Next]_vars => SriInv'
<1> SUFFICES ASSUME STyped, OrderInv, SriInv, [Next]_vars PROVE SriInv'
  OBVIOUS
<1>1. SameWrite => \A p \in TopLevel : PageAt(p)' = PageAt(p)
  BY DEF SameWrite, PageAt, Filling
<1>2. CASE \/ \E s \in Slugs : WritePage(s) \/ DeletePage(s) \/ BreakPage(s)
           \/ \E skin \in Skins : SetSkin(skin)
           \/ \E style \in Styles \union {Absent} : SetStyle(style)
           \/ ToggleCleanUrls
  <2>1. SamePolicy /\ SameStyles /\ SameWrite /\ build'.findings = build.findings
        /\ build'.exit = build.exit /\ build'.pc = build.pc
    BY <1>2, OperatorEffect
  <2> QED
    BY <1>1, <2>1, SriKept
<1>3. CASE (\E mode \in Modes, pipeline \in BOOLEAN : StartBuild(mode, pipeline)) \/ Crash
  <2>1. build'.pc \in {"sync", "idle"} /\ build'.exit = "none"
    BY <1>3, StartEffect, CrashEffect
  <2> QED
    BY <2>1 DEF SriInv, AfterSkin
<1>4. CASE CheckSync \/ CheckPurity
  <2>1. SamePolicy /\ SameStyles /\ SameWrite /\ build.findings \subseteq build'.findings
        /\ build'.exit = build.exit /\ build.pc \in {"sync", "purity"}
        /\ \/ build.pc = "sync" /\ build'.pc = IF build.pipeline THEN "begin" ELSE "purity"
           \/ build.pc = "purity" /\ build'.pc = IF build.pipeline THEN "sri" ELSE "begin"
    BY <1>4, CheckEffect
  <2>2. build.exit = "none"
    BY <2>1 DEF OrderInv
  <2>3. AfterSkin' => AfterSkin
    BY <2>1, <2>2 DEF AfterSkin, SamePolicy
  <2> QED
    BY <2>1, <2>2, <2>3 DEF SriInv, SameStyles
<1>5. CASE BeginRender \/ NextPage \/ ScanOrphans
  <2>1. build'.pc \in {"pages", "skin", "done"} /\ build'.exit \in {"error", build.exit}
        /\ build.pc \in {"begin", "pages"}
    BY <1>5, BeginEffect, RenderEffect, SkipEffect, VanishEffect, OrphansEffect DEF NextPage
  <2>2. build'.exit # "ok"
    BY <2>1 DEF OrderInv
  <2> QED
    BY <2>1, <2>2 DEF SriInv, AfterSkin
<1>6. CASE WriteSkin
  <2>1. build'.pc = "style" /\ build'.exit = build.exit /\ build.pc = "skin"
        /\ skinFile' \in Skins
    BY <1>6, SkinEffect
  <2>2. build'.exit # "ok"
    BY <2>1 DEF OrderInv
  <2> QED
    BY <2>1, <2>2 DEF SriInv
<1>7. CASE WriteStyle
  <2>1. build'.pc \in {"purity", "sri"} /\ build'.exit = build.exit /\ build.pc = "style"
        /\ skinFile' = skinFile
    BY <1>7, StyleEffect
  <2>2. build'.exit # "ok" /\ skinFile \in Skins
    BY <2>1 DEF OrderInv, SriInv, AfterSkin
  <2> QED
    BY <2>1, <2>2 DEF SriInv
<1>8. CASE CheckSri
  <2>1. SamePolicy /\ SameStyles /\ static' = static /\ build'.page = build.page
        /\ build.pc = "sri" /\ build'.pc = "runtime"
        /\ build'.findings = build.findings \union Applied(SriFound)
    BY <1>8, SriEffect
  <2>2. build.page = Absent /\ skinFile \in Skins
    BY <2>1 DEF OrderInv, SriInv, AfterSkin
  <2> SUFFICES ASSUME NEW p \in TopLevel, PageAt(p)' \notin {Absent, Torn}
               PROVE  Served(PageAt(p))' \/ Excused("sri", "mismatch")'
    BY <2>1, <2>2 DEF SriInv, SameStyles
  <2>3. PageAt(p)' = static[p]
    BY <2>1, <2>2 DEF PageAt, Filling
  <2>4. p \in HtmlFiles /\ static[p] # Torn /\ static[p] \in Page
    BY <2>3 DEF HtmlFiles, TopLevel, STyped, TypeOK
  <2>5. SriFinding(static[p].skin, skinFile) \subseteq SriFound
        /\ SriFinding(static[p].style, styleFile) \subseteq SriFound
    BY <2>4 DEF SriFound
  <2>6. static[p].skin # Absent /\ skinFile # Absent
    BY <2>2, <2>4, ConstantsTyped DEF Page
  <2>7. Served(static[p]) \/ Strict("sri", "mismatch") \in SriFound
    BY <2>5, <2>6 DEF Served, SriFinding
  <2>8. Strict("sri", "mismatch") \in SriFound => Excused("sri", "mismatch")'
    <3>1. Strict("sri", "mismatch") \in SriFound =>
            <<"sri", "mismatch">> \in build.exempt
              \/ Strict("sri", "mismatch") \in build'.findings
      BY <2>1, AppliedStrict
    <3> QED
      BY <2>1, <3>1 DEF Excused, SamePolicy, Strict
  <2>9. Served(static[p]) => Served(PageAt(p))'
    BY <2>1, <2>3 DEF Served, SameStyles
  <2> QED
    BY <2>7, <2>8, <2>9
<1>9. ASSUME NEW p \in TopLevel, Inject(p) PROVE SriInv'
  <2>1. SamePolicy /\ SameStyles /\ build.findings \subseteq build'.findings
        /\ build'.exit = build.exit /\ build.pc = "runtime" /\ build'.pc = "runtime"
    BY <1>9, InjectEffect
  <2>2. ASSUME NEW q \in TopLevel, PageAt(q)' \notin {Absent, Torn}
        PROVE  PageAt(q) \notin {Absent, Torn} /\ (Served(PageAt(q)) => Served(PageAt(q))')
    <3>1. \/ PageAt(q)' = PageAt(q)
          \/ /\ PageAt(q) \in Page
             /\ PageAt(q)'.skin = PageAt(q).skin /\ PageAt(q)'.style = PageAt(q).style
      BY <1>9, InjectKeepsPages DEF TopLevel
    <3> QED
      BY <2>1, <2>2, <3>1, PagesAreNoMarks DEF Served, SameStyles
  <2>3. Excused("sri", "mismatch") => Excused("sri", "mismatch")'
    BY <2>1, MoreFindings
  <2>4. skinFile' \in Skins
    BY <2>1 DEF SriInv, AfterSkin, SameStyles
  <2> QED
    BY <2>1, <2>2, <2>3, <2>4 DEF SriInv
<1>10. CASE EndBuild
  <2>1. SamePolicy /\ SameStyles /\ SameWrite /\ build'.findings = build.findings
        /\ build.pc = "runtime"
    BY <1>10, EndEffect
  <2>2. skinFile \in Skins
    BY <2>1 DEF SriInv, AfterSkin
  <2>3. \A p \in TopLevel : PageAt(p)' = PageAt(p)
    BY <1>1, <2>1
  <2>4. Excused("sri", "mismatch") => Excused("sri", "mismatch")'
    BY <2>1, MoreFindings
  <2>5. \A p \in TopLevel : Served(PageAt(p)) => Served(PageAt(p))'
    BY <2>1, <2>3 DEF Served, SameStyles
  <2> QED
    BY <2>1, <2>2, <2>3, <2>4, <2>5 DEF SriInv, SameStyles
<1>11. CASE UNCHANGED vars
  BY <1>11 DEF vars, siteVars, inputVars, SriInv, AfterSkin, Served, Excused, PageAt, Filling
<1> QED
  BY <1>2, <1>3, <1>4, <1>5, <1>6, <1>7, <1>8, <1>9, <1>10, <1>11 DEF Next

(* A build that reports OK leaves no top-level page whose integrity         *)
(* attribute refuses the stylesheet that is served.                         *)
THEOREM OkMeansIntegrityCorrect == Spec => []OkMeansIntegrity
<1> DEFINE Inv == STyped /\ OrderInv /\ SriInv
<1>1. Init => Inv
  BY InitTyped, InitInvariants
<1>2. Inv /\ [Next]_vars => Inv'
  BY TypedStep, OrderStep, SriStep
<1>3. Inv => OkMeansIntegrity
  <2> SUFFICES ASSUME Inv, build.exit = "ok", <<"sri", "mismatch">> \notin build.exempt,
                      NEW p \in TopLevel, static[p] \notin {Absent, Torn}
               PROVE  Served(static[p])
    BY DEF OkMeansIntegrity, Served
  <2>1. PageAt(p) = static[p]
    BY DEF OrderInv, PageAt, Filling
  <2>2. ~Excused("sri", "mismatch")
    BY NoStrictLeft DEF Excused
  <2> QED
    BY <2>1, <2>2 DEF SriInv
<1> QED
  BY <1>1, <1>2, <1>3, PTL DEF Spec

LEMMA EarlyStep == STyped /\ OrderInv /\ EarlyInv /\ [Next]_vars => EarlyInv'
<1> SUFFICES ASSUME STyped, OrderInv, EarlyInv, [Next]_vars PROVE EarlyInv'
  OBVIOUS
<1>1. CASE \/ \E s \in Slugs : WritePage(s) \/ DeletePage(s) \/ BreakPage(s)
           \/ \E skin \in Skins : SetSkin(skin)
           \/ \E style \in Styles \union {Absent} : SetStyle(style)
           \/ ToggleCleanUrls
  BY <1>1, OperatorEffect DEF EarlyInv, SamePolicy
<1>2. CASE (\E mode \in Modes, pipeline \in BOOLEAN : StartBuild(mode, pipeline)) \/ Crash
  BY <1>2, StartEffect, CrashEffect DEF EarlyInv
<1>3. CASE CheckSync \/ CheckPurity
  <2>1. PICK found : /\ build'.findings = build.findings \union Applied(found)
                     /\ \A f \in found : f.phase \in {"loom_sync", "substrate_purity"}
                     /\ found \subseteq Findings
    BY <1>3, CheckEffect
  <2>2. \A f \in Applied(found) : f.phase \in {"loom_sync", "substrate_purity"}
    BY <2>1, AppliedPhases
  <2>3. SamePolicy
        /\ \/ build.pc = "sync" /\ build'.pc = IF build.pipeline THEN "begin" ELSE "purity"
           \/ build.pc = "purity" /\ build'.pc = IF build.pipeline THEN "sri" ELSE "begin"
    BY <1>3, CheckEffect
  <2> QED
    BY <2>1, <2>2, <2>3 DEF EarlyInv, SamePolicy
<1>4. CASE BeginRender \/ NextPage \/ ScanOrphans \/ WriteSkin \/ CheckSri \/ EndBuild
           \/ \E p \in TopLevel : Inject(p)
  <2>1. build'.pc \notin {"sync", "begin", "purity"}
    BY <1>4, BeginEffect, RenderEffect, SkipEffect, VanishEffect, OrphansEffect, SkinEffect,
       SriEffect, InjectEffect, EndEffect DEF NextPage
  <2> QED
    BY <2>1 DEF EarlyInv
<1>5. CASE WriteStyle
  BY <1>5, StyleEffect DEF EarlyInv, SamePolicy
<1>6. CASE UNCHANGED vars
  BY <1>6 DEF vars, EarlyInv
<1> QED
  BY <1>1, <1>2, <1>3, <1>4, <1>5, <1>6 DEF Next

(* A site that is clean later in a build was clean before: pages only come. *)
LEMMA CleanBefore ==
  ASSUME SameListing, \A p \in TopLevel : static[p] # Absent => static'[p] # Absent, Clean'
  PROVE  Clean
<1>1. \A s \in Slugs : build.seen[s] # Bad
  BY DEF Clean, SameListing
<1>2. ASSUME NEW p \in TopLevel, static[p] # Absent
      PROVE  build.seen[p[1]] # Absent /\ p = OutputPath(p[1])
  <2>1. OutputPath(p[1])' = OutputPath(p[1])
    BY SameOutput DEF SameListing
  <2>2. build'.seen[p[1]] # Absent /\ p = OutputPath(p[1])'
    BY <1>2 DEF Clean
  <2> QED
    BY <2>1, <2>2 DEF SameListing
<1> QED
  BY <1>1, <1>2 DEF Clean

LEMMA JustWrittenKept ==
  ASSUME SameListing, SameInput, build.rendered \subseteq build'.rendered,
         NEW s, JustWritten(s), PageAt(OutputPath(s))' = PageAt(OutputPath(s))
  PROVE  JustWritten(s)'
BY DEF JustWritten, SameInput

(* Steps that leave the pages and the findings as they are.                 *)
LEMMA QuietKept ==
  ASSUME STyped, QuietInv, SameListing, SamePages, SameWrite, SameInput,
         build'.findings = build.findings, build.quiet
  PROVE  /\ build'.seen = cms' /\ build'.toml = toml'
         /\ \A s \in build'.todo : build'.seen[s] # Absent
         /\ Clean' =>
              /\ \A f \in build'.findings : f.phase \in {"loom_sync", "substrate_purity"}
              /\ \A s \in Slugs : build'.seen[s] # Absent /\ s \notin build'.todo =>
                   JustWritten(s)'
<1>1. Clean' => Clean
  BY CleanBefore DEF SameWrite
<1>2. ASSUME NEW s \in Slugs, JustWritten(s) PROVE JustWritten(s)'
  <2>1. OutputPath(s)' = OutputPath(s)
    BY SameOutput DEF SameListing
  <2>2. PageAt(OutputPath(s))' = PageAt(OutputPath(s))
    BY <2>1 DEF SameWrite, PageAt, Filling
  <2> QED
    BY <1>2, <2>2, JustWrittenKept DEF SamePages
<1> QED
  BY <1>1, <1>2 DEF QuietInv, SameListing, SamePages, SameInput

(* The pages of a clean site are the ones just written.                     *)
LEMMA CleanPages ==
  ASSUME STyped, QuietInv, build.quiet, Clean, build.todo = {}, NEW p \in TopLevel,
         static[p] # Absent
  PROVE  p[1] \in build.rendered /\ PageAt(p) \notin {Absent, Torn}
         /\ PageAt(p).skin = toml.skin /\ PageAt(p).style = toml.style
<1>1. p[1] \in Slugs /\ build.seen[p[1]] # Absent /\ p = OutputPath(p[1])
  BY DEF Clean, TopLevel, Paths
<1>2. JustWritten(p[1])
  BY <1>1 DEF QuietInv
<1> QED
  BY <1>1, <1>2 DEF JustWritten

LEMMA QuietStep == STyped /\ OrderInv /\ EarlyInv /\ QuietInv /\ [Next]_vars => QuietInv'
<1> SUFFICES ASSUME STyped, OrderInv, EarlyInv, QuietInv, [Next]_vars, build'.quiet
             PROVE  QuietInv'
  BY DEF QuietInv
<1>1. CASE \/ \E s \in Slugs : WritePage(s) \/ DeletePage(s) \/ BreakPage(s)
           \/ \E skin \in Skins : SetSkin(skin)
           \/ \E style \in Styles \union {Absent} : SetStyle(style)
           \/ ToggleCleanUrls
           \/ \E mode \in Modes, pipeline \in BOOLEAN : StartBuild(mode, pipeline)
           \/ Crash
  BY <1>1, OperatorEffect, StartEffect, CrashEffect
<1>2. CASE CheckSync \/ CheckPurity
  <2>1. PICK found : /\ build'.findings = build.findings \union Applied(found)
                     /\ \A f \in found : f.phase \in {"loom_sync", "substrate_purity"}
                     /\ found \subseteq Findings
    BY <1>2, CheckEffect
  <2>2. \A f \in Applied(found) : f.phase \in {"loom_sync", "substrate_purity"}
    BY <2>1, AppliedPhases
  <2>3. /\ SamePolicy /\ SameListing /\ SamePages /\ SameWrite /\ SameInput /\ SameStyles
        /\ build'.exit = build.exit
        /\ \/ build.pc = "sync"
           \/ build.pc = "purity" /\ build'.pc = IF build.pipeline THEN "sri" ELSE "begin"
    BY <1>2, CheckEffect
  <2>4. build.quiet /\ build.pc = "purity" /\ build.pipeline /\ build'.pc = "sri"
        /\ build.exit = "none"
    BY <2>3 DEF QuietInv, SameListing, OrderInv
  <2>5. skinFile' = toml'.skin /\ toml'.style \in {Absent, styleFile'}
    BY <2>3, <2>4 DEF QuietInv, AfterStyle, SameStyles, SameInput
  <2>6. Clean' => Clean
    BY <2>3, CleanBefore DEF SameWrite
  <2>7. ASSUME NEW s \in Slugs, JustWritten(s) PROVE JustWritten(s)'
    <3>1. OutputPath(s)' = OutputPath(s)
      BY <2>3, SameOutput DEF SameListing
    <3>2. PageAt(OutputPath(s))' = PageAt(OutputPath(s))
      BY <2>3, <3>1 DEF SameWrite, PageAt, Filling
    <3> QED
      BY <2>3, <2>7, <3>2, JustWrittenKept DEF SamePages
  <2>8. Clean' => /\ \A f \in build'.findings : f.phase \in {"loom_sync", "substrate_purity"}
                  /\ \A s \in Slugs : build'.seen[s] # Absent /\ s \notin build'.todo =>
                       JustWritten(s)'
    BY <2>1, <2>2, <2>3, <2>4, <2>6, <2>7 DEF QuietInv, SameListing, SamePages
  <2>9. build'.seen = cms' /\ build'.toml = toml' /\ \A s \in build'.todo : build'.seen[s] # Absent
    BY <2>3, <2>4 DEF QuietInv, SameListing, SamePages, SameInput
  <2> QED
    BY <2>3, <2>4, <2>5, <2>8, <2>9 DEF QuietInv
<1>3. CASE BeginRender
  <2>1. /\ SameInput /\ build.pc = "begin" /\ build'.pc = "pages"
        /\ build'.findings = build.findings /\ build'.exit = build.exit
        /\ build'.toml = toml /\ build'.seen = cms
        /\ build'.todo = {s \in Slugs : cms[s] # Absent}
    BY <1>3, BeginEffect
  <2>2. build.exit = "none"
        /\ \A f \in build.findings : f.phase \in {"loom_sync", "substrate_purity"}
    BY <2>1 DEF OrderInv, EarlyInv
  <2> QED
    BY <2>1, <2>2 DEF QuietInv, AfterStyle, SameInput
<1>4. ASSUME NEW s \in build.todo, NextPage, RenderPage(s) PROVE QuietInv'
  <2>1. /\ SamePolicy /\ SameListing /\ SameInput
        /\ build.pc = "pages" /\ build'.pc = "pages"
        /\ build'.findings = build.findings /\ build'.exit = build.exit
        /\ build'.page = build.page /\ s \in Slugs
        /\ build'.todo = build.todo \ {s} /\ build'.rendered = build.rendered \union {s}
        /\ static'[OutputPath(s)] \in Page
        /\ static'[OutputPath(s)].skin = build.toml.skin
        /\ static'[OutputPath(s)].style = toml.style
        /\ \A p \in Paths : p # OutputPath(s) => static'[p] = static[p]
    BY <1>4, RenderEffect
  <2>2. build.page = Absent /\ build.exit = "none" /\ build.quiet /\ build.toml = toml
        /\ build.seen = cms
    BY <2>1 DEF OrderInv, QuietInv, SameListing
  <2>3. Clean' => Clean
    <3>1. \A p \in TopLevel : static[p] # Absent => static'[p] # Absent
      BY <2>1, PagesAreNoMarks DEF TopLevel
    <3> QED
      BY <2>1, <3>1, CleanBefore
  <2>4. ASSUME NEW r \in Slugs, r = s \/ JustWritten(r) PROVE JustWritten(r)'
    <3>1. OutputPath(r)' = OutputPath(r)
      BY <2>1, SameOutput DEF SameListing
    <3>2. PageAt(OutputPath(r))' = static'[OutputPath(r)] /\ PageAt(OutputPath(r)) = static[OutputPath(r)]
      BY <2>1, <2>2, <3>1 DEF PageAt, Filling
    <3>3. CASE r = s
      BY <2>1, <2>2, <3>2, <3>3, PagesAreNoMarks DEF JustWritten, SameInput
    <3>4. CASE r # s
      <4>1. OutputPath(r) \in Paths /\ OutputPath(r) # OutputPath(s)
        BY <2>1, <3>4, OutputPathTyped DEF STyped
      <4>2. PageAt(OutputPath(r))' = PageAt(OutputPath(r))
        BY <2>1, <3>2, <4>1
      <4> QED
        BY <2>1, <2>4, <3>4, <4>2, JustWrittenKept
    <3> QED
      BY <3>3, <3>4
  <2>5. Clean' => /\ \A f \in build'.findings : f.phase \in {"loom_sync", "substrate_purity"}
                  /\ \A r \in Slugs : build'.seen[r] # Absent /\ r \notin build'.todo =>
                       JustWritten(r)'
    BY <2>1, <2>2, <2>3, <2>4 DEF QuietInv, SameListing
  <2>6. \A r \in build'.todo : build'.seen[r] # Absent
    BY <2>1, <2>2 DEF QuietInv, SameListing
  <2> QED
    BY <2>1, <2>2, <2>5, <2>6 DEF QuietInv, AfterStyle, SameListing, SameInput
<1>5. ASSUME NEW s \in build.todo, NextPage, SkipUnparsed(s) PROVE QuietInv'
  <2>1. /\ SameListing /\ SameInput /\ build.pc = "pages" /\ build'.pc = "pages"
        /\ build'.exit = build.exit /\ s \in Slugs /\ cms[s] = Bad
        /\ build'.todo = build.todo \ {s}
    BY <1>5, SkipEffect
  <2>2. build.quiet /\ build.seen = cms /\ build.toml = toml /\ build.exit = "none"
        /\ \A r \in build.todo : build.seen[r] # Absent
    BY <2>1 DEF QuietInv, SameListing, OrderInv
  <2>3. ~Clean'
    BY <2>1, <2>2 DEF Clean, SameListing
  <2> QED
    BY <2>1, <2>2, <2>3 DEF QuietInv, AfterStyle, SameListing, SameInput
<1>6. ASSUME NEW s \in build.todo, NextPage, PageVanished(s) PROVE QuietInv'
  <2>1. SameListing /\ cms[s] = Absent
    BY <1>6, VanishEffect
  <2>2. build.seen[s] # Absent /\ build.seen = cms
    BY <2>1 DEF QuietInv, SameListing
  <2> QED
    BY <2>1, <2>2
<1>7. CASE ScanOrphans
  <2>1. /\ SamePolicy /\ SameListing /\ SamePages /\ SameWrite /\ SameInput
        /\ build.pc = "pages" /\ build'.pc = "skin" /\ build.todo = {}
        /\ build'.exit = build.exit
        /\ build'.findings =
             build.findings \union Applied({Warn("render", "orphan") : p \in Orphans})
    BY <1>7, OrphansEffect
  <2>2. build.quiet /\ build.seen = cms /\ build.toml = toml /\ build.exit = "none"
    BY <2>1 DEF QuietInv, SameListing, OrderInv
  <2>3. Clean' => Clean
    BY <2>1, CleanBefore DEF SameWrite
  <2>4. Clean => Orphans = {}
    BY <2>1, <2>2, CleanPages DEF Orphans
  <2>5. Orphans = {} => Applied({Warn("render", "orphan") : p \in Orphans}) = {}
    BY DEF Applied
  <2>6. ASSUME NEW s \in Slugs, JustWritten(s) PROVE JustWritten(s)'
    <3>1. OutputPath(s)' = OutputPath(s)
      BY <2>1, SameOutput DEF SameListing
    <3>2. PageAt(OutputPath(s))' = PageAt(OutputPath(s))
      BY <2>1, <3>1 DEF SameWrite, PageAt, Filling
    <3> QED
      BY <2>1, <2>6, <3>2, JustWrittenKept DEF SamePages
  <2>7. Clean' => /\ \A f \in build'.findings : f.phase \in {"loom_sync", "substrate_purity"}
                  /\ \A s \in Slugs : build'.seen[s] # Absent /\ s \notin build'.todo =>
                       JustWritten(s)'
    BY <2>1, <2>2, <2>3, <2>4, <2>5, <2>6 DEF QuietInv, SameListing, SamePages
  <2> QED
    BY <2>1, <2>2, <2>7 DEF QuietInv, AfterStyle, SameListing, SamePages, SameInput
<1>8. CASE WriteSkin
  <2>1. /\ SameListing /\ SamePages /\ SameWrite /\ SameInput
        /\ build.pc = "skin" /\ build'.pc = "style" /\ build'.exit = build.exit
        /\ build'.findings = build.findings
        /\ skinFile' = build.toml.skin
    BY <1>8, SkinEffect
  <2>2. build.quiet /\ build.toml = toml /\ build.exit = "none"
    BY <2>1 DEF QuietInv, SameListing, OrderInv
  <2> QED
    BY <2>1, <2>2, QuietKept DEF QuietInv, AfterStyle, SameInput
<1>9. CASE WriteStyle
  <2>1. /\ SamePolicy /\ SameListing /\ SamePages /\ SameWrite /\ SameInput
        /\ build.pc = "style" /\ build'.pc = IF build.pipeline THEN "purity" ELSE "sri"
        /\ build'.exit = build.exit /\ build'.findings = build.findings
        /\ skinFile' = skinFile
        /\ styleFile' = IF toml.style = Absent THEN styleFile ELSE toml.style
    BY <1>9, StyleEffect
  <2>2. build.quiet /\ build.exit = "none" /\ skinFile = toml.skin
    BY <2>1 DEF QuietInv, SameListing, OrderInv
  <2>3. toml'.style \in {Absent, styleFile'} /\ skinFile' = toml'.skin
        /\ (build'.pc = "purity" => build'.pipeline)
    BY <2>1, <2>2 DEF SameInput, SamePolicy
  <2> QED
    BY <2>1, <2>2, <2>3, QuietKept DEF QuietInv
<1>10. CASE CheckSri
  <2>1. /\ SamePolicy /\ SameListing /\ SamePages /\ SameInput /\ SameStyles
        /\ build.pc = "sri" /\ build'.pc = "runtime" /\ build'.exit = build.exit
        /\ static' = static /\ build'.page = build.page
        /\ build'.findings = build.findings \union Applied(SriFound)
    BY <1>10, SriEffect
  <2>2. build.quiet /\ build.seen = cms /\ build.toml = toml /\ build.exit = "none"
        /\ build.page = Absent /\ build.todo = {}
        /\ skinFile = toml.skin /\ toml.style \in {Absent, styleFile}
    BY <2>1 DEF QuietInv, SameListing, OrderInv, AfterStyle
  <2>3. Clean' => Clean
    BY <2>1, CleanBefore
  <2>4. ASSUME Clean PROVE SriFound = {}
    <3> SUFFICES ASSUME NEW p \in HtmlFiles
                 PROVE  SriFinding(static[p].skin, skinFile) = {}
                        /\ SriFinding(static[p].style, styleFile) = {}
      BY DEF SriFound
    <3>1. p \in TopLevel /\ static[p] # Absent /\ PageAt(p) = static[p]
      BY <2>2 DEF HtmlFiles, PageAt, Filling
    <3>2. static[p].skin = toml.skin /\ static[p].style = toml.style
      BY <2>2, <2>4, <3>1, CleanPages
    <3> QED
      BY <2>2, <3>2 DEF SriFinding
  <2>5. SriFound = {} => Applied(SriFound) = {}
    BY DEF Applied
  <2>6. ASSUME NEW s \in Slugs, JustWritten(s) PROVE JustWritten(s)'
    <3>1. OutputPath(s)' = OutputPath(s)
      BY <2>1, SameOutput DEF SameListing
    <3>2. PageAt(OutputPath(s))' = PageAt(OutputPath(s))
      BY <2>1, <3>1 DEF PageAt, Filling
    <3> QED
      BY <2>1, <2>6, <3>2, JustWrittenKept DEF SamePages
  <2>7. Clean' => /\ \A f \in build'.findings : f.phase \in {"loom_sync", "substrate_purity"}
                  /\ \A s \in Slugs : build'.seen[s] # Absent /\ s \notin build'.todo =>
                       JustWritten(s)'
    BY <2>1, <2>2, <2>3, <2>4, <2>5, <2>6 DEF QuietInv, SameListing, SamePages
  <2> QED
    BY <2>1, <2>2, <2>7 DEF QuietInv, SameListing, SamePages, SameInput, SameStyles
<1>11. ASSUME NEW p \in TopLevel, Inject(p) PROVE QuietInv'
  <2>1. /\ SamePolicy /\ SameListing /\ SamePages /\ SameInput /\ SameStyles
        /\ build.pc = "runtime" /\ build'.pc = "runtime" /\ build'.exit = build.exit
        /\ p \in build.inject /\ p \in Paths
        /\ \A q \in Paths : q # p => static'[q] = static[q]
        /\ static'[p] = static[p] \/ static'[p] = Torn
           \/ \E page \in Page : static'[p] = [page EXCEPT !.runtime = TRUE]
        /\ \/ build'.findings = build.findings
           \/ /\ build.page = Absent /\ static[p] = Torn
              /\ build'.findings = build.findings \union
                   Applied({Warn("dynamic_runtime", "no_body")})
    BY <1>11, InjectEffect
  <2>2. build.quiet /\ build.seen = cms /\ build.toml = toml /\ build.exit = "none"
        /\ build.todo = {} /\ skinFile = toml.skin /\ toml.style \in {Absent, styleFile}
    BY <2>1 DEF QuietInv, SameListing, OrderInv, AfterStyle
  <2>3. Clean' => Clean
    <3>1. \A page \in Page : [page EXCEPT !.runtime = TRUE] # Absent
      BY PagesAreNoMarks DEF Page
    <3>2. static'[p] # Absent
      BY <2>1, <3>1, ConstantsTyped DEF STyped
    <3>3. \A q \in TopLevel : static[q] # Absent => static'[q] # Absent
      BY <2>1, <3>2 DEF TopLevel
    <3> QED
      BY <2>1, <3>3, CleanBefore
  <2>4. Clean => build'.findings = build.findings
    <3>1. ASSUME Clean, build.page = Absent, static[p] = Torn PROVE FALSE
      <4>1. PageAt(p) = Torn /\ static[p] # Absent
        BY <3>1, ConstantsTyped DEF PageAt, Filling
      <4> QED
        BY <2>2, <3>1, <4>1, CleanPages
    <3> QED
      BY <2>1, <3>1
  <2>5. ASSUME NEW s \in Slugs, JustWritten(s) PROVE JustWritten(s)'
    <3> DEFINE q == OutputPath(s)
    <3>1. q \in Paths /\ q' = q
      BY <2>1, OutputPathTyped, SameOutput DEF SameListing, STyped
    <3> HIDE DEF q
    <3>2. \/ PageAt(q)' = PageAt(q)
          \/ /\ PageAt(q) \in Page /\ PageAt(q)' \in Page
             /\ PageAt(q)'.skin = PageAt(q).skin /\ PageAt(q)'.style = PageAt(q).style
      BY <1>11, <3>1, InjectKeepsPages
    <3>3. s \in build.rendered /\ PageAt(q) \notin {Absent, Torn}
          /\ PageAt(q).skin = toml.skin /\ PageAt(q).style = toml.style
      BY <2>5 DEF JustWritten, q
    <3>4. s \in build'.rendered /\ PageAt(q)' \notin {Absent, Torn}
          /\ PageAt(q)'.skin = toml'.skin /\ PageAt(q)'.style = toml'.style
      BY <2>1, <3>2, <3>3, PagesAreNoMarks DEF SamePages, SameInput
    <3> QED
      BY <3>4 DEF JustWritten, q
  <2>6. Clean' => /\ \A f \in build'.findings : f.phase \in {"loom_sync", "substrate_purity"}
                  /\ \A s \in Slugs : build'.seen[s] # Absent /\ s \notin build'.todo =>
                       JustWritten(s)'
    BY <2>1, <2>2, <2>3, <2>4, <2>5 DEF QuietInv, SameListing, SamePages
  <2> QED
    BY <2>1, <2>2, <2>6 DEF QuietInv, SameListing, SamePages, SameInput, SameStyles
<1>12. CASE EndBuild
  <2>1. /\ SamePolicy /\ SameListing /\ SamePages /\ SameWrite /\ SameInput /\ SameStyles
        /\ build.pc = "runtime" /\ build'.pc = "done"
        /\ build'.findings = build.findings
        /\ build'.exit = IF \E f \in build.findings : Blocks(f) THEN "failed" ELSE "ok"
    BY <1>12, EndEffect
  <2>2. build.quiet /\ skinFile = toml.skin /\ toml.style \in {Absent, styleFile}
    BY <2>1 DEF QuietInv, SameListing, AfterStyle
  <2>3. build'.exit \in {"ok", "failed"} /\ (build'.exit = "failed" => build'.findings # {})
    BY <2>1
  <2>4. skinFile' = toml'.skin /\ toml'.style \in {Absent, styleFile'}
    BY <2>1, <2>2 DEF SameStyles, SameInput
  <2> QED
    BY <2>1, <2>2, <2>3, <2>4, QuietKept DEF QuietInv
<1>13. CASE UNCHANGED vars
  BY <1>13 DEF vars, siteVars, inputVars, QuietInv, Clean, AfterStyle, JustWritten, PageAt,
               Filling, OutputPath
<1> QED
  BY <1>1, <1>2, <1>3, <1>4, <1>5, <1>6, <1>7, <1>8, <1>9, <1>10, <1>11, <1>12, <1>13
     DEF Next, NextPage

(* If nothing is edited while it runs and the site is clean, a build in     *)
(* which loom_sync and substrate_purity found nothing succeeds.             *)
THEOREM QuietBuildSucceedsCorrect == Spec => []QuietBuildSucceeds
<1> DEFINE Inv == STyped /\ OrderInv /\ EarlyInv /\ QuietInv
<1>1. Init => Inv
  BY InitTyped, InitInvariants
<1>2. Inv /\ [Next]_vars => Inv'
  BY TypedStep, OrderStep, EarlyStep, QuietStep
<1>3. Inv => QuietBuildSucceeds
  <2> SUFFICES ASSUME Inv, build.pc = "done", build.quiet, Clean,
                      ~\E f \in build.findings : f.phase \in {"loom_sync", "substrate_purity"}
               PROVE  build.exit = "ok"
    BY DEF QuietBuildSucceeds, Clean
  <2>1. build.findings = {}
    BY DEF QuietInv
  <2>2. build.exit \notin {"none", "error", "failed"}
    BY <2>1 DEF QuietInv
  <2>3. build.exit \in {"none", "ok", "failed", "error"}
    BY DEF STyped, TypeOK, BuildState
  <2> QED
    BY <2>2, <2>3
<1> QED
  BY <1>1, <1>2, <1>3, PTL DEF Spec
=============================================================================
